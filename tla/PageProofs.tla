----------------------------- MODULE PageProofs -----------------------------
(***************************************************************************)
(* The page that plays, for any lengths, items and numbers of runs: what    *)
(* the service worker knows of the items of the cloud player, that the      *)
(* watchdog of the player holds a frozen video silent, and that a server    *)
(* download has one run.                                                    *)
(***************************************************************************)
EXTENDS WatchPlayer, CloudPlayback, ServerDownloads, FiniteSetTheorems, SequenceTheorems, TLAPS

-----------------------------------------------------------------------------
(* The inductive invariant                                                  *)

\* A message to the worker.
Message ==
    [type : {"register"}, item : Items, run : Runs] \cup [type : {"unregister"}, item : Items, run : {0}]
IsRegister(m) == m.type = "register"

\* The run that is not cancelled: what it holds and what it waits for.
RunState ==
    /\ current \in {0, runs} /\ (item = "none" <=> current = 0)
    /\ current = 0 => step = "idle" /\ media = "none"
    /\ step \in {"worker", "register", "probe"} => mode = "stream" /\ media = "none"
    /\ step \in {"confirm", "download"} => mode = "blob"
    /\ media = "stream" => mode = "stream"
    /\ current # 0 /\ mode = "stream" => runs < MaxRuns
    /\ downloads \subseteq {current} \ {0} /\ blobUrl \in {0, current}

\* A run waits from its registration until it hears the answer or gives up.
WaitState ==
    /\ \A r \in Runs : waits[r] # "none" => r <= runs
    /\ \A r \in Runs : r = current =>
          waits[r] = IF step = "register" THEN item ELSE "none"
    /\ \A r \in acks : waits[r] # "none"

\* Each run registers once.
BoxState ==
    /\ box \in Seq(Message)
    /\ \A k \in DOMAIN box : IsRegister(box[k]) =>
          /\ box[k].run \in 1 .. runs
          /\ box[k].run = current => step # "worker"
          /\ \A l \in DOMAIN box : IsRegister(box[l]) /\ box[l].run = box[k].run => l = k

\* The worker will know i when it has heard all that was sent.
WillKnow(i) ==
    \/ i \in streams /\ \A l \in DOMAIN box : box[l] # Unregisters(i)
    \/ \E k \in DOMAIN box :
          /\ IsRegister(box[k]) /\ box[k].item = i
          /\ \A l \in DOMAIN box : l > k => box[l] # Unregisters(i)

\* It is the item of a run that streams.
KnownIsOpen == \A i \in Items : WillKnow(i) => current # 0 /\ mode = "stream" /\ item = i

\* The item's registration is under way, with nothing behind it that undoes it.
Underway ==
    \E k \in DOMAIN box :
        /\ IsRegister(box[k]) /\ box[k].run = current /\ box[k].item = item
        /\ \A l \in DOMAIN box : l > k => box[l] # Unregisters(item)

\* The worker knows the item, and nothing is under way that undoes it.
Known == item \in streams /\ \A l \in DOMAIN box : box[l] # Unregisters(item)

Heard == (step = "register" /\ current \in acks) \/ step = "probe" \/ media = "stream"
OpenIsKnown ==
    ~crossed /\ workerStops = 0 =>
        /\ step = "register" /\ current \notin acks => Underway
        /\ Heard => Known

IInv == CloudTypeOK /\ RunState /\ WaitState /\ BoxState /\ KnownIsOpen /\ OpenIsKnown

-----------------------------------------------------------------------------
(* Messages                                                                 *)

\* What the proofs need of the constants.
LEMMA ConstantsTyped == "none" \notin Items /\ MaxRuns \in Nat /\ MaxWorkerStops \in Nat
BY CloudAssumption

\* A message is added behind the others.
LEMMA Sent ==
    ASSUME NEW m \in Message, box \in Seq(Message), box' = Append(box, m)
    PROVE  /\ box' \in Seq(Message) /\ Len(box) \in Nat
           /\ DOMAIN box = 1 .. Len(box) /\ DOMAIN box' = 1 .. (Len(box) + 1)
           /\ \A k \in DOMAIN box : box'[k] = box[k]
           /\ box'[Len(box) + 1] = m
OBVIOUS

\* A message that is no registration takes its item back.
LEMMA UnregisterShape ==
    ASSUME NEW m \in Message, ~IsRegister(m)
    PROVE  m = Unregisters(m.item)
BY DEF Message, IsRegister, Unregisters

\* The first message is taken, the others move up.
LEMMA Taken ==
    ASSUME box \in Seq(Message), box # <<>>, box' = Tail(box)
    PROVE  /\ box' \in Seq(Message) /\ Len(box) \in Nat \ {0} /\ Head(box) \in Message
           /\ DOMAIN box = 1 .. Len(box) /\ DOMAIN box' = 1 .. (Len(box) - 1)
           /\ Head(box) = box[1]
           /\ \A k \in DOMAIN box' : box'[k] = box[k + 1]
OBVIOUS

\* A message that takes an item back makes the worker forget it, and no other.
LEMMA SentUnregister ==
    ASSUME NEW j \in Items, box \in Seq(Message), box' = Append(box, Unregisters(j)), streams' = streams
    PROVE  /\ box' \in Seq(Message)
           /\ \A k \in DOMAIN box' : IsRegister(box'[k]) => k \in DOMAIN box /\ box'[k] = box[k]
           /\ \A i \in Items : WillKnow(i)' => WillKnow(i) /\ i # j
           /\ j # item /\ item' = item /\ current' = current => (Underway => Underway') /\ (Known => Known')
<1>. DEFINE m == Unregisters(j)
<1>1. m \in Message /\ ~IsRegister(m) /\ m.item = j
  BY ConstantsTyped DEF Unregisters, Message, IsRegister
<1>2. /\ box' \in Seq(Message) /\ Len(box) \in Nat
      /\ DOMAIN box = 1 .. Len(box) /\ DOMAIN box' = 1 .. (Len(box) + 1)
      /\ \A k \in DOMAIN box : box'[k] = box[k]
      /\ box'[Len(box) + 1] = m
  BY <1>1, Sent
<1>3. \A i \in Items : Unregisters(i) = m <=> i = j
  BY DEF Unregisters
<1>. HIDE DEF m
<1>4. \A k \in DOMAIN box' : IsRegister(box'[k]) => k \in DOMAIN box /\ box'[k] = box[k]
  BY <1>1, <1>2
<1>5. ASSUME NEW i \in Items, WillKnow(i)' PROVE WillKnow(i) /\ i # j
  BY <1>2, <1>3, <1>4, <1>5 DEF WillKnow
<1>6. ASSUME j # item, item' = item, current' = current
      PROVE  (Underway => Underway') /\ (Known => Known')
  <2>1. Unregisters(item) # m
    BY <1>1, <1>6 DEF Unregisters
  <2>2. ASSUME Underway PROVE Underway'
    <3>1. PICK k \in DOMAIN box :
             /\ IsRegister(box[k]) /\ box[k].run = current /\ box[k].item = item
             /\ \A l \in DOMAIN box : l > k => box[l] # Unregisters(item)
      BY <2>2 DEF Underway
    <3>. QED
      BY <1>2, <1>6, <2>1, <3>1 DEF Underway
  <2>3. ASSUME Known PROVE Known'
    BY <1>2, <1>6, <2>1, <2>3 DEF Known
  <2>. QED
    BY <2>2, <2>3
<1>. QED
  BY <1>2, <1>4, <1>5, <1>6

\* A registration makes the worker know its item, and no other.
LEMMA SentRegister ==
    ASSUME NEW j \in Items, NEW r \in Runs, box \in Seq(Message), box' = Append(box, Registers(j, r)),
           streams' = streams
    PROVE  /\ box' \in Seq(Message)
           /\ \A k \in DOMAIN box' :
                 \/ k \in DOMAIN box /\ box'[k] = box[k]
                 \/ k = Len(box) + 1 /\ k \notin DOMAIN box /\ box'[k].run = r
           /\ \A i \in Items : WillKnow(i)' => WillKnow(i) \/ i = j
           /\ item' = j /\ current' = r => Underway'
<1>. DEFINE m == Registers(j, r)
<1>1. m \in Message /\ IsRegister(m) /\ m.item = j /\ m.run = r
  BY ConstantsTyped DEF Registers, Message, IsRegister, Runs
<1>2. /\ box' \in Seq(Message) /\ Len(box) \in Nat
      /\ DOMAIN box = 1 .. Len(box) /\ DOMAIN box' = 1 .. (Len(box) + 1)
      /\ \A k \in DOMAIN box : box'[k] = box[k]
      /\ box'[Len(box) + 1] = m
  BY <1>1, Sent
<1>3. \A i : Unregisters(i) # m
  BY DEF Unregisters, Registers
<1>. HIDE DEF m
<1>4. \A k \in DOMAIN box' :
         \/ k \in DOMAIN box /\ box'[k] = box[k]
         \/ k = Len(box) + 1 /\ k \notin DOMAIN box /\ box'[k].run = r
  <2>. TAKE k \in DOMAIN box'
  <2>1. k \in 1 .. Len(box) \/ k = Len(box) + 1
    BY <1>2
  <2>2. Len(box) + 1 \notin DOMAIN box
    BY <1>2
  <2>. QED
    <3>1. CASE k \in 1 .. Len(box)
      BY <1>2, <3>1
    <3>2. CASE k = Len(box) + 1
      <4>1. box'[k].run = r
        BY <1>1, <1>2, <3>2
      <4>. QED
        BY <2>2, <3>2, <4>1
    <3>. QED
      BY <2>1, <3>1, <3>2
<1>5. ASSUME NEW i \in Items, WillKnow(i)', i # j PROVE WillKnow(i)
  BY <1>1, <1>2, <1>5 DEF WillKnow
<1>6. ASSUME item' = j, current' = r PROVE Underway'
  <2>1. Len(box) + 1 \in DOMAIN box' /\ \A l \in DOMAIN box' : ~(l > Len(box) + 1)
    BY <1>2
  <2>. QED
    BY <1>1, <1>2, <1>6, <2>1 DEF Underway
<1>. QED
  BY <1>2, <1>4, <1>5, <1>6

-----------------------------------------------------------------------------
(* A run ends and another one starts                                        *)

\* After the clean-up nothing is registered that is not taken back, and the run
\* that ends keeps neither a download nor a file.
LEMMA CleanedUp ==
    ASSUME IInv, Cleanup, streams' = streams
    PROVE  /\ downloads' = {} /\ blobUrl' = 0 /\ box' \in Seq(Message)
           /\ \A i \in Items : ~WillKnow(i)'
           /\ \A k \in DOMAIN box' : IsRegister(box'[k]) => k \in DOMAIN box /\ box'[k] = box[k]
<1>1. downloads' = {} /\ blobUrl' = 0
  BY DEF IInv, RunState, Cleanup
<1>2. CASE current # 0 /\ mode = "stream"
  <2>1. item \in Items
    BY <1>2 DEF IInv, CloudTypeOK, RunState
  <2>2. box \in Seq(Message) /\ box' = Append(box, Unregisters(item))
    BY <1>2 DEF Cleanup, IInv, BoxState
  <2>3. \A i \in Items : WillKnow(i)' => WillKnow(i) /\ i # item
    BY <2>1, <2>2, SentUnregister
  <2>. QED
    BY <1>1, <2>1, <2>2, <2>3, SentUnregister DEF IInv, KnownIsOpen
<1>3. CASE ~(current # 0 /\ mode = "stream")
  <2>1. box' = box
    BY <1>3 DEF Cleanup
  <2>2. \A i \in Items : WillKnow(i)' => WillKnow(i)
    BY <2>1 DEF WillKnow
  <2>. QED
    BY <1>1, <1>3, <2>1, <2>2 DEF IInv, KnownIsOpen, BoxState
<1>. QED
  BY <1>2, <1>3

\* What a new run finds.
LEMMA NewRun ==
    ASSUME IInv, NEW i \in Items \cup {"none"}, NEW m \in {"stream", "blob"}, RunStarts(i, m),
           i # "none" => runs < MaxRuns /\ (m = "stream" => runs + 1 < MaxRuns),
           waits' \in [Runs -> Items \cup {"none"}],
           \A r \in Runs : waits'[r] \in {waits[r], "none"},
           acks' \subseteq acks, \A r \in acks' : waits'[r] # "none",
           verdicts' \subseteq broken, UNCHANGED <<streams, workerStops, broken, crossed>>
    PROVE  IInv'
<1>. USE ConstantsTyped
<1>1. /\ item' = i /\ media' = "none" /\ Cleanup
      /\ i = "none" => /\ current' = 0 /\ step' = "idle" /\ UNCHANGED <<mode, status, runs>>
      /\ i # "none" => /\ runs' = runs + 1 /\ current' = runs + 1 /\ mode' = m
                       /\ m = "stream" => step' = "worker" /\ status' = "connecting"
                       /\ m = "blob" => step' = "confirm" /\ status' = "preparing"
  BY DEF RunStarts
<1>2. /\ downloads' = {} /\ blobUrl' = 0 /\ box' \in Seq(Message)
      /\ \A j \in Items : ~WillKnow(j)'
      /\ \A k \in DOMAIN box' : IsRegister(box'[k]) => k \in DOMAIN box /\ box'[k] = box[k]
  BY <1>1, CleanedUp
<1>3. /\ runs \in 0 .. MaxRuns /\ current \in {0, runs} /\ acks \subseteq Runs
      /\ \A r \in Runs : waits[r] # "none" => r <= runs
  BY DEF IInv, CloudTypeOK, RunState, WaitState
<1>4. CloudTypeOK'
  BY <1>1, <1>2, <1>3 DEF IInv, CloudTypeOK
<1>5. RunState'
  BY <1>1, <1>2, <1>3 DEF IInv, RunState
<1>6. WaitState'
  <2>1. \A r \in Runs : waits'[r] # "none" => r <= runs /\ r <= runs'
    BY <1>1, <1>3 DEF Runs
  <2>2. ASSUME NEW r \in Runs, r = current' PROVE waits'[r] = "none" /\ step' # "register"
    BY <1>1, <1>3, <2>1, <2>2 DEF Runs
  <2>. QED
    BY <2>1, <2>2 DEF WaitState
<1>7. BoxState'
  <2>1. ASSUME NEW k \in DOMAIN box', IsRegister(box'[k])
        PROVE  /\ k \in DOMAIN box /\ box'[k] = box[k] /\ box[k].run \in 1 .. runs
               /\ box'[k].run \in 1 .. runs' /\ box'[k].run # current'
    <3>1. k \in DOMAIN box /\ box'[k] = box[k]
      BY <1>2, <2>1
    <3>2. box[k].run \in 1 .. runs
      BY <2>1, <3>1 DEF IInv, BoxState
    <3>. QED
      BY <1>1, <1>3, <3>1, <3>2
  <2>2. ASSUME NEW k \in DOMAIN box', NEW l \in DOMAIN box',
               IsRegister(box'[k]), IsRegister(box'[l]), box'[l].run = box'[k].run
        PROVE  l = k
    BY <2>1, <2>2 DEF IInv, BoxState
  <2>. QED
    BY <1>2, <2>1, <2>2 DEF BoxState
<1>8. KnownIsOpen'
  BY <1>2 DEF KnownIsOpen
<1>9. OpenIsKnown'
  BY <1>1 DEF OpenIsKnown, Heard
<1>. QED
  BY <1>4, <1>5, <1>6, <1>7, <1>8, <1>9 DEF IInv

\* A run that streams falls back to a download.
LEMMA FallsBack ==
    ASSUME IInv, Falls, item # "none", mode = "stream",
           waits' \in [Runs -> Items \cup {"none"}],
           \A r \in Runs : waits'[r] \in {waits[r], "none"},
           acks' \subseteq acks, \A r \in acks' : waits'[r] # "none",
           verdicts' \subseteq broken, UNCHANGED <<streams, workerStops, broken, crossed>>
    PROVE  IInv'
<1>1. item \in Items \cup {"none"} /\ RunStarts(item, "blob") /\ runs < MaxRuns
  BY DEF Falls, IInv, CloudTypeOK, RunState
<1>. QED
  BY <1>1, NewRun

\* The same where neither the waits nor the worker's memory changes.
LEMMA FallsBackOnly ==
    ASSUME IInv, Falls, item # "none", mode = "stream",
           UNCHANGED <<waits, acks, worker, broken, crossed>>
    PROVE  IInv'
<1>1. /\ waits' \in [Runs -> Items \cup {"none"}] /\ acks' \subseteq acks /\ verdicts' \subseteq broken
      /\ \A r \in acks' : waits'[r] # "none"
  BY DEF IInv, CloudTypeOK, WaitState, worker
<1>2. \A r \in Runs : waits'[r] \in {waits[r], "none"}
  BY DEF IInv, WaitState
<1>. QED
  BY <1>1, <1>2, FallsBack DEF worker

-----------------------------------------------------------------------------
(* The steps of the page                                                    *)

\* The worker is ready: the run registers its item with it, or goes on as a download.
LEMMA WorkerReadyKeeps ==
    ASSUME IInv, WorkerReady
    PROVE  IInv'
<1>. USE ConstantsTyped
<1>1. step = "worker" /\ mode = "stream" /\ current # 0 /\ item # "none" /\ media = "none"
  BY DEF WorkerReady, IInv, RunState
<1>2. CASE Falls /\ UNCHANGED waits
  BY <1>1, <1>2, FallsBackOnly DEF WorkerReady
<1>3. CASE /\ step' = "register"
           /\ waits' = [waits EXCEPT ![current] = item]
           /\ box' = Append(box, Registers(item, current))
           /\ UNCHANGED <<item, mode, status, media, current, runs, downloads, blobUrl>>
  <2>1. UNCHANGED <<acks, streams, verdicts, workerStops, broken, crossed>>
    BY DEF WorkerReady, worker
  <2>2. item \in Items /\ current \in Runs /\ current = runs /\ runs \in 1 .. MaxRuns
    BY <1>1 DEF IInv, CloudTypeOK, RunState, Runs
  <2>3. /\ box' \in Seq(Message)
        /\ \A k \in DOMAIN box' :
              \/ k \in DOMAIN box /\ box'[k] = box[k]
              \/ k = Len(box) + 1 /\ k \notin DOMAIN box /\ box'[k].run = current
        /\ \A i \in Items : WillKnow(i)' => WillKnow(i) \/ i = item
        /\ Underway'
    BY <1>3, <2>1, <2>2, SentRegister DEF IInv, BoxState
  <2>4. CloudTypeOK'
    BY <1>3, <2>1, <2>2 DEF IInv, CloudTypeOK
  <2>5. RunState'
    BY <1>1, <1>3 DEF IInv, RunState
  <2>6. WaitState'
    BY <1>3, <2>1, <2>2 DEF IInv, CloudTypeOK, WaitState
  <2>7. BoxState'
    <3>1. \A k \in DOMAIN box : IsRegister(box[k]) => box[k].run \in 1 .. runs /\ box[k].run # current
      BY <1>1 DEF IInv, BoxState
    <3>2. ASSUME NEW k \in DOMAIN box', IsRegister(box'[k])
          PROVE  box'[k].run \in 1 .. runs' /\ step' # "worker"
      BY <1>3, <2>2, <2>3, <3>1, <3>2
    <3>3. ASSUME NEW k \in DOMAIN box', NEW l \in DOMAIN box',
                 IsRegister(box'[k]), IsRegister(box'[l]), box'[l].run = box'[k].run
          PROVE  l = k
      BY <2>3, <3>1, <3>3 DEF IInv, BoxState
    <3>. QED
      BY <2>3, <3>2, <3>3 DEF BoxState
  <2>8. KnownIsOpen'
    BY <1>1, <1>3, <2>3 DEF IInv, KnownIsOpen
  <2>9. OpenIsKnown'
    <3>1. current \notin acks
      BY <1>1, <2>2 DEF IInv, WaitState
    <3>. QED
      BY <1>1, <1>3, <2>1, <2>3, <3>1 DEF OpenIsKnown, Heard
  <2>. QED
    BY <2>4, <2>5, <2>6, <2>7, <2>8, <2>9 DEF IInv
<1>. QED
  BY <1>2, <1>3 DEF WorkerReady

\* The answer to a registration: the run plays, or a cancelled run takes it back.
LEMMA RegisterAnsweredKeeps ==
    ASSUME IInv, NEW r \in Runs, RegisterAnswered(r)
    PROVE  IInv'
<1>. USE ConstantsTyped
<1>1. /\ r \in acks /\ acks' = acks \ {r} /\ waits' = [waits EXCEPT ![r] = "none"]
      /\ UNCHANGED <<streams, verdicts, workerStops, broken, item, mode, status, media, current, runs,
                     downloads, blobUrl>>
  BY DEF RegisterAnswered, worker, dialog, Probes
<1>2. /\ waits[r] \in Items /\ waits' \in [Runs -> Items \cup {"none"}]
      /\ \A q \in Runs : waits'[q] = IF q = r THEN "none" ELSE waits[q]
  BY <1>1 DEF IInv, CloudTypeOK, WaitState
<1>3. CASE r = current
  <2>1. step' = "probe" /\ UNCHANGED <<box, crossed>>
    BY <1>3 DEF RegisterAnswered, Probes
  <2>2. step = "register"
    BY <1>2, <1>3 DEF IInv, WaitState
  <2>3. CloudTypeOK'
    BY <1>1, <1>2, <2>1 DEF IInv, CloudTypeOK
  <2>4. RunState'
    BY <1>1, <2>1, <2>2 DEF IInv, RunState
  <2>5. WaitState'
    BY <1>1, <1>2, <1>3, <2>1, <2>2 DEF IInv, WaitState
  <2>6. BoxState'
    BY <1>1, <2>1, <2>2 DEF IInv, BoxState
  <2>7. KnownIsOpen'
    BY <1>1, <2>1 DEF IInv, KnownIsOpen, WillKnow
  <2>8. OpenIsKnown'
    BY <1>1, <1>3, <2>1, <2>2 DEF IInv, OpenIsKnown, Heard, Known
  <2>. QED
    BY <2>3, <2>4, <2>5, <2>6, <2>7, <2>8 DEF IInv
<1>4. CASE r # current
  <2>1. /\ box' = Append(box, Unregisters(waits[r])) /\ UNCHANGED step
        /\ crossed' = (crossed \/ waits[r] = item)
    BY <1>4 DEF RegisterAnswered, dialog
  <2>2. /\ box' \in Seq(Message)
        /\ \A k \in DOMAIN box' : IsRegister(box'[k]) => k \in DOMAIN box /\ box'[k] = box[k]
        /\ \A i \in Items : WillKnow(i)' => WillKnow(i)
        /\ waits[r] # item => (Underway => Underway') /\ (Known => Known')
    BY <1>1, <1>2, <2>1, SentUnregister DEF IInv, BoxState
  <2>3. CloudTypeOK'
    BY <1>1, <1>2, <2>1 DEF IInv, CloudTypeOK
  <2>4. RunState'
    BY <1>1, <2>1 DEF IInv, RunState
  <2>5. WaitState'
    BY <1>1, <1>2, <1>4, <2>1 DEF IInv, WaitState
  <2>6. BoxState'
    BY <1>1, <2>1, <2>2 DEF IInv, BoxState
  <2>7. KnownIsOpen'
    BY <1>1, <2>2 DEF IInv, KnownIsOpen
  <2>8. OpenIsKnown'
    <3>1. crossed \in BOOLEAN
      BY DEF IInv, CloudTypeOK
    <3>2. Heard' = Heard /\ (current' \in acks' <=> current \in acks)
      BY <1>1, <1>4, <2>1 DEF Heard
    <3>. QED
      BY <1>1, <2>1, <2>2, <3>1, <3>2 DEF IInv, OpenIsKnown
  <2>. QED
    BY <2>3, <2>4, <2>5, <2>6, <2>7, <2>8 DEF IInv
<1>. QED
  BY <1>3, <1>4

\* A registration that nobody answers in time.
LEMMA RegisterUnansweredKeeps ==
    ASSUME IInv, NEW r \in Runs, RegisterUnanswered(r)
    PROVE  IInv'
<1>. USE ConstantsTyped
<1>1. /\ waits[r] # "none" /\ acks' = acks \ {r} /\ waits' = [waits EXCEPT ![r] = "none"]
      /\ UNCHANGED <<streams, verdicts, workerStops, broken, crossed>>
  BY DEF RegisterUnanswered, worker
<1>2. /\ waits' \in [Runs -> Items \cup {"none"}]
      /\ \A q \in Runs : waits'[q] = IF q = r THEN "none" ELSE waits[q]
  BY <1>1 DEF IInv, CloudTypeOK
<1>3. CASE r = current
  <2>1. Falls /\ step = "register"
    BY <1>1, <1>3 DEF RegisterUnanswered, IInv, WaitState
  <2>2. item # "none" /\ mode = "stream"
    BY <2>1 DEF IInv, RunState
  <2>3. /\ \A q \in Runs : waits'[q] \in {waits[q], "none"}
        /\ acks' \subseteq acks /\ \A q \in acks' : waits'[q] # "none"
    BY <1>1, <1>2, <1>3 DEF IInv, CloudTypeOK, WaitState
  <2>. QED
    BY <1>1, <1>2, <2>1, <2>2, <2>3, FallsBack DEF IInv, CloudTypeOK
<1>4. CASE r # current
  <2>1. UNCHANGED <<item, mode, status, media, current, runs, step, downloads, blobUrl, box>>
    BY <1>4 DEF RegisterUnanswered, dialog
  <2>2. CloudTypeOK'
    BY <1>1, <1>2, <2>1 DEF IInv, CloudTypeOK
  <2>3. RunState'
    BY <2>1 DEF IInv, RunState
  <2>4. WaitState'
    BY <1>1, <1>2, <1>4, <2>1 DEF IInv, CloudTypeOK, WaitState
  <2>5. BoxState'
    BY <2>1 DEF IInv, BoxState
  <2>6. KnownIsOpen'
    BY <1>1, <2>1 DEF IInv, KnownIsOpen, WillKnow
  <2>7. OpenIsKnown'
    BY <1>1, <1>4, <2>1 DEF IInv, OpenIsKnown, Heard, Known, Underway
  <2>. QED
    BY <2>2, <2>3, <2>4, <2>5, <2>6, <2>7 DEF IInv
<1>. QED
  BY <1>3, <1>4

\* A step that only moves the run on: it registers nothing, and it plays what it found.
LEMMA RunGoesOn ==
    ASSUME IInv, CloudTypeOK',
           UNCHANGED <<item, mode, current, runs, waits, acks, box, streams, workerStops, broken, crossed>>,
           step' \notin {"worker", "register", "probe"}, step # "register",
           step' \in {"confirm", "download"} => mode = "blob", current = 0 => step' = "idle",
           media' \in {media, "stream", "blob"}, media' # media => current # 0,
           media' = "stream" => media = "stream" \/ step = "probe",
           downloads' \subseteq {current} \ {0}, blobUrl' \in {0, current}
    PROVE  IInv'
<1>1. RunState'
  BY DEF IInv, RunState
<1>2. WaitState'
  BY DEF IInv, WaitState
<1>3. BoxState'
  BY DEF IInv, BoxState
<1>4. KnownIsOpen'
  BY DEF IInv, KnownIsOpen, WillKnow
<1>5. OpenIsKnown'
  BY DEF IInv, OpenIsKnown, Heard, Known
<1>. QED
  BY <1>1, <1>2, <1>3, <1>4, <1>5 DEF IInv

\* The codec is known: the run streams, or is downloaded whole.
LEMMA ProbedKeeps ==
    ASSUME IInv, Probed
    PROVE  IInv'
<1>. USE ConstantsTyped
<1>1. step = "probe" /\ mode = "stream" /\ item \in Items /\ current # 0
  BY DEF Probed, IInv, RunState, CloudTypeOK
<1>2. /\ UNCHANGED <<waits, acks, streams, workerStops, broken, crossed>>
      /\ verdicts' \subseteq broken
  BY <1>1 DEF Probed, Verdict, HeadChecked, IInv, CloudTypeOK
<1>3. CASE Falls
  <2>1. /\ waits' \in [Runs -> Items \cup {"none"}] /\ acks' \subseteq acks
        /\ \A r \in acks' : waits'[r] # "none"
        /\ \A r \in Runs : waits'[r] \in {waits[r], "none"}
    BY <1>1, <1>2 DEF IInv, CloudTypeOK, WaitState
  <2>. QED
    BY <1>1, <1>2, <1>3, <2>1, FallsBack
<1>4. CASE /\ step' = "idle"
           /\ \/ status' = "loading" /\ media' = "stream"
              \/ status' = "error" /\ UNCHANGED media
           /\ UNCHANGED <<item, mode, current, runs, box, downloads, blobUrl>>
  <2>1. CloudTypeOK'
    BY <1>2, <1>4 DEF IInv, CloudTypeOK
  <2>2. downloads \subseteq {current} \ {0} /\ blobUrl \in {0, current}
    BY DEF IInv, RunState
  <2>. QED
    BY <1>1, <1>2, <1>4, <2>1, <2>2, RunGoesOn
<1>. QED
  BY <1>3, <1>4 DEF Probed

\* A run starts to download the whole file, and ends with it or without.
LEMMA DownloadKeeps ==
    ASSUME IInv, Downloads \/ Downloaded
    PROVE  IInv'
<1>. USE ConstantsTyped
<1>1. step \in {"confirm", "download"} /\ mode = "blob" /\ current # 0 /\ current \in Runs
  BY DEF Downloads, Downloaded, IInv, RunState, CloudTypeOK, Runs
<1>2. downloads \subseteq {current} \ {0} /\ blobUrl \in {0, current}
  BY DEF IInv, RunState
<1>3. CASE Downloads
  <2>1. CloudTypeOK'
    BY <1>1, <1>3 DEF Downloads, worker, IInv, CloudTypeOK
  <2>. QED
    BY <1>1, <1>2, <1>3, <2>1, RunGoesOn DEF Downloads, worker
<1>4. CASE Downloaded
  <2>1. CloudTypeOK'
    BY <1>1, <1>4 DEF Downloaded, worker, IInv, CloudTypeOK, Runs
  <2>. QED
    BY <1>1, <1>2, <1>4, <2>1, RunGoesOn DEF Downloaded, worker
<1>. QED
  BY <1>3, <1>4

\* A step that changes the status only.
LEMMA StatusOnly ==
    ASSUME IInv, status' \in {"ready", "error"},
           UNCHANGED <<item, mode, media, current, runs, step, waits, box, acks, streams, verdicts,
                       broken, downloads, blobUrl, workerStops, crossed>>
    PROVE  IInv'
BY DEF IInv, CloudTypeOK, RunState, WaitState, BoxState, KnownIsOpen, WillKnow, OpenIsKnown,
       Heard, Known, Underway

\* What the player reports: a stream that it cannot play falls back.
LEMMA PlayerKeeps ==
    ASSUME IInv, PlayerReady \/ PlayerFails \/ Slow
    PROVE  IInv'
<1>1. CASE PlayerReady
  BY <1>1, StatusOnly DEF PlayerReady, worker
<1>2. CASE PlayerFails /\ mode # "stream"
  BY <1>2, StatusOnly DEF PlayerFails, worker
<1>3. CASE PlayerFails /\ mode = "stream"
  <2>1. item # "none"
    BY <1>3 DEF PlayerFails, IInv, RunState
  <2>. QED
    BY <1>3, <2>1, FallsBackOnly DEF PlayerFails
<1>4. CASE Slow
  BY <1>4, FallsBackOnly DEF Slow
<1>. QED
  BY <1>1, <1>2, <1>3, <1>4

\* The viewer leaves a run or starts one.
LEMMA ViewerKeeps ==
    ASSUME IInv, Changes \/ TryAgain
    PROVE  IInv'
<1>1. PICK i \in Items \cup {"none"} :
         RunStarts(i, "stream") /\ (i # "none" => Room) /\ UNCHANGED <<waits, acks, worker, broken, crossed>>
  BY DEF Changes, TryAgain, IInv, CloudTypeOK
<1>2. i # "none" => runs < MaxRuns /\ runs + 1 < MaxRuns
  BY <1>1, ConstantsTyped DEF Room, IInv, CloudTypeOK
<1>3. /\ waits' \in [Runs -> Items \cup {"none"}] /\ acks' \subseteq acks /\ verdicts' \subseteq broken
      /\ \A r \in acks' : waits'[r] # "none"
      /\ \A r \in Runs : waits'[r] \in {waits[r], "none"}
      /\ UNCHANGED <<streams, workerStops, broken, crossed>>
  BY <1>1 DEF IInv, CloudTypeOK, WaitState, worker
<1>. QED
  BY <1>1, <1>2, <1>3, NewRun

-----------------------------------------------------------------------------
(* The steps of the service worker                                          *)

\* The worker takes the next message: it learns an item, or forgets it.
LEMMA HearsKeeps ==
    ASSUME IInv, Hears
    PROVE  IInv'
<1>. USE ConstantsTyped
<1>. DEFINE m == Head(box)
<1>1. /\ box' \in Seq(Message) /\ Len(box) \in Nat \ {0} /\ m \in Message
      /\ DOMAIN box = 1 .. Len(box) /\ DOMAIN box' = 1 .. (Len(box) - 1)
      /\ m = box[1]
      /\ \A k \in DOMAIN box' : box'[k] = box[k + 1]
  BY Taken DEF Hears, IInv, BoxState
<1>2. /\ UNCHANGED <<item, mode, status, media, current, runs, step, downloads, blobUrl,
                     waits, verdicts, workerStops, broken, crossed>>
      /\ IsRegister(m) => /\ streams' = streams \cup {m.item}
                          /\ acks' = IF waits[m.run] = "none" THEN acks ELSE acks \cup {m.run}
      /\ ~IsRegister(m) => streams' = streams \ {m.item} /\ acks' = acks
  BY DEF Hears, dialog, IsRegister
<1>3. m.item \in Items /\ (IsRegister(m) => m.run \in Runs)
  <2>1. IsRegister(m) => m.run \in 1 .. runs
    BY <1>1 DEF IInv, BoxState
  <2>. QED
    BY <1>1, <2>1 DEF Message, IInv, CloudTypeOK, Runs
<1>4. ~IsRegister(m) => m = Unregisters(m.item)
  BY <1>1, UnregisterShape
<1>5. \A i : IsRegister(m) => m # Unregisters(i)
  BY DEF IsRegister, Unregisters
<1>. HIDE DEF m
<1>6. CloudTypeOK'
  BY <1>2, <1>3 DEF IInv, CloudTypeOK
<1>7. RunState'
  BY <1>2 DEF IInv, RunState
<1>8. WaitState'
  BY <1>2 DEF IInv, WaitState
<1>9. BoxState'
  <2>1. \A k \in DOMAIN box' : k + 1 \in DOMAIN box /\ box'[k] = box[k + 1]
    BY <1>1
  <2>2. ASSUME NEW k \in DOMAIN box', NEW l \in DOMAIN box',
               IsRegister(box'[k]), IsRegister(box'[l]), box'[l].run = box'[k].run
        PROVE  l = k
    <3>1. k + 1 = l + 1
      BY <2>1, <2>2 DEF IInv, BoxState
    <3>. QED
      BY <1>1, <3>1
  <2>3. \A k \in DOMAIN box' : IsRegister(box'[k]) =>
           box'[k].run \in 1 .. runs' /\ (box'[k].run = current' => step' # "worker")
    BY <1>2, <2>1 DEF IInv, BoxState
  <2>. QED
    BY <1>1, <2>2, <2>3 DEF BoxState
<1>10. KnownIsOpen'
  <2>1. ASSUME NEW i \in Items, WillKnow(i)' PROVE WillKnow(i)
    <3>1. CASE \E k \in DOMAIN box' :
                 /\ IsRegister(box'[k]) /\ box'[k].item = i
                 /\ \A l \in DOMAIN box' : l > k => box'[l] # Unregisters(i)
      <4>1. PICK k \in DOMAIN box' :
                 /\ IsRegister(box'[k]) /\ box'[k].item = i
                 /\ \A l \in DOMAIN box' : l > k => box'[l] # Unregisters(i)
        BY <3>1
      <4>2. k + 1 \in DOMAIN box /\ IsRegister(box[k + 1]) /\ box[k + 1].item = i
        BY <1>1, <4>1
      <4>3. ASSUME NEW l \in DOMAIN box, l > k + 1 PROVE box[l] # Unregisters(i)
        <5>1. l - 1 \in DOMAIN box' /\ l - 1 > k /\ (l - 1) + 1 = l
          BY <1>1, <4>1, <4>3
        <5>. QED
          BY <1>1, <4>1, <5>1
      <4>. QED
        BY <4>2, <4>3 DEF WillKnow
    <3>2. CASE i \in streams' /\ \A l \in DOMAIN box' : box'[l] # Unregisters(i)
      <4>1. ASSUME NEW l \in DOMAIN box, l > 1 PROVE box[l] # Unregisters(i)
        <5>1. l - 1 \in DOMAIN box' /\ (l - 1) + 1 = l
          BY <1>1, <4>1
        <5>. QED
          BY <1>1, <3>2, <5>1
      <4>2. CASE IsRegister(m) /\ m.item = i
        BY <1>1, <4>1, <4>2 DEF WillKnow
      <4>3. CASE ~(IsRegister(m) /\ m.item = i)
        <5>1. i \in streams /\ m # Unregisters(i)
          <6>1. Unregisters(i).item = i
            BY DEF Unregisters
          <6>. QED
            BY <1>2, <1>5, <3>2, <4>3, <6>1
        <5>2. \A l \in DOMAIN box : l = 1 \/ l > 1
          BY <1>1
        <5>. QED
          BY <1>1, <4>1, <5>1, <5>2 DEF WillKnow
      <4>. QED
        BY <4>2, <4>3
    <3>. QED
      BY <2>1, <3>1, <3>2 DEF WillKnow
  <2>. QED
    BY <1>2, <2>1 DEF IInv, KnownIsOpen
<1>11. OpenIsKnown'
  <2>. SUFFICES ASSUME ~crossed, workerStops = 0
                PROVE  /\ step = "register" /\ current \notin acks' => Underway'
                       /\ Heard' => Known'
    BY <1>2 DEF OpenIsKnown
  <2>1. /\ step = "register" /\ current \notin acks => Underway
        /\ Heard => Known
    BY DEF IInv, OpenIsKnown
  <2>2. ASSUME Known PROVE Known'
    <3>1. m # Unregisters(item)
      BY <1>1, <2>2 DEF Known
    <3>2. item \in streams'
      <4>1. CASE IsRegister(m)
        BY <1>2, <2>2, <4>1 DEF Known
      <4>2. CASE ~IsRegister(m)
        <5>1. m.item # item
          BY <1>4, <3>1, <4>2
        <5>. QED
          BY <1>2, <2>2, <4>2, <5>1 DEF Known
      <4>. QED
        BY <4>1, <4>2
    <3>3. \A l \in DOMAIN box' : l + 1 \in DOMAIN box /\ box'[l] = box[l + 1]
      BY <1>1
    <3>. QED
      BY <1>2, <2>2, <3>2, <3>3 DEF Known
  <2>3. ASSUME step = "register", current \notin acks
        PROVE  (current \notin acks' /\ Underway') \/ (current \in acks' /\ Known')
    <3>1. PICK k \in DOMAIN box :
             /\ IsRegister(box[k]) /\ box[k].run = current /\ box[k].item = item
             /\ \A l \in DOMAIN box : l > k => box[l] # Unregisters(item)
      BY <2>1, <2>3 DEF Underway
    <3>2. CASE k = 1
      <4>1. IsRegister(m) /\ m.run = current /\ m.item = item
        BY <1>1, <3>1, <3>2
      <4>2. waits[current] # "none" /\ item # "none"
        BY <1>3, <2>3, <4>1 DEF IInv, WaitState, RunState
      <4>3. current \in acks' /\ item \in streams'
        BY <1>2, <4>1, <4>2
      <4>4. \A l \in DOMAIN box' : l + 1 \in DOMAIN box /\ l + 1 > 1 /\ box'[l] = box[l + 1]
        BY <1>1
      <4>5. Known'
        BY <1>2, <3>1, <3>2, <4>3, <4>4 DEF Known
      <4>. QED
        BY <4>3, <4>5
    <3>3. CASE k # 1
      <4>1. current \notin acks'
        <5>1. ~(IsRegister(m) /\ m.run = current)
          BY <1>1, <3>1, <3>3 DEF IInv, BoxState
        <5>. QED
          BY <1>2, <2>3, <5>1
      <4>2. k - 1 \in DOMAIN box' /\ box'[k - 1] = box[k]
        <5>1. k - 1 \in DOMAIN box' /\ (k - 1) + 1 = k
          BY <1>1, <3>3
        <5>. QED
          BY <1>1, <5>1
      <4>3. ASSUME NEW l \in DOMAIN box', l > k - 1 PROVE box'[l] # Unregisters(item)
        <5>1. l + 1 \in DOMAIN box /\ l + 1 > k /\ box'[l] = box[l + 1]
          BY <1>1, <4>3
        <5>. QED
          BY <3>1, <5>1
      <4>4. Underway'
        BY <1>2, <3>1, <4>2, <4>3 DEF Underway
      <4>. QED
        BY <4>1, <4>4
    <3>. QED
      BY <3>2, <3>3
  <2>4. current \in acks => current \in acks'
    BY <1>2
  <2>5. Heard' <=> (step = "register" /\ current \in acks') \/ step = "probe" \/ media = "stream"
    BY <1>2 DEF Heard
  <2>. QED
    BY <2>1, <2>2, <2>3, <2>4, <2>5 DEF Heard
<1>. QED
  BY <1>6, <1>7, <1>8, <1>9, <1>10, <1>11 DEF IInv

\* The browser stops the worker, and its memory is lost.
LEMMA WorkerStopsKeeps ==
    ASSUME IInv, WorkerStops
    PROVE  IInv'
<1>. USE ConstantsTyped
<1>1. /\ workerStops' = workerStops + 1 /\ workerStops' # 0 /\ workerStops' \in 0 .. MaxWorkerStops
      /\ box = <<>> /\ box' = <<>> /\ streams' = {} /\ verdicts' = {}
      /\ UNCHANGED <<item, mode, status, media, current, runs, step, downloads, blobUrl,
                     waits, acks, broken, crossed>>
  BY DEF WorkerStops, dialog, IInv, CloudTypeOK
<1>2. CloudTypeOK'
  BY <1>1 DEF IInv, CloudTypeOK
<1>3. RunState' /\ WaitState'
  BY <1>1 DEF IInv, RunState, WaitState
<1>4. BoxState'
  BY <1>1 DEF IInv, BoxState
<1>5. KnownIsOpen'
  BY <1>1 DEF KnownIsOpen, WillKnow
<1>6. OpenIsKnown'
  BY <1>1 DEF OpenIsKnown
<1>. QED
  BY <1>2, <1>3, <1>4, <1>5, <1>6 DEF IInv

-----------------------------------------------------------------------------
(* The invariant                                                            *)

\* The dialog starts closed.
LEMMA InitIInv == CloudInit => IInv
<1>. SUFFICES ASSUME CloudInit PROVE IInv
  OBVIOUS
<1>. USE ConstantsTyped DEF CloudInit
<1>1. CloudTypeOK
  <2>1. waits \in [Runs -> Items \cup {"none"}]
    OBVIOUS
  <2>2. current \in 0 .. MaxRuns /\ runs \in 0 .. MaxRuns /\ blobUrl \in 0 .. MaxRuns
    OBVIOUS
  <2>3. workerStops \in 0 .. MaxWorkerStops
    OBVIOUS
  <2>5. crossed \in BOOLEAN
    OBVIOUS
  <2>4. streams \subseteq Items /\ verdicts \subseteq broken /\ broken \subseteq Items
    OBVIOUS
  <2>. QED
    BY <2>1, <2>2, <2>3, <2>4, <2>5 DEF CloudTypeOK
<1>2. RunState /\ WaitState
  BY DEF RunState, WaitState, Runs
<1>3. BoxState
  BY DEF BoxState
<1>4. KnownIsOpen /\ OpenIsKnown
  BY DEF KnownIsOpen, WillKnow, OpenIsKnown, Heard
<1>. QED
  BY <1>1, <1>2, <1>3, <1>4 DEF IInv

\* Every step of the page and of the worker keeps the invariant.
LEMMA NextIInv == IInv /\ [CloudNext]_cloudVars => IInv'
<1>. SUFFICES ASSUME IInv, [CloudNext]_cloudVars PROVE IInv'
  OBVIOUS
<1>1. CASE WorkerReady
  BY <1>1, WorkerReadyKeeps
<1>2. ASSUME NEW r \in Runs, RegisterAnswered(r) \/ RegisterUnanswered(r) PROVE IInv'
  BY <1>2, RegisterAnsweredKeeps, RegisterUnansweredKeeps
<1>3. CASE Probed
  BY <1>3, ProbedKeeps
<1>4. CASE Downloads \/ Downloaded
  BY <1>4, DownloadKeeps
<1>5. CASE PlayerReady \/ PlayerFails \/ Slow
  BY <1>5, PlayerKeeps
<1>6. CASE Changes \/ TryAgain
  BY <1>6, ViewerKeeps
<1>7. CASE Hears
  BY <1>7, HearsKeeps
<1>8. CASE WorkerStops
  BY <1>8, WorkerStopsKeeps
<1>9. CASE UNCHANGED cloudVars
  BY <1>9 DEF cloudVars, IInv, CloudTypeOK, RunState, WaitState, BoxState, KnownIsOpen, WillKnow,
              OpenIsKnown, Heard, Known, Underway
<1>. QED
  BY <1>1, <1>2, <1>3, <1>4, <1>5, <1>6, <1>7, <1>8, <1>9 DEF CloudNext, CloudPage

\* The invariant of the dialog, its runs, the messages and the worker's memory.
THEOREM Invariant == CloudSpec => []IInv
BY InitIInv, NextIInv, PTL DEF CloudSpec

-----------------------------------------------------------------------------
(* The results                                                              *)

\* The variables keep their types: the bound on the runs leaves room for the run
\* that falls back.
THEOREM CloudTyped == CloudSpec => []CloudTypeOK
<1>1. IInv => CloudTypeOK
  BY DEF IInv
<1>. QED
  BY <1>1, Invariant, PTL

\* What is played is registered unless a late answer took it back or the browser
\* stopped the worker (CloudMediaPlayerDialog.tsx, the effect and its clean-up).
THEOREM PlayedRegistered == CloudSpec => []PlayedIsRegistered
<1>1. IInv => PlayedIsRegistered
  BY DEF IInv, OpenIsKnown, Heard, Known, PlayedIsRegistered
<1>. QED
  BY <1>1, Invariant, PTL

\* A closed dialog leaves the worker nothing to decrypt, no download and no file in
\* memory, however many runs were cancelled while their registrations were under way.
THEOREM ClosedLeavesNothing == CloudSpec => []NothingLeft
<1>1. IInv => NothingLeft
  <2>. SUFFICES ASSUME IInv, item = "none", box = <<>>
                PROVE  streams = {} /\ downloads = {} /\ blobUrl = 0
    BY DEF NothingLeft
  <2>1. \A i \in Items : i \notin streams
    BY ConstantsTyped DEF IInv, KnownIsOpen, WillKnow
  <2>2. streams \subseteq Items
    BY DEF IInv, CloudTypeOK
  <2>. QED
    BY <2>1, <2>2 DEF IInv, RunState
<1>. QED
  BY <1>1, Invariant, PTL

-----------------------------------------------------------------------------
(* The player                                                               *)

\* Somewhere behind every rejected promise that waits there is a play event.
PlayBehind(q) ==
    \E i \in 1 .. Len(q) : q[i] = "play" /\ \A j \in 1 .. Len(q) : q[j] = "reject" => j < i
NoReject(q) == \A j \in 1 .. Len(q) : q[j] # "reject"

LEMMA QueueAppended ==
    ASSUME NEW q \in Seq(Events), NEW e \in Events
    PROVE  /\ q \o <<e>> \in Seq(Events)
           /\ Len(q \o <<e>>) = Len(q) + 1
           /\ \A i \in 1 .. Len(q) : (q \o <<e>>)[i] = q[i]
           /\ (q \o <<e>>)[Len(q) + 1] = e
BY LenProperties

\* A play event that is queued last is behind all.
LEMMA PlayLast ==
    ASSUME NEW q \in Seq(Events)
    PROVE  q \o <<"play">> \in Seq(Events) /\ PlayBehind(q \o <<"play">>)
<1>1. "play" \in Events
  BY DEF Events
<1>2. /\ q \o <<"play">> \in Seq(Events) /\ Len(q \o <<"play">>) = Len(q) + 1
      /\ (q \o <<"play">>)[Len(q) + 1] = "play"
  BY <1>1, QueueAppended
<1>3. Len(q) + 1 \in 1 .. Len(q \o <<"play">>) /\ Len(q) \in Nat
  BY <1>2, LenProperties
<1> HIDE DEF PlayBehind
<1>4. \A j \in 1 .. Len(q \o <<"play">>) : (q \o <<"play">>)[j] = "reject" => j < Len(q) + 1
  BY <1>2, <1>3
<1> QED
  BY <1>2, <1>3, <1>4 DEF PlayBehind

\* Another event that is queued leaves a play where it is.
LEMMA QueueKeeps ==
    ASSUME NEW q \in Seq(Events), NEW e \in Events \ {"reject"}
    PROVE  /\ PlayBehind(q) => PlayBehind(q \o <<e>>)
           /\ NoReject(q) => NoReject(q \o <<e>>)
<1>1. /\ Len(q \o <<e>>) = Len(q) + 1 /\ (q \o <<e>>)[Len(q) + 1] = e /\ Len(q) \in Nat
      /\ \A i \in 1 .. Len(q) : (q \o <<e>>)[i] = q[i]
  BY QueueAppended, LenProperties
<1>2. \A i \in 1 .. Len(q \o <<e>>) : i \in 1 .. Len(q) \/ i = Len(q) + 1
  BY <1>1
<1> QED
  BY <1>1, <1>2 DEF PlayBehind, NoReject

\* Taking the first event away: no play behind a rejection is the first, if one waits.
LEMMA QueueTail ==
    ASSUME NEW q \in Seq(Events), q # <<>>
    PROVE  /\ Tail(q) \in Seq(Events) /\ Head(q) \in Events
           /\ PlayBehind(q) => PlayBehind(Tail(q)) \/ (Head(q) = "play" /\ NoReject(Tail(q)))
           /\ NoReject(q) => Head(q) # "reject" /\ NoReject(Tail(q))
           /\ Head(q) = "reject" /\ PlayBehind(q) => PlayBehind(Tail(q))
<1>1. /\ Tail(q) \in Seq(Events) /\ Head(q) = q[1] /\ Len(Tail(q)) = Len(q) - 1
      /\ \A i \in 1 .. Len(q) - 1 : Tail(q)[i] = q[i + 1]
      /\ Len(q) \in Nat /\ Len(q) # 0
  BY HeadTailProperties, EmptySeq, LenProperties
<1>2. q[1] \in Events
  BY <1>1, ElementOfSeq
<1>3. NoReject(q) => Head(q) # "reject" /\ NoReject(Tail(q))
  BY <1>1 DEF NoReject
<1>4. ASSUME PlayBehind(q)
      PROVE  \/ PlayBehind(Tail(q)) /\ (Head(q) = "reject" => PlayBehind(Tail(q)))
             \/ Head(q) = "play" /\ NoReject(Tail(q))
  <2>1. PICK i \in 1 .. Len(q) : q[i] = "play" /\ \A j \in 1 .. Len(q) : q[j] = "reject" => j < i
    BY <1>4 DEF PlayBehind
  <2>2. CASE i = 1
    <3>1. NoReject(Tail(q))
      BY <1>1, <2>1, <2>2 DEF NoReject
    <3> QED
      BY <1>1, <2>1, <2>2, <3>1
  <2>3. CASE i # 1
    <3>1. i - 1 \in 1 .. Len(Tail(q)) /\ Tail(q)[i - 1] = "play"
      BY <1>1, <2>1, <2>3
    <3>2. \A j \in 1 .. Len(Tail(q)) : Tail(q)[j] = "reject" => j < i - 1
      BY <1>1, <2>1
    <3> QED
      BY <3>1, <3>2 DEF PlayBehind
  <2> QED
    BY <2>2, <2>3
<1> QED
  BY <1>1, <1>2, <1>3, <1>4

-----------------------------------------------------------------------------
(* The element and the refs of the watchdog                                  *)

LEMMA PlayedIn ==
    ASSUME NEW e \in Element
    PROVE  Played(e) \in Element /\ Played(e).paused = FALSE
<1>1. PICK b \in BOOLEAN : b = (e.seeking \/ e.ended)
  <2>1. e.seeking \in BOOLEAN /\ e.ended \in BOOLEAN
    BY DEF Element
  <2> QED
    BY <2>1
<1>2. PICK p \in Stretches : p = IF e.ended THEN 1 ELSE e.pos
  BY PlayerAssumption DEF Element, Stretches
<1>3. Played(e) = [e EXCEPT !.paused = FALSE, !.ended = FALSE, !.seeking = b, !.pos = p]
  BY <1>1, <1>2 DEF Played, Element
<1> QED
  BY <1>3 DEF Element

LEMMA StoppedIn ==
    ASSUME NEW e \in Element
    PROVE  Stopped(e) \in Element /\ Stopped(e).paused = TRUE
BY DEF Stopped, Element

LEMMA SoughtIn ==
    ASSUME NEW e \in Element, NEW p \in Stretches
    PROVE  Sought(e, p) \in Element /\ Sought(e, p).paused = e.paused
BY DEF Sought, Element

LEMMA EmptyIn == Empty \in Element /\ Empty.paused = TRUE
BY PlayerAssumption DEF Empty, Element, Stretches

\* What plays: an event is queued behind what waits, unless it played already.
LEMMA PlayIsQueued ==
    ASSUME TypeOK, NEW q \in Seq(Events)
    PROVE  /\ q \o PlayQueued \in Seq(Events)
           /\ el.paused => PlayBehind(q \o PlayQueued)
           /\ ~el.paused => q \o PlayQueued = q
<1>1. CASE el.paused
  BY <1>1, PlayLast DEF PlayQueued
<1>2. CASE ~el.paused
  BY <1>2, ConcatEmptySeq DEF PlayQueued
<1> QED
  BY <1>1, <1>2

LEMMA PauseIsQueued ==
    ASSUME NEW q \in Seq(Events)
    PROVE  q \o PauseQueued \in Seq(Events)
<1>1. <<>> \in Seq(Events) /\ <<"pause">> \in Seq(Events)
  BY DEF Events
<1>2. <<"pause", "reject">> \in Seq(Events)
  BY DEF Events
<1>3. PauseQueued \in Seq(Events)
  BY <1>1, <1>2 DEF PauseQueued
<1> QED
  BY <1>3, ConcatProperties

-----------------------------------------------------------------------------
(* An element that plays while the watchdog holds it, or while one of its    *)
(* plays is rejected, has a play event waiting that will pause it again.     *)

Behind(paused, held, q) == ~paused /\ (held \/ ~NoReject(q)) => PlayBehind(q)
HeldInv == TypeOK /\ Behind(el.paused, guard.held, queue)

\* The refs of the watchdog keep their types.
LEMMA GuardIn ==
    ASSUME NEW g \in Guard
    PROVE  /\ g.held \in BOOLEAN /\ g.stale \in BOOLEAN /\ g.seen \in BOOLEAN /\ g.awake \in BOOLEAN
           /\ g.repeat \in 0 .. 2
           /\ \A h \in BOOLEAN, a \in BOOLEAN, t \in BOOLEAN, f \in BOOLEAN, n \in 0 .. 2 :
                 [g EXCEPT !.held = h, !.awake = a, !.stale = t, !.seen = f, !.repeat = n] \in Guard
BY DEF Guard

LEMMA ReleasedIn ==
    ASSUME TypeOK
    PROVE  /\ Released \in Guard /\ Released.held = FALSE
           /\ [Released EXCEPT !.repeat = 0] \in Guard /\ [Released EXCEPT !.repeat = 0].held = FALSE
<1>1. guard \in Guard
  BY DEF TypeOK
<1>2. Released \in Guard /\ Released.held = FALSE
  BY <1>1 DEF Released, Guard
<1>3. \A g \in Guard : g.held = FALSE => [g EXCEPT !.repeat = 0] \in Guard /\ [g EXCEPT !.repeat = 0].held = FALSE
  BY DEF Guard
<1> QED
  BY <1>2, <1>3

LEMMA PausedElement ==
    ASSUME TypeOK
    PROVE  el.paused \in BOOLEAN /\ el.pos \in 1 .. Last /\ Last \in Nat
BY PlayerAssumption DEF TypeOK, Element, Stretches

\* Playing again from any state of the watchdog that does not hold.
LEMMA PlayKeeps ==
    ASSUME HeldInv, Plays
    PROVE  el' \in Element /\ queue' \in Seq(Events) /\ Behind(el'.paused, guard.held, queue')
<1>1. TypeOK /\ queue \in Seq(Events) /\ el \in Element
  BY DEF HeldInv, TypeOK
<1>2. /\ queue' \in Seq(Events) /\ el' \in Element
      /\ el.paused => PlayBehind(queue')
      /\ ~el.paused => queue' = queue
  BY <1>1, PlayIsQueued, PlayedIn DEF Plays
<1> QED
  BY <1>2 DEF HeldInv, Behind

LEMMA PauseKeeps ==
    ASSUME HeldInv, Pauses
    PROVE  /\ el' \in Element /\ queue' \in Seq(Events) /\ promise' \in BOOLEAN
           /\ \A h \in BOOLEAN : Behind(el'.paused, h, queue')
BY StoppedIn, PauseIsQueued DEF HeldInv, TypeOK, Pauses, Behind

-----------------------------------------------------------------------------
(* The steps of the browser                                                  *)

LEMMA BrowserKeeps ==
    ASSUME HeldInv, Browser
    PROVE  HeldInv'
<1> USE DEF HeldInv
<1>0. /\ queue \in Seq(Events) /\ el \in Element /\ guard \in Guard /\ TypeOK
      /\ el.paused \in BOOLEAN /\ el.pos \in 1 .. Last /\ Last \in Nat
      /\ guard.held \in BOOLEAN
  BY PausedElement, GuardIn DEF TypeOK
<1>1. ASSUME Loads PROVE HeldInv'
  BY <1>1, <1>0 DEF Loads, TypeOK, Stretches, pageVars, keepVars, viewVars
<1>2. ASSUME MetaKnown PROVE HeldInv'
  <2>0. "meta" \in Events \ {"reject"}
    BY DEF Events
  <2>1. el' \in Element /\ el'.paused = el.paused /\ queue' = queue \o <<"meta">>
    <3>1. el' \in Element /\ el'.paused = el.paused
      BY <1>2, <1>0 DEF MetaKnown, Element
    <3> QED
      BY <1>2, <1>0, <2>0, <3>1, AppendIsConcat DEF MetaKnown, Queued
  <2>2. queue' \in Seq(Events) /\ Behind(el.paused, guard.held, queue')
    BY <2>0, <2>1, <1>0, QueueAppended, QueueKeeps DEF Behind
  <2> QED
    BY <1>2, <2>1, <2>2 DEF MetaKnown, TypeOK, pageVars, keepVars, viewVars
<1>3. ASSUME Starts PROVE HeldInv'
  <2>0. "playing" \in Events \ {"reject"}
    BY DEF Events
  <2>1. el' \in Element /\ el'.paused = el.paused /\ queue' = queue \o <<"playing">>
    <3>1. el' \in Element /\ el'.paused = el.paused
      BY <1>3, <1>0 DEF Starts, Element
    <3> QED
      BY <1>3, <1>0, <2>0, <3>1, AppendIsConcat DEF Starts, Queued
  <2>2. queue' \in Seq(Events) /\ Behind(el.paused, guard.held, queue')
    BY <2>0, <2>1, <1>0, QueueAppended, QueueKeeps DEF Behind
  <2> QED
    BY <1>3, <2>1, <2>2 DEF Starts, TypeOK, pageVars, keepVars, viewVars
<1>4. ASSUME SeekEnds PROVE HeldInv'
  <2>0. "seeked" \in Events \ {"reject"}
    BY DEF Events
  <2>1. el' \in Element /\ el'.paused = el.paused /\ queue' = queue \o <<"seeked">>
    <3>1. el' \in Element /\ el'.paused = el.paused
      BY <1>4, <1>0 DEF SeekEnds, Element
    <3> QED
      BY <1>4, <1>0, <2>0, <3>1, AppendIsConcat DEF SeekEnds, Queued
  <2>2. queue' \in Seq(Events) /\ Behind(el.paused, guard.held, queue')
    BY <2>0, <2>1, <1>0, QueueAppended, QueueKeeps DEF Behind
  <2> QED
    BY <1>4, <2>1, <2>2 DEF SeekEnds, TypeOK, pageVars, keepVars, viewVars
<1>5. ASSUME Frame PROVE HeldInv'
  <2>1. guard' \in Guard /\ guard'.held = guard.held
    BY <1>5, <1>0 DEF Frame, FrameShown, Guard
  <2> QED
    BY <1>5, <2>1 DEF Frame, TypeOK, pageVars, elVars, keepVars, viewVars
<1>6. ASSUME FrameWhilePaused PROVE HeldInv'
  BY <1>6, <1>0 DEF FrameWhilePaused, TypeOK, pageVars, elVars, keepVars, viewVars
<1>7. ASSUME Advances PROVE HeldInv'
  <2>1. CASE el.pos < Last
    <3>1. (el.pos + 1 \in loaded) = TRUE \/ (el.pos + 1 \in loaded) = FALSE
      <4>1. CASE el.pos + 1 \in loaded
        BY <4>1
      <4>2. CASE el.pos + 1 \notin loaded
        BY <4>2
      <4> QED
        BY <4>1, <4>2
    <3>2. el' = [el EXCEPT !.pos = el.pos + 1, !.going = el.pos + 1 \in loaded] /\ queue' = <<"time">> /\ wants' = wants
      BY <1>7, <2>1, <1>0 DEF Advances, Element
    <3>6. el.pos + 1 \in Stretches
      BY <1>0, <2>1 DEF Stretches
    <3>7. \A b \in BOOLEAN : \A p \in Stretches : [el EXCEPT !.pos = p, !.going = b] \in Element /\ [el EXCEPT !.pos = p, !.going = b].paused = el.paused
      BY <1>0 DEF Element
    <3>3. el' \in Element /\ el'.paused = el.paused
      <4>1. TRUE \in BOOLEAN /\ FALSE \in BOOLEAN
        OBVIOUS
      <4> QED
        BY <3>1, <3>2, <3>6, <3>7, <4>1, Zenon
    <3>4. queue' = queue \o <<"time">> /\ "time" \in Events \ {"reject"}
      BY <1>7, <3>2 DEF Advances, Quiet, Events
    <3>5. queue' \in Seq(Events) /\ Behind(el.paused, guard.held, queue')
      BY <3>4, <1>0, QueueAppended, QueueKeeps DEF Behind
    <3> QED
      BY <1>7, <3>2, <3>3, <3>5 DEF Advances, TypeOK, pageVars, keepVars
  <2>2. CASE ~(el.pos < Last)
    <3>1. el' = [Stopped(el) EXCEPT !.ended = TRUE] /\ queue' = <<"time", "pause", "ended">> /\ wants' = "pause"
      BY <1>7, <2>2 DEF Advances
    <3>2. el' \in Element /\ el'.paused
      BY <3>1, <1>0 DEF Stopped, Element
    <3>3. queue' \in Seq(Events)
      BY <3>1 DEF Events
    <3> QED
      BY <1>7, <3>1, <3>2, <3>3 DEF Advances, TypeOK, pageVars, keepVars, Behind
  <2> QED
    BY <2>1, <2>2
<1>8. ASSUME FramesLate PROVE HeldInv'
  <2>1. guard' \in Guard /\ guard'.held = guard.held
    BY <1>8, <1>0 DEF FramesLate, Guard
  <2> QED
    BY <1>8, <2>1 DEF FramesLate, TypeOK, pageVars, elVars, keepVars, viewVars
<1>9. ASSUME WakeTimePasses PROVE HeldInv'
  <2>1. guard' \in Guard /\ guard'.held = guard.held
    BY <1>9, <1>0 DEF WakeTimePasses, Guard
  <2> QED
    BY <1>9, <2>1 DEF WakeTimePasses, TypeOK, pageVars, elVars, keepVars, viewVars
<1> QED
  BY <1>1, <1>2, <1>3, <1>4, <1>5, <1>6, <1>7, <1>8, <1>9 DEF Browser

-----------------------------------------------------------------------------
(* The watchdog                                                              *)

LEMMA TickKeeps ==
    ASSUME HeldInv, Tick
    PROVE  HeldInv'
<1>0. /\ queue \in Seq(Events) /\ el \in Element /\ guard \in Guard /\ TypeOK
      /\ el.paused \in BOOLEAN /\ el.pos \in 1 .. Last /\ Last \in Nat
      /\ guard.held \in BOOLEAN /\ Behind(el.paused, guard.held, queue)
  BY PausedElement, GuardIn DEF HeldInv, TypeOK
<1>1. SUFFICES /\ el' \in Element /\ queue' \in Seq(Events) /\ guard' \in Guard
               /\ promise' \in BOOLEAN /\ armed' \in BOOLEAN
               /\ Behind(el'.paused, guard'.held, queue')
  BY <1>0 DEF Tick, HeldInv, TypeOK, pageVars, keepVars, viewVars
<1>2. CASE hidden /\ guard.stale /\ guard' = [guard EXCEPT !.stale = FALSE] /\ UNCHANGED <<el, queue, promise, armed>>
  <2>1. guard' \in Guard /\ guard'.held = guard.held
    BY <1>0, <1>2 DEF Guard
  <2> QED
    BY <1>0, <1>2, <2>1 DEF TypeOK
<1>3. CASE Holds
  <2>1. PICK n \in 0 .. 2 : n = IF guard.seen THEN 0 ELSE IF guard.repeat = 2 THEN 2 ELSE guard.repeat + 1
    BY <1>0 DEF Guard
  <2>2. guard' = [guard EXCEPT !.held = TRUE, !.awake = FALSE, !.seen = FALSE, !.repeat = n]
    BY <1>0, <1>3, <2>1 DEF Holds, Guard
  <2>3. guard' \in Guard
    BY <1>0, <2>2 DEF Guard
  <2>4. /\ el' \in Element /\ queue' \in Seq(Events) /\ promise' \in BOOLEAN
        /\ \A h \in BOOLEAN : Behind(el'.paused, h, queue')
    BY <1>3, PauseKeeps DEF Holds
  <2>5. guard'.held \in BOOLEAN /\ armed' = FALSE
    BY <1>3, <2>3, GuardIn DEF Holds
  <2> QED
    BY <2>3, <2>4, <2>5
<1>4. CASE Skips
  <2>1. PICK p \in Stretches : p = IF el.pos < Last THEN el.pos + 1 ELSE Last
    BY <1>0 DEF Stretches
  <2>2. el' = Played(Sought(el, p)) /\ queue' = queue \o PlayQueued /\ promise' = TRUE /\ armed' = armed
    BY <1>4, <2>1 DEF Skips
  <2>3. el' \in Element
    BY <1>0, <2>2, SoughtIn, PlayedIn
  <2>4. guard' \in Guard /\ guard'.held = FALSE
    BY <1>0, <1>4, ReleasedIn DEF Skips
  <2>5. /\ queue' \in Seq(Events)
        /\ el.paused => PlayBehind(queue')
        /\ ~el.paused => queue' = queue
    BY <1>0, <2>2, PlayIsQueued
  <2>6. Behind(el'.paused, FALSE, queue')
    BY <1>0, <2>5 DEF Behind
  <2> QED
    BY <1>0, <2>2, <2>3, <2>4, <2>5, <2>6 DEF TypeOK
<1>5. CASE Resumes
  <2>1. /\ el' = Played(el) /\ queue' = queue \o PlayQueued /\ promise' = TRUE /\ armed' = armed
        /\ guard' = Released
    BY <1>5 DEF Resumes, PlaysForGuard
  <2>2. el' \in Element /\ guard' \in Guard /\ guard'.held = FALSE
    BY <1>0, <2>1, PlayedIn, ReleasedIn
  <2>3. /\ queue' \in Seq(Events)
        /\ el.paused => PlayBehind(queue')
        /\ ~el.paused => queue' = queue
    BY <1>0, <2>1, PlayIsQueued
  <2>4. Behind(el'.paused, FALSE, queue')
    BY <1>0, <2>3 DEF Behind
  <2> QED
    BY <1>0, <2>1, <2>2, <2>3, <2>4 DEF TypeOK
<1>6. \/ hidden /\ guard.stale /\ guard' = [guard EXCEPT !.stale = FALSE] /\ UNCHANGED <<el, queue, promise, armed>>
      \/ Holds \/ Skips \/ Resumes
  <2>1. Tick
    OBVIOUS
  <2> QED
    BY <2>1 DEF Tick
<1> QED
  BY <1>2, <1>3, <1>4, <1>5, <1>6

-----------------------------------------------------------------------------
(* The events                                                                *)

\* What is left when an event has been taken, as long as the watchdog holds no more
\* than it did.
LEMMA TakenKeeps ==
    ASSUME NEW q \in Seq(Events), q # <<>>, NEW p \in BOOLEAN, NEW h \in BOOLEAN, Behind(p, h, q)
    PROVE  /\ Tail(q) \in Seq(Events)
           /\ Head(q) # "play" => Behind(p, h, Tail(q))
           /\ Behind(p, FALSE, Tail(q))
           /\ Head(q) = "reject" => Behind(p, TRUE, Tail(q))
BY QueueTail DEF Behind

\* ... and when the element then plays.
LEMMA TakenPlays ==
    ASSUME HeldInv, queue # <<>>
    PROVE  /\ Tail(queue) \o PlayQueued \in Seq(Events)
           /\ Behind(FALSE, FALSE, Tail(queue) \o PlayQueued)
<1>1. TypeOK /\ queue \in Seq(Events) /\ el.paused \in BOOLEAN /\ guard.held \in BOOLEAN
  BY PausedElement, GuardIn DEF HeldInv, TypeOK
<1>2. Tail(queue) \in Seq(Events) /\ Behind(el.paused, FALSE, Tail(queue))
  BY <1>1, TakenKeeps DEF HeldInv
<1>3. /\ Tail(queue) \o PlayQueued \in Seq(Events)
      /\ el.paused => PlayBehind(Tail(queue) \o PlayQueued)
      /\ ~el.paused => Tail(queue) \o PlayQueued = Tail(queue)
  BY <1>1, <1>2, PlayIsQueued
<1> QED
  BY <1>2, <1>3 DEF Behind

LEMMA DispatchKeeps ==
    ASSUME HeldInv, Dispatch
    PROVE  HeldInv'
<1>0. /\ queue \in Seq(Events) /\ el \in Element /\ guard \in Guard /\ TypeOK
      /\ el.paused \in BOOLEAN /\ el.pos \in 1 .. Last /\ Last \in Nat
      /\ guard.held \in BOOLEAN /\ Behind(el.paused, guard.held, queue)
      /\ queue # <<>> /\ armed \in BOOLEAN /\ promise \in BOOLEAN
      /\ last \in 0 .. Last /\ saved \in 0 .. Last /\ applied \in BOOLEAN
  BY PausedElement, GuardIn DEF HeldInv, TypeOK, Dispatch
<1>t. /\ Tail(queue) \in Seq(Events)
      /\ Head(queue) # "play" => Behind(el.paused, guard.held, Tail(queue))
      /\ Behind(el.paused, FALSE, Tail(queue))
      /\ Head(queue) = "reject" => Behind(el.paused, TRUE, Tail(queue))
  BY <1>0, TakenKeeps
<1>l. 0 \in 0 .. 2 /\ 0 \in 0 .. Last /\ el.pos \in 0 .. Last
  BY <1>0
<1>1. SUFFICES /\ el' \in Element /\ queue' \in Seq(Events) /\ guard' \in Guard
               /\ promise' \in BOOLEAN /\ armed' \in BOOLEAN /\ applied' \in BOOLEAN
               /\ last' \in 0 .. Last /\ saved' \in 0 .. Last
               /\ Behind(el'.paused, guard'.held, queue')
  BY <1>0 DEF Dispatch, HeldInv, TypeOK, pageVars
<1>2. CASE PausedAgain
  <2>1. el' \in Element /\ el'.paused = TRUE /\ queue' \in Seq(Events) /\ promise' = FALSE
    BY <1>2, <1>0, <1>t, StoppedIn, PauseIsQueued DEF PausedAgain
  <2> QED
    BY <1>2, <1>0, <2>1 DEF PausedAgain, keepVars, Behind
<1>3. CASE OnPlay /\ ~guard.held
  <2>1. /\ guard' = [guard EXCEPT !.seen = FALSE, !.stale = FALSE] /\ armed' = (armed \/ ~el.paused)
        /\ UNCHANGED <<el, promise, keepVars>> /\ queue' = Tail(queue)
    BY <1>3 DEF OnPlay, PausedAgain
  <2>2. guard' \in Guard /\ guard'.held = FALSE
    BY <1>3, <2>1, <1>0 DEF Guard
  <2>3. armed' \in BOOLEAN
    BY <2>1, <1>0
  <2> QED
    BY <1>0, <1>t, <2>1, <2>2, <2>3 DEF keepVars
<1>4. CASE OnPlaying /\ ~guard.held
  <2>1. /\ guard' = [guard EXCEPT !.stale = FALSE] /\ armed' = (armed \/ ~el.paused)
        /\ UNCHANGED <<el, promise, keepVars>> /\ queue' = Tail(queue)
    BY <1>4 DEF OnPlaying, PausedAgain
  <2>2. guard' \in Guard /\ guard'.held = FALSE
    BY <1>4, <2>1, <1>0 DEF Guard
  <2>3. armed' \in BOOLEAN
    BY <2>1, <1>0
  <2> QED
    BY <1>0, <1>t, <2>1, <2>2, <2>3 DEF keepVars
<1>5. CASE Head(queue) = "pause" /\ OnPause
  <2>1. el' = el /\ promise' = promise /\ queue' = Tail(queue)
    BY <1>5 DEF OnPause
  <2>2. CASE guard.held
    BY <1>5, <1>0, <1>t, <2>1, <2>2 DEF OnPause, keepVars
  <2>3. CASE ~guard.held
    <3>1. guard' = [guard EXCEPT !.repeat = 0, !.seen = FALSE] /\ armed' = FALSE
      BY <1>5, <2>3 DEF OnPause
    <3>2. guard' \in Guard /\ guard'.held = FALSE
      BY <1>0, <1>l, <2>3, <3>1 DEF Guard
    <3>3. last' \in 0 .. Last /\ saved' \in 0 .. Last /\ applied' = applied
      BY <1>5, <1>0, <2>3 DEF OnPause, keepVars
    <3> QED
      BY <1>0, <1>t, <2>1, <3>1, <3>2, <3>3
  <2> QED
    BY <2>2, <2>3
<1>6. CASE OnSeeked
  <2>1. /\ guard' = [Released EXCEPT !.repeat = 0] /\ last' = el.pos
        /\ UNCHANGED <<saved, applied, armed, promise>>
    BY <1>6 DEF OnSeeked
  <2>5. /\ last' \in 0 .. Last /\ saved' \in 0 .. Last /\ promise' \in BOOLEAN
        /\ armed' \in BOOLEAN /\ applied' \in BOOLEAN
    BY <2>1, <1>0, <1>l
  <2>2. guard' \in Guard /\ guard'.held = FALSE
    BY <1>0, <2>1, ReleasedIn
  <2>3. CASE guard.held
    <3>1. el' = Played(el) /\ queue' = Tail(queue) \o PlayQueued
      BY <1>6, <2>3 DEF OnSeeked
    <3>2. el' \in Element /\ el'.paused = FALSE
      BY <1>0, <3>1, PlayedIn
    <3> QED
      BY <1>0, <2>2, <2>5, <3>1, <3>2, TakenPlays
  <2>4. CASE ~guard.held
    <3>1. el' = el /\ queue' = Tail(queue)
      BY <1>6, <2>4 DEF OnSeeked
    <3> QED
      BY <1>0, <1>t, <2>2, <2>5, <3>1
  <2> QED
    BY <2>3, <2>4
<1>7. CASE Head(queue) = "time" /\ OnTimeUpdate
  BY <1>7, <1>0, <1>t DEF OnTimeUpdate
<1>8. CASE OnEnded
  <2>1. /\ guard' = [guard EXCEPT !.held = FALSE, !.awake = FALSE, !.repeat = 0, !.seen = FALSE]
        /\ armed' = FALSE /\ last' = 0 /\ saved' = 0 /\ UNCHANGED <<promise, applied>>
    BY <1>8 DEF OnEnded
  <2>2. guard' \in Guard /\ guard'.held = FALSE
    BY <1>0, <1>l, <2>1 DEF Guard
  <2>5. /\ last' \in 0 .. Last /\ saved' \in 0 .. Last /\ promise' \in BOOLEAN
        /\ armed' \in BOOLEAN /\ applied' \in BOOLEAN
    BY <2>1, <1>0, <1>l
  <2>3. CASE el' = el /\ queue' = Tail(queue)
    BY <1>0, <1>t, <2>2, <2>3, <2>5
  <2>4. CASE el' = Played(Sought(el, 1)) /\ queue' = Tail(queue) \o PlayQueued
    <3>1. 1 \in Stretches
      BY PlayerAssumption DEF Stretches
    <3>2. el' \in Element /\ el'.paused = FALSE
      BY <1>0, <2>4, <3>1, SoughtIn, PlayedIn
    <3> QED
      BY <1>0, <2>2, <2>4, <2>5, <3>2, TakenPlays
  <2> QED
    BY <1>8, <2>3, <2>4 DEF OnEnded
<1>9. CASE Head(queue) = "meta" /\ OnLoadedMetadata
  <2>1. el' \in Element /\ el'.paused = el.paused /\ last' \in 0 .. Last
    <3>1. CASE applied
      BY <1>9, <1>0, <3>1 DEF OnLoadedMetadata
    <3>2. CASE ~applied /\ saved > 1 /\ saved < Last
      <4>1. saved \in Stretches /\ el' = Sought(el, saved) /\ last' = saved
        BY <1>9, <1>0, <3>2 DEF OnLoadedMetadata, Stretches
      <4> QED
        BY <1>0, <4>1, SoughtIn
    <3>3. CASE ~applied /\ ~(saved > 1 /\ saved < Last)
      BY <1>9, <1>0, <3>3 DEF OnLoadedMetadata
    <3> QED
      BY <3>1, <3>2, <3>3
  <2> QED
    BY <1>9, <1>0, <1>t, <2>1 DEF OnLoadedMetadata
<1>10. CASE Head(queue) = "reject" /\ OnReject
  <2>1. guard' = [guard EXCEPT !.held = TRUE, !.awake = FALSE] /\ queue' = Tail(queue)
        /\ UNCHANGED <<el, promise, armed, keepVars>>
    BY <1>10 DEF OnReject
  <2>2. guard' \in Guard /\ guard'.held = TRUE
    BY <1>0, <2>1 DEF Guard
  <2> QED
    BY <1>10, <1>0, <1>t, <2>1, <2>2 DEF keepVars
<1>11. \/ PausedAgain
       \/ OnPlay /\ ~guard.held
       \/ OnPlaying /\ ~guard.held
       \/ Head(queue) = "pause" /\ OnPause
       \/ OnSeeked
       \/ Head(queue) = "time" /\ OnTimeUpdate
       \/ OnEnded
       \/ Head(queue) = "meta" /\ OnLoadedMetadata
       \/ Head(queue) = "reject" /\ OnReject
  <2>2. ASSUME OnPlay, ~PausedAgain PROVE ~guard.held
    BY <2>2 DEF OnPlay
  <2>3. ASSUME OnPlaying, ~PausedAgain PROVE ~guard.held
    BY <2>3 DEF OnPlaying
  <2>4. \/ OnPlay
        \/ OnPlaying
        \/ Head(queue) = "pause" /\ OnPause
        \/ OnSeeked
        \/ Head(queue) = "time" /\ OnTimeUpdate
        \/ OnEnded
        \/ Head(queue) = "meta" /\ OnLoadedMetadata
        \/ Head(queue) = "reject" /\ OnReject
    BY DEF Dispatch
  <2> QED
    BY <2>2, <2>3, <2>4
<1> QED
  BY <1>2, <1>3, <1>4, <1>5, <1>6, <1>7, <1>8, <1>9, <1>10, <1>11

-----------------------------------------------------------------------------
(* The source                                                                *)

LEMMA Requeued ==
    ASSUME HeldInv, NEW t \in Seq(Events), NEW c \in BOOLEAN
    PROVE  (IF c THEN <<"reject">> ELSE <<>>) \o t \in Seq(Events)
<1>1. <<"reject">> \in Seq(Events) /\ <<>> \in Seq(Events)
  BY DEF Events
<1> QED
  BY <1>1, ConcatProperties

LEMMA EmptiedKeeps ==
    ASSUME HeldInv, el' = Empty, Emptied
    PROVE  /\ el' \in Element /\ queue' \in Seq(Events) /\ loaded' = {} /\ promise' = FALSE
           /\ \A h \in BOOLEAN : Behind(el'.paused, h, queue')
<1>1. <<"time">> \in Seq(Events) /\ <<>> \in Seq(Events) /\ <<"reject">> \in Seq(Events)
  BY DEF Events
<1>2. queue' \in Seq(Events)
  BY <1>1, ConcatProperties DEF Emptied
<1> QED
  BY <1>2, EmptyIn DEF Emptied, Behind

LEMMA GivenKeeps ==
    ASSUME HeldInv, NEW kind \in {"direct", "progressive", "hls"}, Given(kind)
    PROVE  HeldInv'
<1>0. /\ queue \in Seq(Events) /\ el \in Element /\ guard \in Guard /\ TypeOK
      /\ last \in 0 .. Last /\ saved \in 0 .. Last
  BY DEF HeldInv, TypeOK
<1>1. guard' \in Guard /\ guard'.held = FALSE
  BY <1>0 DEF Given, Guard
<1>2. el' \in Element /\ (kind = "hls" => el'.paused)
  <2>1. CASE kind = "hls"
    BY <2>1, EmptyIn DEF Given, Element, Empty
  <2>2. CASE kind # "hls"
    BY <2>2, EmptyIn DEF Given, Element
  <2> QED
    BY <2>1, <2>2
<1>3. queue' \in Seq(Events) /\ (kind # "hls" => PlayBehind(queue'))
  <2>1. <<>> \in Seq(Events) /\ <<"reject">> \in Seq(Events)
    BY DEF Events
  <2>2. PICK q \in Seq(Events) : q = IF promise \/ \E i \in DOMAIN queue : queue[i] = "reject" THEN <<"reject">> ELSE <<>>
    BY <2>1
  <2>3. queue' = q \o (IF kind = "hls" THEN <<>> ELSE <<"play">>)
    BY <2>2 DEF Given
  <2>4. CASE kind = "hls"
    BY <2>1, <2>3, <2>4, ConcatProperties
  <2>5. CASE kind # "hls"
    BY <2>3, <2>5, PlayLast
  <2> QED
    BY <2>4, <2>5
<1>4. /\ source' \in {"none", "direct", "progressive", "hls"} /\ pipe' = "given"
      /\ loaded' = {} /\ promise' = FALSE /\ applied' = FALSE /\ saved' \in 0 .. Last
      /\ UNCHANGED <<forced, retries, bad, armed, last, viewVars>>
  BY <1>0 DEF Given
<1> QED
  BY <1>0, <1>1, <1>2, <1>3, <1>4 DEF HeldInv, TypeOK, Behind, viewVars

LEMMA SourceKeeps ==
    ASSUME HeldInv, Answered \/ Prepared \/ AskFails \/ HlsFatal \/ SourceError \/ Retry \/ HlsPlays
    PROVE  HeldInv'
<1>0. /\ queue \in Seq(Events) /\ el \in Element /\ guard \in Guard /\ TypeOK
      /\ el.paused \in BOOLEAN /\ guard.held \in BOOLEAN /\ Behind(el.paused, guard.held, queue)
      /\ retries \in 0 .. MaxRetries /\ MaxRetries \in Nat
  BY PausedElement, GuardIn, PlayerAssumption DEF HeldInv, TypeOK
<1>1. ASSUME Again, forced' \subseteq {"worker", "hls"} PROVE HeldInv'
  <2>1. /\ el' \in Element /\ queue' \in Seq(Events) /\ loaded' = {} /\ promise' = FALSE
        /\ Behind(el'.paused, guard.held, queue')
    BY <1>0, <1>1, EmptiedKeeps DEF Again
  <2>2. retries' \in 0 .. MaxRetries
    BY <1>0, <1>1 DEF Again
  <2>3. source' = "none" /\ pipe' = "asking" /\ UNCHANGED <<bad, guard, armed, keepVars, viewVars>>
    BY <1>1 DEF Again
  <2> QED
    BY <1>0, <1>1, <2>1, <2>2, <2>3 DEF HeldInv, TypeOK, keepVars, viewVars
<1>2. ASSUME pipe' \in {"preparing", "failed"}, UNCHANGED <<source, forced, retries, bad, elVars, guard, armed, keepVars, viewVars>>
      PROVE  HeldInv'
  BY <1>0, <1>2 DEF HeldInv, TypeOK, elVars, keepVars, viewVars
<1>3. CASE Answered
  BY <1>2, <1>3, GivenKeeps DEF Answered
<1>4. CASE Prepared
  BY <1>4, GivenKeeps DEF Prepared
<1>5. CASE AskFails
  BY <1>2, <1>5 DEF AskFails
<1>6. CASE HlsFatal
  <2>1. /\ el' \in Element /\ queue' \in Seq(Events) /\ loaded' = {} /\ promise' = FALSE
        /\ Behind(el'.paused, guard.held, queue')
    BY <1>0, <1>6, EmptiedKeeps DEF HlsFatal
  <2>2. pipe' = "failed" /\ UNCHANGED <<source, forced, retries, bad, guard, armed, keepVars, viewVars>>
    BY <1>6 DEF HlsFatal
  <2> QED
    BY <1>0, <2>1, <2>2 DEF HeldInv, TypeOK, keepVars, viewVars
<1>7. CASE SourceError
  <2>1. forced' \subseteq {"worker", "hls"} /\ Again
    BY <1>0, <1>7 DEF SourceError, TypeOK
  <2> QED
    BY <1>1, <2>1
<1>8. CASE Retry
  BY <1>0, <1>1, <1>8 DEF Retry, TypeOK
<1>9. CASE HlsPlays
  <2>1. /\ queue' \in Seq(Events)
        /\ el.paused => PlayBehind(queue')
        /\ ~el.paused => queue' = queue
    BY <1>0, <1>9, PlayIsQueued DEF HlsPlays
  <2>2. Played(el) \in Element
    BY <1>0, PlayedIn
  <2>3. el' \in Element
    BY <1>9, <2>2 DEF HlsPlays, Element
  <2>4. Behind(el'.paused, guard.held, queue')
    BY <1>0, <2>1 DEF Behind
  <2> QED
    BY <1>0, <1>9, <2>1, <2>3, <2>4 DEF HlsPlays, HeldInv, TypeOK, pageVars, keepVars, viewVars
<1> QED
  BY <1>3, <1>4, <1>5, <1>6, <1>7, <1>8, <1>9

-----------------------------------------------------------------------------
(* The viewer                                                                *)

LEMMA ActsKeep ==
    ASSUME HeldInv, Viewer
    PROVE  HeldInv'
<1>0. /\ queue \in Seq(Events) /\ el \in Element /\ guard \in Guard /\ TypeOK
      /\ el.paused \in BOOLEAN /\ guard.held \in BOOLEAN /\ Behind(el.paused, guard.held, queue)
      /\ acts \in 0 .. MaxActs /\ MaxActs \in Nat
  BY PausedElement, GuardIn, PlayerAssumption DEF HeldInv, TypeOK
<1>1. Acts => acts' \in 0 .. MaxActs
  BY <1>0 DEF Acts
<1>2. CASE TogglePlay
  <2>1. CASE guard.held
    <3>1. guard' = [guard EXCEPT !.held = FALSE, !.awake = FALSE] /\ wants' = "pause" /\ UNCHANGED <<el, queue, promise>>
      BY <1>2, <2>1 DEF TogglePlay
    <3>2. guard' \in Guard /\ guard'.held = FALSE
      BY <1>0, <3>1 DEF Guard
    <3>3. Behind(el'.paused, guard'.held, queue')
      BY <1>0, <3>1, <3>2 DEF Behind
    <3> QED
      BY <1>0, <1>1, <1>2, <3>1, <3>2, <3>3 DEF TogglePlay, HeldInv, TypeOK, pageVars, keepVars
  <2>2. CASE ~guard.held
    <3>1. /\ guard' = guard /\ wants' \in {"play", "pause"}
          /\ el' \in Element /\ queue' \in Seq(Events) /\ promise' \in BOOLEAN
          /\ Behind(el'.paused, guard.held, queue')
      <4>1. CASE el.paused
        BY <1>0, <1>2, <2>2, <4>1, PlayKeeps DEF TogglePlay, Plays, TypeOK
      <4>2. CASE ~el.paused
        BY <1>0, <1>2, <2>2, <4>2, PauseKeeps DEF TogglePlay
      <4> QED
        BY <4>1, <4>2
    <3> QED
      BY <1>0, <1>1, <1>2, <3>1 DEF TogglePlay, HeldInv, TypeOK, pageVars, keepVars
  <2> QED
    BY <2>1, <2>2
<1>3. CASE MediaKey
  <2>1. /\ wants' \in {"play", "pause"}
        /\ el' \in Element /\ queue' \in Seq(Events) /\ promise' \in BOOLEAN
        /\ Behind(el'.paused, guard.held, queue')
    <3>1. CASE wants' = "play" /\ Plays
      BY <1>0, <3>1, PlayKeeps DEF Plays, TypeOK
    <3>2. CASE wants' = "pause" /\ Pauses
      BY <1>0, <3>2, PauseKeeps
    <3> QED
      BY <1>3, <3>1, <3>2 DEF MediaKey
  <2> QED
    BY <1>0, <1>1, <1>3, <2>1 DEF MediaKey, HeldInv, TypeOK, pageVars, keepVars
<1>4. CASE Seek
  <2>1. PICK p \in Stretches : el' = Sought(el, p) /\ last' = p
    BY <1>4 DEF Seek
  <2>2. el' \in Element /\ el'.paused = el.paused /\ last' \in 0 .. Last
    BY <1>0, <2>1, SoughtIn, PlayerAssumption DEF Stretches
  <2> QED
    BY <1>0, <1>1, <1>4, <2>2 DEF Seek, HeldInv, TypeOK, pageVars
<1>5. CASE SwitchTab
  <2>1. PICK b \in BOOLEAN : b = (guard.stale /\ ~hidden)
    <3>1. guard.stale \in BOOLEAN /\ hidden \in BOOLEAN
      BY <1>0, GuardIn DEF TypeOK
    <3> QED
      BY <3>1
  <2>2. guard' = [guard EXCEPT !.stale = b]
    BY <1>0, <1>5, <2>1 DEF SwitchTab, Guard
  <2>3. guard' \in Guard /\ guard'.held = guard.held
    BY <1>0, <2>2 DEF Guard
  <2>4. hidden' \in BOOLEAN
    BY <1>0, <1>5 DEF SwitchTab, TypeOK
  <2> QED
    BY <1>0, <1>1, <1>5, <2>3, <2>4 DEF SwitchTab, HeldInv, TypeOK, pageVars, elVars, keepVars
<1> QED
  BY <1>2, <1>3, <1>4, <1>5 DEF Viewer

-----------------------------------------------------------------------------
LEMMA HeldStart == Init => HeldInv
<1> SUFFICES ASSUME Init PROVE HeldInv
  OBVIOUS
<1>1. Last \in Nat /\ Last > 2 /\ MaxActs \in Nat /\ MaxRetries \in Nat
  BY PlayerAssumption
<1>2. 0 \in 0 .. Last /\ 2 \in 0 .. Last /\ 0 \in 0 .. MaxActs /\ 0 \in 0 .. MaxRetries /\ 2 \in Stretches
  BY <1>1 DEF Stretches
<1>3. NoGuard \in Guard
  BY DEF NoGuard, Guard
<1>4. queue \in Seq(Events)
  BY DEF Init
<1> QED
  BY <1>2, <1>3, <1>4, EmptyIn DEF Init, HeldInv, TypeOK, Behind

LEMMA HeldStep == HeldInv /\ [Next]_playerVars => HeldInv'
<1> SUFFICES ASSUME HeldInv, [Next]_playerVars PROVE HeldInv'
  OBVIOUS
<1>1. CASE Next
  BY <1>1, BrowserKeeps, TickKeeps, DispatchKeeps, SourceKeeps, ActsKeep DEF Next, Player
<1>2. CASE UNCHANGED playerVars
  BY <1>2 DEF HeldInv, TypeOK, Behind, playerVars, pageVars, elVars, keepVars, viewVars
<1> QED
  BY <1>1, <1>2

\* The player keeps its types and, however late a play() comes, the video the watchdog
\* holds is paused once the waiting events are done.
THEOREM HeldSilent == Spec => []HeldIsSilent
<1>1. HeldInv => HeldIsSilent
  <2> SUFFICES ASSUME HeldInv, guard.held, Quiet PROVE el.paused
    BY DEF HeldIsSilent
  <2>1. Len(queue) = 0
    BY EmptySeq DEF Quiet
  <2>2. ~PlayBehind(queue)
    BY <2>1 DEF PlayBehind
  <2> QED
    BY <2>2 DEF HeldInv, Behind
<1> QED
  BY <1>1, HeldStart, HeldStep, PTL DEF Spec

-----------------------------------------------------------------------------
(* Server downloads                                                         *)

\* One holder at most of the right to start the id: the row that is pending, the tab that
\* is going to revert it, or the start a tab was allowed, and the run that it becomes.
OneHolds ==
    /\ \A i, j \in StartIds : start[i] # "free" /\ start[j] # "free" => i = j
    /\ \A t, u \in Tabs : tab[t].pc # "idle" /\ tab[u].pc # "idle" => t = u
    /\ \A t \in Tabs : tab[t].pc = "waiting" => tab[t].for \in StartIds /\ start[tab[t].for] \in Handling
    /\ \A t \in Tabs : tab[t].pc \in {"refused", "reverting"} => \A i \in StartIds : start[i] = "free"
    /\ row = "pending" => (\A i \in StartIds : start[i] = "free") /\ \A t \in Tabs : tab[t].pc = "idle"
    /\ row = "completed" => \A t \in Tabs : tab[t].pc = "idle"

ServerInv == ServerTypeOK /\ ("lost" \notin env => OneHolds)

TabState == [pc : {"idle", "waiting", "refused", "reverting"}, for : StartIds \cup {0}]
StartState == {"free"} \cup Handling \cup Running

LEMMA ServerTypes ==
    ASSUME ServerTypeOK
    PROVE  /\ tab \in [Tabs -> TabState] /\ start \in [StartIds -> StartState] /\ Idle \in TabState
           /\ 0 \notin StartIds
BY ServerAssumption DEF ServerTypeOK, TabState, StartState, Idle, StartIds

\* The answer of a start takes the tab that waits for it, and no other.
LEMMA AnsweredIs ==
    ASSUME ServerTypeOK, NEW i \in StartIds, NEW pc \in {"idle", "refused"}, tab' = StartAnswered(i, pc)
    PROVE  /\ tab' \in [Tabs -> TabState]
           /\ \A t \in Tabs : \/ tab'[t] = tab[t] /\ ~(tab[t].pc = "waiting" /\ tab[t].for = i)
                              \/ tab[t].pc = "waiting" /\ tab[t].for = i /\ tab'[t].pc = pc
<1> DEFINE n(t) == IF tab[t] = [pc |-> "waiting", for |-> i] THEN [pc |-> pc, for |-> 0] ELSE tab[t]
<1>1. tab' = [t \in Tabs |-> n(t)]
  BY DEF StartAnswered
<1>2. ASSUME NEW t \in Tabs
      PROVE  /\ n(t) \in TabState
             /\ \/ n(t) = tab[t] /\ ~(tab[t].pc = "waiting" /\ tab[t].for = i)
                \/ tab[t].pc = "waiting" /\ tab[t].for = i /\ n(t).pc = pc
  <2>1. tab[t] \in TabState
    BY ServerTypes
  <2>2. CASE tab[t] = [pc |-> "waiting", for |-> i]
    BY <2>2 DEF TabState
  <2>3. CASE tab[t] # [pc |-> "waiting", for |-> i]
    <3>1. ~(tab[t].pc = "waiting" /\ tab[t].for = i)
      BY <2>1, <2>3 DEF TabState
    <3> QED
      BY <2>1, <2>3, <3>1
  <2> QED
    BY <2>2, <2>3
<1> HIDE DEF n
<1> QED
  BY <1>1, <1>2

LEMMA ClaimKeeps ==
    ASSUME ServerInv, NEW t \in Tabs, NEW i \in StartIds, Claim(t, i)
    PROVE  ServerInv'
<1>0. ServerTypeOK /\ tab \in [Tabs -> TabState] /\ start \in [StartIds -> StartState] /\ start[i] = "free"
      /\ [pc |-> "waiting", for |-> i] \in TabState /\ Idle.pc = "idle"
  BY ServerTypes DEF ServerInv, Claim, Free, TabState, Idle
<1>1. /\ row' = "downloading" /\ tab' = [tab EXCEPT ![t] = [pc |-> "waiting", for |-> i]] /\ start' = [start EXCEPT ![i] = "sent"]
      /\ row = "pending" /\ UNCHANGED <<job, env, entry, reaper, deleting>>
  BY DEF Claim
<1>2. ServerTypeOK'
  BY <1>0, <1>1 DEF ServerTypeOK, RowStatus, TabState, StartState, Handling
<1>3. OneHolds => OneHolds'
  BY <1>0, <1>1 DEF OneHolds, Handling
<1> QED
  BY <1>1, <1>2, <1>3 DEF ServerInv

LEMMA TabStepKeeps ==
    ASSUME ServerInv, NEW t \in Tabs,
           StartFails(t) \/ AnswerLost(t) \/ RevertReads(t) \/ RevertWrites(t) \/ CloseTab(t)
    PROVE  ServerInv'
<1>0. /\ ServerTypeOK /\ tab \in [Tabs -> TabState] /\ start \in [StartIds -> StartState] /\ Idle \in TabState
      /\ Idle.pc = "idle" /\ tab[t] \in TabState
      /\ [pc |-> "refused", for |-> 0] \in TabState /\ [pc |-> "reverting", for |-> 0] \in TabState
  BY ServerTypes DEF ServerInv, TabState, Idle
<1>1. CASE StartFails(t)
  <2>1. /\ tab' = [tab EXCEPT ![t] = [pc |-> "refused", for |-> 0]] /\ start' = [start EXCEPT ![tab[t].for] = "free"]
        /\ tab[t].pc = "waiting" /\ UNCHANGED <<job, env, row, entry, reaper, deleting>>
    BY <1>1 DEF StartFails
  <2>2. ServerTypeOK'
    BY <1>0, <2>1 DEF ServerTypeOK, TabState, StartState
  <2>3. OneHolds => OneHolds'
    BY <1>0, <2>1 DEF OneHolds, Handling
  <2> QED
    BY <2>1, <2>2, <2>3 DEF ServerInv
<1>2. CASE AnswerLost(t)
  <2>1. ServerTypeOK' /\ "lost" \in env'
    BY <1>0, <1>2 DEF AnswerLost, ServerTypeOK, TabState
  <2> QED
    BY <2>1 DEF ServerInv
<1>3. CASE RevertReads(t) \/ CloseTab(t)
  <2>1. PICK x \in {Idle, [pc |-> "reverting", for |-> 0]} :
            /\ tab' = [tab EXCEPT ![t] = x] /\ (x # Idle => tab[t].pc = "refused")
            /\ tab[t].pc # "idle" /\ UNCHANGED <<job, env, row, entry, reaper, start, deleting>>
    <3>1. CASE RevertReads(t)
      BY <3>1 DEF RevertReads
    <3>2. CASE CloseTab(t)
      BY <3>2 DEF CloseTab
    <3> QED
      BY <1>3, <3>1, <3>2
  <2>2. ServerTypeOK'
    BY <1>0, <2>1 DEF ServerTypeOK, TabState
  <2>3. x.pc \in {"idle", "reverting"} /\ (x.pc = "reverting" => tab[t].pc = "refused")
    BY <1>0, <2>1
  <2>4. OneHolds => OneHolds'
    BY <1>0, <2>1, <2>3 DEF OneHolds
  <2> QED
    BY <2>1, <2>2, <2>4 DEF ServerInv
<1>4. CASE RevertWrites(t)
  <2>1. /\ tab' = [tab EXCEPT ![t] = Idle] /\ tab[t].pc = "reverting" /\ row' \in RowStatus
        /\ UNCHANGED <<job, env, entry, reaper, start, deleting>>
    BY <1>4 DEF RevertWrites, Written, RowStatus
  <2>2. ServerTypeOK'
    BY <1>0, <2>1 DEF ServerTypeOK, TabState
  <2>3. OneHolds => OneHolds'
    BY <1>0, <2>1 DEF OneHolds
  <2> QED
    BY <2>1, <2>2, <2>3 DEF ServerInv
<1> QED
  BY <1>1, <1>2, <1>3, <1>4

\* A step of one start or run: it is not free before, the tabs are told or left.
LEMMA StartChanges ==
    ASSUME ServerInv, NEW i \in StartIds, NEW to \in StartState, start[i] # "free",
           start' = [start EXCEPT ![i] = to],
           row' \in RowStatus, row' = "pending" => row = "pending",
           row' = "completed" => row = "completed" \/ start[i] \notin Handling,
           entry' \in {"none", "live", "done"}, UNCHANGED <<job, env, reaper, deleting>>,
           \/ tab' = tab /\ (start[i] \in Handling => to \in Handling)
           \/ tab' = StartAnswered(i, "idle")
           \/ tab' = StartAnswered(i, "refused") /\ to = "free"
    PROVE  ServerInv'
<1>0. ServerTypeOK /\ tab \in [Tabs -> TabState] /\ start \in [StartIds -> StartState]
  BY ServerTypes DEF ServerInv
<1>1. tab' \in [Tabs -> TabState]
  BY <1>0, AnsweredIs
<1>2. ServerTypeOK'
  BY <1>0, <1>1 DEF ServerTypeOK, TabState, StartState
<1>3. ASSUME OneHolds PROVE OneHolds'
  <2>1. \A t \in Tabs : tab[t].pc \in {"idle", "waiting"} /\ (tab[t].pc = "waiting" => tab[t].for = i)
    BY <1>0, <1>3 DEF OneHolds, TabState, Handling
  <2>2. row # "pending" /\ \A j \in StartIds : j # i => start[j] = "free"
    BY <1>3 DEF OneHolds
  <2>3. start'[i] = to /\ \A j \in StartIds : j # i => start'[j] = "free"
    BY <1>0, <2>2
  <2>4. \A t \in Tabs : tab[t].pc = "waiting" => start[i] \in Handling
    BY <1>3, <2>1 DEF OneHolds
  <2>5. CASE tab' = tab /\ (start[i] \in Handling => to \in Handling)
    <3> QED
      BY <1>3, <2>1, <2>2, <2>3, <2>5, <2>4 DEF OneHolds
  <2>6. CASE tab' = StartAnswered(i, "idle")
    <3>1. \A t \in Tabs : tab'[t].pc = "idle"
      BY <1>0, <2>1, <2>6, AnsweredIs
    <3> QED
      BY <2>2, <2>3, <3>1 DEF OneHolds
  <2>7. CASE tab' = StartAnswered(i, "refused") /\ to = "free"
    <3>1. \A t \in Tabs : tab'[t].pc \in {"idle", "refused"} /\ (tab'[t].pc # "idle" => tab[t].pc # "idle")
      BY <1>0, <2>1, <2>7, AnsweredIs
    <3> QED
      BY <1>3, <2>1, <2>2, <2>3, <2>7, <2>4, <3>1 DEF OneHolds
  <2> QED
    BY <2>5, <2>6, <2>7
<1> QED
  BY <1>2, <1>3 DEF ServerInv

LEMMA StartStepKeeps ==
    ASSUME ServerInv, NEW i \in StartIds, TestEntry(i) \/ ReadRow(i) \/ Begin(i) \/ NoRow(i)
    PROVE  ServerInv'
<1>0. row \in RowStatus /\ entry \in {"none", "live", "done"}
  BY DEF ServerInv, ServerTypeOK
<1>1. CASE TestEntry(i)
  <2>1. start[i] # "free" /\ start[i] \in Handling
    BY <1>1 DEF TestEntry, Handling
  <2>2. CASE entry \in job.blockedBy
    BY <1>0, <1>1, <2>1, <2>2, StartChanges DEF TestEntry, StartState
  <2>3. CASE entry \notin job.blockedBy
    BY <1>0, <1>1, <2>1, <2>3, StartChanges DEF TestEntry, StartState, Handling
  <2> QED
    BY <2>2, <2>3
<1>2. CASE ReadRow(i)
  BY <1>0, <1>2, StartChanges DEF ReadRow, StartState, Handling
<1>3. CASE Begin(i)
  BY <1>0, <1>3, StartChanges DEF Begin, StartState, Running
<1>4. CASE NoRow(i)
  <2>1. start[i] # "free"
    BY <1>4 DEF NoRow
  <2>2. start' = [start EXCEPT ![i] = "free"] /\ UNCHANGED <<job, env, row, entry, reaper, deleting>>
    BY <1>4 DEF NoRow
  <2>3. tab' = StartAnswered(i, "idle") \/ tab' = StartAnswered(i, "refused")
    BY <1>4 DEF NoRow
  <2> QED
    BY <1>0, <2>1, <2>2, <2>3, StartChanges DEF StartState
<1> QED
  BY <1>1, <1>2, <1>3, <1>4

LEMMA RunStepKeeps ==
    ASSUME ServerInv, NEW i \in StartIds,
           \/ SetUp(i) \/ SetUpFails(i) \/ Escapes(i) \/ Chunk(i)
           \/ \E ending \in Endings : StreamEnds(i, ending)
           \/ WriteEnding(i) \/ EndingLost(i) \/ Mark(i)
    PROVE  ServerInv'
<1>0. row \in RowStatus /\ entry \in {"none", "live", "done"} /\ start[i] \in StartState /\ job \in Jobs
  BY DEF ServerInv, ServerTypeOK, StartState
<1>1. CASE Chunk(i)
  <2>1. entry' \in {"none", "live", "done"} /\ UNCHANGED <<job, env, row, reaper, tab, start, deleting>>
    BY <1>1 DEF Chunk
  <2> QED
    BY <2>1 DEF ServerInv, ServerTypeOK, OneHolds
<1>2. CASE ~Chunk(i)
  <2>1. \A to : Goes(i, to) <=> start' = [start EXCEPT ![i] = to] /\ UNCHANGED <<job, env, reaper, tab, deleting>>
    BY DEF Goes
  <2>2. PICK to \in StartState : Goes(i, to) /\ start[i] \notin {"free"} \cup Handling
    <3>1. CASE SetUp(i) \/ SetUpFails(i)
      BY <3>1 DEF SetUp, SetUpFails, StartState, Running, Endings, Handling
    <3>2. CASE Escapes(i)
      <4>1. start[i] \in {"setup", "stream"}
        BY <1>0, <3>2, ServerAssumption DEF Escapes, Job
      <4> QED
        BY <3>2, <4>1 DEF Escapes, StartState, Handling
    <3>3. CASE \E ending \in Endings : StreamEnds(i, ending)
      BY <3>3 DEF StreamEnds, StartState, Running, Endings, Handling
    <3>4. CASE WriteEnding(i) \/ EndingLost(i) \/ Mark(i)
      BY <3>4 DEF WriteEnding, EndingLost, Mark, StartState, Running, Endings, Handling
    <3> QED
      BY <1>2, <3>1, <3>2, <3>3, <3>4
  <2>3. row' \in RowStatus /\ (row' = "pending" => row = "pending") /\ entry' \in {"none", "live", "done"}
        /\ start[i] \notin Handling
    BY <1>0, <1>2, <2>2 DEF SetUp, SetUpFails, Escapes, StreamEnds, WriteEnding, EndingLost, Mark, Written, RowStatus
  <2> QED
    BY <2>1, <2>2, <2>3, StartChanges
<1> QED
  BY <1>1, <1>2

\* A restart frees every start that a backend has begun to handle; a tab that waited
\* for it reverts.
LEMMA RestartKeeps ==
    ASSUME ServerInv, Restart
    PROVE  ServerInv'
<1>0. /\ ServerTypeOK /\ tab \in [Tabs -> TabState] /\ start \in [StartIds -> StartState]
      /\ row' \in RowStatus /\ row' \in {row, "failed"}
  BY ServerTypes DEF ServerInv, ServerTypeOK, Restart, RowStatus
<1>1. PICK kept \in SUBSET StartsSent : StartsKept(kept)
  BY DEF Restart
<1> DEFINE n(t) == IF tab[t].pc = "waiting" /\ tab[t].for \notin kept
                    THEN [pc |-> "refused", for |-> 0] ELSE tab[t]
<1>2. /\ tab' = [t \in Tabs |-> n(t)] /\ start' = [i \in StartIds |-> IF i \in kept THEN "sent" ELSE "free"]
      /\ entry' = "none" /\ reaper' = FALSE /\ UNCHANGED <<job, env, deleting>>
  BY <1>1 DEF Restart, StartsKept
<1>3. /\ tab' \in [Tabs -> TabState]
      /\ \A t \in Tabs :
            /\ tab'[t].pc = "waiting" => tab'[t] = tab[t] /\ tab[t].for \in kept
            /\ tab'[t].pc \in {"refused", "reverting"} =>
                   tab[t].pc = tab'[t].pc \/ (tab[t].pc = "waiting" /\ tab[t].for \notin kept)
            /\ tab'[t].pc # "idle" <=> tab[t].pc # "idle"
  <2>1. ASSUME NEW t \in Tabs
        PROVE  /\ n(t) \in TabState
               /\ n(t).pc = "waiting" => n(t) = tab[t] /\ tab[t].for \in kept
               /\ n(t).pc \in {"refused", "reverting"} =>
                      tab[t].pc = n(t).pc \/ (tab[t].pc = "waiting" /\ tab[t].for \notin kept)
               /\ n(t).pc # "idle" <=> tab[t].pc # "idle"
    BY <1>0 DEF TabState
  <2> HIDE DEF n
  <2> QED
    BY <1>2, <2>1
<1> HIDE DEF n
<1>4. \A i \in StartIds : /\ start'[i] \in {"free", "sent"}
                          /\ start'[i] = "sent" <=> i \in kept
                          /\ i \in kept => start[i] = "sent"
  BY <1>2 DEF StartsSent
<1>5. ServerTypeOK'
  BY <1>0, <1>2, <1>3 DEF ServerTypeOK, TabState, Handling
<1>6. ASSUME OneHolds PROVE OneHolds'
  <2>1. \A i, j \in StartIds : start'[i] # "free" /\ start'[j] # "free" => i = j
    BY <1>4, <1>6 DEF OneHolds
  <2>2. ASSUME NEW t \in Tabs, tab'[t].pc = "waiting"
        PROVE  tab'[t].for \in StartIds /\ start'[tab'[t].for] \in Handling
    <3>1. tab'[t] = tab[t] /\ tab[t].for \in kept
      BY <1>3, <2>2
    <3>2. tab[t].for \in StartIds
      BY <1>1, <3>1 DEF StartsSent
    <3> QED
      BY <1>4, <3>1, <3>2 DEF Handling
  <2>3. ASSUME NEW t \in Tabs, tab'[t].pc \in {"refused", "reverting"}, NEW i \in StartIds
        PROVE  start'[i] = "free"
    <3>1. CASE tab[t].pc \in {"refused", "reverting"}
      BY <1>4, <1>6, <3>1 DEF OneHolds
    <3>2. CASE tab[t].pc = "waiting" /\ tab[t].for \notin kept
      BY <1>4, <1>6, <3>2 DEF OneHolds, Handling
    <3> QED
      BY <1>2, <1>3, <2>3, <3>1, <3>2
  <2> QED
    BY <1>0, <1>2, <1>3, <1>4, <1>6, <2>1, <2>2, <2>3 DEF OneHolds
<1> QED
  BY <1>2, <1>5, <1>6 DEF ServerInv

LEMMA ServerStays ==
    ASSUME ServerInv, [ServerNext]_serverVars
    PROVE  ServerInv'
<1>1. CASE TabStep
  BY <1>1, ClaimKeeps, TabStepKeeps DEF TabStep
<1>2. CASE StartStep
  BY <1>2, StartStepKeeps DEF StartStep
<1>3. CASE RunStep
  BY <1>3, RunStepKeeps DEF RunStep
<1>4. CASE Restart
  BY <1>4, RestartKeeps
<1>5. CASE DeleteReads \/ DeleteWrites
  BY <1>5 DEF DeleteReads, DeleteWrites, ServerInv, ServerTypeOK, OneHolds, RowStatus
<1>6. CASE Poll \/ \E another \in BOOLEAN : Reap(another)
  BY <1>6 DEF Poll, Reap, ServerInv, ServerTypeOK, OneHolds
<1>7. CASE UNCHANGED serverVars
  BY <1>7 DEF serverVars, ServerInv, ServerTypeOK, OneHolds
<1> QED
  BY <1>1, <1>2, <1>3, <1>4, <1>5, <1>6, <1>7 DEF ServerNext

LEMMA ServerStarts == ServerInit => ServerInv
<1> SUFFICES ASSUME ServerInit PROVE ServerInv
  OBVIOUS
<1>1. Idle \in TabState /\ Idle.pc = "idle"
  BY DEF Idle, TabState
<1>2. ServerTypeOK
  BY <1>1 DEF ServerInit, ServerTypeOK, TabState, RowStatus
<1>3. OneHolds
  BY <1>1 DEF ServerInit, OneHolds
<1> QED
  BY <1>2, <1>3 DEF ServerInv

\* Two runs never stream one download at a time while every answer arrives, and no tab is
\* about to put back a row that runs or is completed, in any of the backends, through
\* restarts, for any number of tabs and starts: the claims see to it.
THEOREM OneRunOfAnId == ServerSpec => []OneRunIfAnswered
<1>1. ServerInit => ServerInv
  BY ServerStarts
<1>2. ServerInv /\ [ServerNext]_serverVars => ServerInv'
  BY ServerStays
<1>3. ServerInv => OneRunIfAnswered
  <2> SUFFICES ASSUME ServerInv, "lost" \notin env PROVE OneRunIfAnswered
    BY DEF OneRunIfAnswered
  <2>0. \A t \in Tabs : tab[t].pc = "reverting" => Alive = {} /\ row # "completed"
    BY DEF ServerInv, OneHolds, Alive, Running, Endings
  <2>1. \A i, j \in Alive : i = j
    BY DEF ServerInv, OneHolds, Alive, Running, Endings
  <2>2. CASE Alive = {}
    BY <2>0, <2>2, FS_EmptySet DEF OneRunIfAnswered
  <2>3. CASE Alive # {}
    <3>1. PICK i : Alive = {i}
      BY <2>1, <2>3
    <3> QED
      BY <2>0, <3>1, FS_Singleton DEF OneRunIfAnswered
  <2> QED
    BY <2>2, <2>3
<1> QED
  BY <1>1, <1>2, <1>3, PTL DEF ServerSpec

\* The step that leaves a row so is one of them.
LEMMA StuckSteps ==
    ASSUME ServerInv, ServerNext, ~Stuck, Stuck'
    PROVE  \/ Restart /\ "db" \in env
           \/ \E t \in Tabs : CloseTab(t)
           \/ \E i \in StartIds : Escapes(i) \/ EndingLost(i) \/ (TestEntry(i) /\ entry \in job.blockedBy)
<1>0. /\ tab \in [Tabs -> TabState] /\ start \in [StartIds -> StartState] /\ row' = "downloading"
      /\ \A t \in Tabs : tab'[t] = Idle
      /\ \A i \in StartIds : start'[i] \in {"free", "mark"}
      /\ row = "downloading" => Attended
  BY ServerTypes DEF ServerInv, Stuck, Attended
<1>1. \A t \in Tabs, i \in StartIds : ~Claim(t, i)
  BY <1>0 DEF Claim, Idle, TabState
<1>2. ASSUME NEW t \in Tabs PROVE ~StartFails(t) /\ ~AnswerLost(t)
  BY <1>0 DEF StartFails, AnswerLost, Idle
<1>3. ASSUME NEW t \in Tabs PROVE ~RevertReads(t)
  BY <1>0 DEF RevertReads, Idle
<1>4. ASSUME NEW t \in Tabs PROVE ~RevertWrites(t)
  BY <1>0 DEF RevertWrites, Written
<1>5. UNCHANGED <<row, tab, start>> => FALSE
  BY <1>0 DEF Attended
<1>6. ~DeleteReads /\ ~DeleteWrites /\ ~Poll /\ \A another \in BOOLEAN : ~Reap(another)
  BY <1>0, <1>5 DEF DeleteReads, DeleteWrites, Poll, Reap
<1>7. ASSUME NEW i \in StartIds PROVE ~ReadRow(i) /\ ~Begin(i) /\ ~NoRow(i) /\ (TestEntry(i) => entry \in job.blockedBy)
  <2>1. \A x : start' = [start EXCEPT ![i] = x] => x \in {"free", "mark"}
    BY <1>0
  <2> QED
    BY <1>0, <2>1 DEF ReadRow, Begin, NoRow, TestEntry
<1>8. ASSUME NEW i \in StartIds
      PROVE  ~SetUp(i) /\ ~SetUpFails(i) /\ ~Chunk(i) /\ (\A ending \in Endings : ~StreamEnds(i, ending)) /\ ~WriteEnding(i)
  <2>1. \A x : start' = [start EXCEPT ![i] = x] => x \in {"free", "mark"}
    BY <1>0
  <2> QED
    BY <1>0, <1>5, <2>1 DEF SetUp, SetUpFails, Chunk, StreamEnds, WriteEnding, Written, Goes
<1>9. ASSUME NEW i \in StartIds PROVE ~Mark(i)
  <2>1. Mark(i) => /\ start[i] = "mark" /\ UNCHANGED <<row, tab>>
                   /\ \A j \in StartIds : j # i => start'[j] = start[j]
    BY <1>0 DEF Mark, Goes
  <2> QED
    BY <1>0, <2>1 DEF Attended
<1>10. Restart => "db" \in env
  BY <1>0 DEF Restart
<1> QED
  BY <1>1, <1>2, <1>3, <1>4, <1>6, <1>7, <1>8, <1>9, <1>10 DEF ServerNext, TabStep, StartStep, RunStep

\* A row is left in "downloading" with nobody at work on it in the five ways of StuckOnlyBy,
\* under any faults, for any number of tabs and starts.
THEOREM StuckInFiveWays == ServerSpec => StuckOnlyBy
<1>1. ServerInit => ServerInv
  BY ServerStarts
<1>2. ServerInv /\ [ServerNext]_serverVars => ServerInv'
  BY ServerStays
<1>3. ServerInv /\ [ServerNext]_serverVars =>
        [~Stuck /\ Stuck' =>
            \/ Restart /\ "db" \in env
            \/ \E t \in Tabs : CloseTab(t)
            \/ \E i \in StartIds : Escapes(i) \/ EndingLost(i) \/ (TestEntry(i) /\ entry \in job.blockedBy)]_serverVars
  BY StuckSteps
<1> QED
  BY <1>1, <1>2, <1>3, PTL DEF ServerSpec, StuckOnlyBy
=============================================================================

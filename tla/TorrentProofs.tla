---------------------------- MODULE TorrentProofs ---------------------------
(***************************************************************************)
(* Safety of the torrent engine for any connections, pieces, blocks and    *)
(* downloads: each piece of a running download is in one place, and what a *)
(* download delivers is whole.  And of the upload to MEGA by the other two *)
(* backends, for any files and selections: what a run still has to read is *)
(* in the store as long as the files were selected in the order of the     *)
(* torrent, a completed row means that every selected file was uploaded,   *)
(* and a last status is written over only by a late call.                  *)
(***************************************************************************)
EXTENDS TorrentEngine, MegaUpload, FiniteSetTheorems, TLAPS

-----------------------------------------------------------------------------
(* The inductive invariant                                                 *)

\* A connection with a worker belongs to the running download that took it out
\* of the session, and it has each piece under way once.
WorkersOwned ==
    \A p \in Peers :
        /\ worker[p].owner = "none" <=> Is(p, "off")
        /\ worker[p].owner # "none" =>
              p \in known \ session /\ disk[worker[p].owner].pc = "run"
        /\ worker[p].pc \in {"off", "wait", "back"} => worker[p].inflight = {}
        /\ \A x, y \in worker[p].inflight : x.piece = y.piece => x = y

\* Each piece of a running download is in one place (PieceInOnePlace, piece by
\* piece).
Placed(d) ==
    disk[d].pc = "run" => \A i \in All :
        /\ \/ i \in disk[d].queue \/ i \in PiecesOf(disk[d].results)
           \/ \E p \in Mine(d) : i \in Taken(p)
        /\ ~(i \in disk[d].queue /\ i \in PiecesOf(disk[d].results))
        /\ \A p \in Mine(d) : i \in Taken(p) =>
              /\ i \notin disk[d].queue /\ i \notin PiecesOf(disk[d].results)
              /\ \A q \in Mine(d) : i \in Taken(q) => q = p

\* What has come of a download when it starts, before it writes, and after.
ResultsCome ==
    \A d \in Disks :
        /\ disk[d].pc \in {"off", "new", "take"} => disk[d].results = {}
        /\ disk[d].pc \in {"check", "done"} => PiecesOf(disk[d].results) = All
        /\ disk[d].pc = "done" => \A x \in disk[d].results : x.have = Whole

\* A piece that was never asked for while old answers for it were due has each
\* of its blocks either in the buffer or due once.
StreamSends ==
    /\ stream.pc \in {"off", "new", "idle", "turn", "asking"} => Len(stream.sent) = stream.piece - 1
    /\ stream.pc \in {"sent", "done"} => Len(stream.sent) = Pieces
    /\ \A i \in 1 .. Len(stream.sent) : i \in late \/ stream.sent[i] = Whole
    /\ stream.pc = "asking" => stream.peer \in session
    /\ stream.pc = "asking" /\ stream.piece \notin late =>
          /\ stream.count = Cardinality(stream.have)
          /\ \A b \in Whole :
                pending[stream.peer][<<stream.piece, b>>] <= IF b \in stream.have THEN 0 ELSE 1

IInv ==
    /\ TypeOK /\ WorkersOwned /\ ResultsCome /\ StreamSends
    /\ \A d \in Disks : Placed(d)

-----------------------------------------------------------------------------
(* Types                                                                   *)

\* What the proofs need of the constants.
LEMMA ConstantsTyped ==
    /\ Pieces \in Nat /\ Pieces > 0 /\ Blocks \in Nat /\ Blocks > 0
    /\ "none" \notin Disks
BY TorrentEngineAssumption

\* Asking for a piece and the arrival of an answer keep the type of what is due.
LEMMA RequestTyped ==
    ASSUME pending \in [Peers -> [Answers -> Nat]], NEW p \in Peers, NEW i \in All, Request(p, i)
    PROVE  /\ pending' \in [Peers -> [Answers -> Nat]]
           /\ \A q \in Peers \ {p} : pending'[q] = pending[q]
           /\ \A x \in Answers : pending'[p][x] = IF x[1] = i THEN pending[p][x] + 1 ELSE pending[p][x]
<1>1. DEFINE f == [x \in Answers |-> IF x[1] = i THEN pending[p][x] + 1 ELSE pending[p][x]]
<1>2. pending' = [pending EXCEPT ![p] = f]
  BY DEF Request
<1>3. f \in [Answers -> Nat]
  OBVIOUS
<1>. HIDE DEF f
<1>4. /\ pending' \in [Peers -> [Answers -> Nat]]
      /\ \A q \in Peers \ {p} : pending'[q] = pending[q]
      /\ pending'[p] = f
  BY <1>2, <1>3
<1>. QED
  BY <1>4 DEF f

LEMMA ArrivesTyped ==
    ASSUME pending \in [Peers -> [Answers -> Nat]], NEW p \in Peers, NEW a, Arrives(p, a)
    PROVE  /\ pending' \in [Peers -> [Answers -> Nat]]
           /\ a \in Answers /\ a[1] \in All /\ a[2] \in Whole /\ a = <<a[1], a[2]>>
           /\ pending[p][a] > 0 /\ p \notin dead
           /\ \A q \in Peers \ {p} : pending'[q] = pending[q]
           /\ \A x \in Answers : pending'[p][x] = IF x = a THEN pending[p][x] - 1 ELSE pending[p][x]
<1>1. a \in Answers /\ pending[p][a] > 0 /\ p \notin dead
  BY DEF Arrives, Due
<1>2. a[1] \in All /\ a[2] \in Whole /\ a = <<a[1], a[2]>>
  BY <1>1 DEF Answers
<1>3. pending[p] \in [Answers -> Nat] /\ pending[p][a] - 1 \in Nat
  BY <1>1
<1>4. pending' = [pending EXCEPT ![p] = [pending[p] EXCEPT ![a] = pending[p][a] - 1]]
  BY DEF Arrives
<1>5. [pending[p] EXCEPT ![a] = pending[p][a] - 1] \in [Answers -> Nat]
  BY <1>1, <1>3
<1>. QED
  BY <1>1, <1>2, <1>3, <1>4, <1>5

\* The steps of a worker, of a download and of the stream keep the types.
LEMMA WorkerTyped ==
    ASSUME TypeOK, WorkersOwned, NEW p \in Peers, WorkerStep(p)
    PROVE  TypeOK'
<1>. USE ConstantsTyped DEF TypeOK
<1>1. worker[p].owner # "none" => worker[p].owner \in Disks
  BY DEF Worker
<1>2. ~Is(p, "off") => worker[p].owner \in Disks /\ p \in known
  BY <1>1 DEF WorkersOwned
<1>3. CASE Unchoked(p)
  BY <1>3, <1>2 DEF Unchoked, Is, Worker
<1>4. CASE WaitSkips(p)
  BY <1>4, ArrivesTyped DEF WaitSkips
<1>5. CASE WaitEnds(p)
  BY <1>5, <1>2, ZenonT(60) DEF WaitEnds, Is, Worker
<1>6. CASE AskFails(p)
  BY <1>6, <1>2 DEF AskFails, Is, Worker
<1>7. CASE Filled(p)
  BY <1>7, <1>2 DEF Filled, Is, Worker
<1>8. ASSUME NEW i \in All, Ask(p, i) PROVE TypeOK'
  <2>1. ~Is(p, "off") /\ worker[p].owner \in Disks
    BY <1>8, <1>2 DEF Ask, Is
  <2>2. pending' \in [Peers -> [Answers -> Nat]]
    BY <1>8, RequestTyped DEF Ask
  <2>3. Fresh(i) \in Underway
    BY DEF Fresh, Underway
  <2>4. disk' \in [Disks -> Disk]
    BY <1>8, <2>1, ZenonT(60) DEF Ask, Disk
  <2>5. worker' \in [Peers -> Worker]
    <3>1. worker[p] \in Worker /\ worker[p].inflight \cup {Fresh(i)} \subseteq Underway
      BY <2>3 DEF Worker
    <3>. DEFINE u == worker[p].inflight \cup {Fresh(i)}
                pc == IF worker[p].pc = "fill" THEN "fill" ELSE "read"
    <3>2. [worker[p] EXCEPT !.inflight = u, !.pc = pc] \in Worker
      BY <3>1 DEF Worker
    <3>3. worker' = [worker EXCEPT ![p] = [worker[p] EXCEPT !.inflight = u, !.pc = pc]]
      BY <1>8 DEF Ask
    <3>. QED
      BY <3>2, <3>3
  <2>. QED
    BY <1>8, <2>2, <2>4, <2>5 DEF Ask
<1>9. ASSUME NEW a \in Answers, OldBlock(p, a) PROVE TypeOK'
  BY <1>9, ArrivesTyped DEF OldBlock
<1>10. ASSUME NEW a \in Answers, NEW x \in worker[p].inflight, Block(p, a, x) PROVE TypeOK'
  <2>1. ~Is(p, "off") /\ worker[p].owner \in Disks
    BY <1>10, <1>2 DEF Block, Reads, Is
  <2>2. pending' \in [Peers -> [Answers -> Nat]] /\ a[2] \in Whole
    BY <1>10, ArrivesTyped DEF Block
  <2>. DEFINE y == [x EXCEPT !.count = @ + 1, !.have = @ \cup {a[2]}]
  <2>3. x \in Underway
    BY DEF Worker
  <2>. DEFINE c == x.count + 1
              h == x.have \cup {a[2]}
  <2>4. c \in Nat /\ h \in SUBSET Whole
    BY <2>2, <2>3 DEF Underway
  <2>5. y \in Underway /\ y.piece = x.piece
    <3>1. y = [x EXCEPT !.count = c, !.have = h]
      OBVIOUS
    <3>. HIDE DEF y, c, h
    <3>. QED
      BY <2>3, <2>4, <3>1 DEF Underway
  <2>. HIDE DEF y
  <2>6. CASE y.count < Blocks
    <3>1. worker' = [worker EXCEPT ![p].inflight = (@ \ {x}) \cup {y}] /\ UNCHANGED disk
      BY <1>10, <2>6 DEF Block, y
    <3>. DEFINE n == (worker[p].inflight \ {x}) \cup {y}
    <3>2. n \in SUBSET Underway
      BY <2>5 DEF Worker
    <3>3. worker' = [worker EXCEPT ![p].inflight = n]
      BY <3>1
    <3>. HIDE DEF n
    <3>4. [worker[p] EXCEPT !.inflight = n] \in Worker
      BY <3>2 DEF Worker
    <3>5. worker' \in [Peers -> Worker]
      BY <3>3, <3>4
    <3>. QED
      BY <1>10, <2>2, <3>1, <3>5 DEF Block
  <2>7. CASE ~(y.count < Blocks)
    <3>. DEFINE r == [piece |-> x.piece, have |-> y.have]
    <3>1. /\ worker' = [worker EXCEPT ![p].inflight = @ \ {x}, ![p].errors = 0, ![p].pc = "refill"]
          /\ disk' = [disk EXCEPT ![worker[p].owner].results = @ \cup {r}]
      BY <1>10, <2>7 DEF Block, y
    <3>2. r \in [piece : All, have : SUBSET Whole]
      BY <2>3, <2>5 DEF Underway
    <3>. HIDE DEF r
    <3>3. disk' \in [Disks -> Disk]
      BY <2>1, <3>1, <3>2, ZenonT(60) DEF Disk
    <3>4. worker' \in [Peers -> Worker]
      BY <3>1, ZenonT(60) DEF Worker
    <3>. QED
      BY <1>10, <2>2, <3>3, <3>4 DEF Block
  <2>. QED
    BY <2>6, <2>7
<1>11. ASSUME worker[p].pc = "read", PutsBack(p)
       PROVE  disk' \in [Disks -> Disk] /\ worker' \in [Peers -> Worker]
  <2>1. Taken(p) \subseteq All
    BY DEF Taken, Worker, Underway
  <2>. QED
    BY <1>11, <1>2, <2>1 DEF PutsBack, Is, Worker, Disk
<1>12. CASE Choke(p)
  <2>1. Nothing \in [Answers -> Nat]
    BY DEF Nothing
  <2>. QED
    BY <1>12, <1>11, <1>2, <2>1 DEF Choke, Reads, Is
<1>13. CASE Disconnects(p)
  BY <1>13, <1>11, <1>2 DEF Disconnects, Reads, Is
<1>14. CASE ReadFails(p)
  <2>1. CASE worker[p].errors + 1 >= MaxErrors
    BY <1>14, <1>11, <2>1 DEF ReadFails, Reads, Is
  <2>2. CASE ~(worker[p].errors + 1 >= MaxErrors)
    <3>1. worker' = [worker EXCEPT ![p].errors = @ + 1] /\ UNCHANGED disk
      BY <1>14, <2>2 DEF ReadFails
    <3>. DEFINE n == worker[p].errors + 1
    <3>2. n \in Nat /\ worker' = [worker EXCEPT ![p].errors = n]
      BY <3>1 DEF Worker
    <3>. HIDE DEF n
    <3>3. worker' \in [Peers -> Worker]
      BY <3>2 DEF Worker
    <3>. QED
      BY <1>14, <3>1, <3>3 DEF ReadFails
  <2>. QED
    BY <2>1, <2>2
<1>15. CASE WorkerEnds(p)
  BY <1>15 DEF WorkerEnds, Worker
<1>. QED
  BY <1>3, <1>4, <1>5, <1>6, <1>7, <1>8, <1>9, <1>10, <1>12, <1>13, <1>14, <1>15 DEF WorkerStep

LEMMA DiskTyped ==
    ASSUME TypeOK, WorkersOwned, NEW d \in Disks, DiskStep(d)
    PROVE  TypeOK'
<1>. USE ConstantsTyped DEF TypeOK
<1>1. CASE Connects(d)
  BY <1>1, ZenonT(60) DEF Connects, Disk
<1>2. CASE Take(d)
  <2>. DEFINE r == [NoWorker EXCEPT !.pc = "wait", !.owner = d]
  <2>1. r \in Worker
    BY DEF NoWorker, Worker
  <2>. HIDE DEF r
  <2>2. session # {} => worker' = [p \in Peers |-> IF p \in session THEN r ELSE worker[p]]
    BY <1>2 DEF Take, r
  <2>3. worker' \in [Peers -> Worker]
    BY <1>2, <2>1, <2>2 DEF Take
  <2>4. disk' \in [Disks -> Disk]
    BY <1>2 DEF Take, Disk
  <2>. QED
    BY <1>2, <2>3, <2>4 DEF Take
<1>3. CASE Returns(d)
  <2>1. Mine(d) \subseteq known
    BY DEF Mine, WorkersOwned
  <2>2. NoWorker \in [pc : {"off"}, owner : {"none"}, inflight : {{}}, errors : {0}]
    BY DEF NoWorker
  <2>. QED
    BY <1>3, <2>1, <2>2, SMTT(30) DEF Returns, Disk, Worker
<1>4. CASE Writes(d)
  BY <1>4 DEF Writes, Disk
<1>. QED
  BY <1>1, <1>2, <1>3, <1>4 DEF DiskStep

LEMMA StreamTyped ==
    ASSUME TypeOK, StreamSends, StreamStep
    PROVE  TypeOK'
<1>. USE ConstantsTyped DEF TypeOK
<1>1. Nothing \in [Answers -> Nat]
  BY DEF Nothing
<1>2. CASE StreamStarts
  BY <1>1, <1>2 DEF StreamStarts, Stream
<1>3. CASE StreamLocks
  <2>. DEFINE n == stream.attempt + 1
  <2>1. n \in Nat /\ stream' = [stream EXCEPT !.pc = "turn", !.tried = {}, !.attempt = n]
    BY <1>3 DEF StreamLocks, Stream
  <2>. HIDE DEF n
  <2>2. stream' \in Stream
    BY <2>1 DEF Stream
  <2>. QED
    BY <1>3, <2>2 DEF StreamLocks
<1>4. ASSUME NEW p \in Peers, StreamAsks(p) PROVE TypeOK'
  <2>1. pending' \in [Peers -> [Answers -> Nat]]
    BY <1>4, RequestTyped DEF StreamAsks, Stream
  <2>. QED
    BY <1>4, <2>1 DEF StreamAsks, Stream
<1>5. ASSUME NEW p \in Peers, StreamAskFails(p) PROVE TypeOK'
  BY <1>5 DEF StreamAskFails, Candidates, Stream
<1>6. ASSUME NEW a \in Answers, StreamBlock(a) PROVE TypeOK'
  <2>1. stream.pc = "asking" /\ stream.peer \in Peers
    BY <1>6 DEF StreamBlock, StreamSends
  <2>2. pending' \in [Peers -> [Answers -> Nat]] /\ a[2] \in Whole
    BY <1>6, <2>1, ArrivesTyped DEF StreamBlock, Stream
  <2>. DEFINE c == stream.count + 1
              h == stream.have \cup {a[2]}
              q == Append(stream.sent, h)
              i == IF stream.piece = Pieces THEN stream.piece ELSE stream.piece + 1
              pc == IF stream.piece = Pieces THEN "sent" ELSE "idle"
  <2>3. c \in Nat /\ h \in SUBSET Whole
    BY <2>2 DEF Stream
  <2>4. q \in Seq(SUBSET Whole)
    BY <2>3 DEF Stream
  <2>5. i \in All /\ pc \in {"sent", "idle"}
    BY DEF Stream, All
  <2>6. \/ stream' = stream
        \/ stream' = [stream EXCEPT !.count = c, !.have = h]
        \/ stream' = [stream EXCEPT !.count = c, !.have = h, !.sent = q, !.attempt = 0, !.piece = i, !.pc = pc]
    BY <1>6 DEF StreamBlock, Stream
  <2>. HIDE DEF c, h, q, i, pc
  <2>7. stream' \in Stream
    <3>1. [stream EXCEPT !.count = c, !.have = h] \in Stream
      BY <2>3 DEF Stream
    <3>2. [stream EXCEPT !.count = c, !.have = h, !.sent = q, !.attempt = 0, !.piece = i, !.pc = pc] \in Stream
      BY <2>3, <2>4, <2>5 DEF Stream
    <3>. QED
      BY <2>6, <3>1, <3>2
  <2>. QED
    BY <1>6, <2>2, <2>7 DEF StreamBlock
<1>7. CASE StreamPeerFails
  <2>1. stream.pc = "asking" /\ stream.peer \in known
    BY <1>7 DEF StreamPeerFails, StreamSends
  <2>. DEFINE t == stream.tried \cup {stream.peer}
  <2>2. t \subseteq Peers /\ stream' = [stream EXCEPT !.pc = "turn", !.tried = t]
    BY <1>7, <2>1 DEF StreamPeerFails, Stream
  <2>. HIDE DEF t
  <2>3. stream' \in Stream
    BY <2>2 DEF Stream
  <2>. QED
    BY <1>1, <1>7, <2>1, <2>3 DEF StreamPeerFails
<1>8. CASE StreamUnlocks
  BY <1>8 DEF StreamUnlocks, Stream
<1>9. CASE StreamUploaded
  BY <1>9 DEF StreamUploaded, Stream
<1>. QED
  BY <1>2, <1>3, <1>4, <1>5, <1>6, <1>7, <1>8, <1>9 DEF StreamStep

-----------------------------------------------------------------------------
(* What a step of a worker does to the pieces of its download               *)

KeepsPieces(p) ==
    /\ worker'[p].inflight = worker[p].inflight /\ UNCHANGED disk
    /\ worker'[p].pc \in {"wait", "back"} => worker[p].inflight = {}
TakesPiece(p, i) ==
    /\ i \in All /\ i \in Queue(p)
    /\ worker'[p].inflight = worker[p].inflight \cup {Fresh(i)} /\ worker'[p].pc \in {"fill", "read"}
    /\ disk' = [disk EXCEPT ![worker[p].owner].queue = @ \ {i}]
CountsBlock(p, x, y) ==
    /\ x \in worker[p].inflight /\ y.piece = x.piece
    /\ worker'[p].inflight = (worker[p].inflight \ {x}) \cup {y} /\ worker'[p].pc = "read"
    /\ UNCHANGED disk
SendsPiece(p, x, h) ==
    /\ x \in worker[p].inflight
    /\ worker'[p].inflight = worker[p].inflight \ {x} /\ worker'[p].pc = "refill"
    /\ disk' = [disk EXCEPT ![worker[p].owner].results = @ \cup {[piece |-> x.piece, have |-> h]}]
GivesBack(p) ==
    /\ worker'[p].inflight = {}
    /\ disk' = [disk EXCEPT ![worker[p].owner].queue = @ \cup Taken(p)]

\* A worker changes nothing but its own record, what its own connection owes,
\* and the download that owns it.
OwnOnly(p) ==
    /\ worker[p].owner \in Disks /\ worker'[p].owner = worker[p].owner
    /\ worker[p].pc # "off" /\ worker'[p].pc # "off"
    /\ \A q \in Peers \ {p} : worker'[q] = worker[q] /\ pending'[q] = pending[q]
    /\ UNCHANGED <<known, session, stream, late>>

WorkerEffect(p) ==
    /\ OwnOnly(p)
    /\ \/ KeepsPieces(p) \/ GivesBack(p)
       \/ \E i \in All : TakesPiece(p, i)
       \/ \E x, y \in Underway : CountsBlock(p, x, y)
       \/ \E x \in Underway, h \in SUBSET Whole : SendsPiece(p, x, h)

\* Each of the twelve actions of a worker has one of the five effects.
LEMMA WorkerStepEffect ==
    ASSUME TypeOK, WorkersOwned, NEW p \in Peers, WorkerStep(p)
    PROVE  WorkerEffect(p)
<1>1. worker[p] \in Worker /\ worker \in [Peers -> Worker]
  BY DEF TypeOK
<1>2. ~Is(p, "off") => worker[p].owner \in Disks
  BY <1>1 DEF WorkersOwned, Worker
<1>3. \A a \in Answers : Arrives(p, a) => \A q \in Peers \ {p} : pending'[q] = pending[q]
  BY ArrivesTyped DEF TypeOK
<1>4. CASE Unchoked(p)
  <2>1. OwnOnly(p)
    BY <1>1, <1>2, <1>4 DEF Unchoked, Is, OwnOnly, Worker
  <2>2. KeepsPieces(p)
    BY <1>1, <1>4 DEF Unchoked, KeepsPieces, Worker
  <2>. QED
    BY <2>1, <2>2 DEF WorkerEffect
<1>5. CASE WaitSkips(p)
  <2>1. OwnOnly(p)
    BY <1>2, <1>3, <1>5 DEF WaitSkips, Is, OwnOnly, Due
  <2>2. KeepsPieces(p)
    BY <1>5 DEF WaitSkips, KeepsPieces, WorkersOwned, Is
  <2>. QED
    BY <2>1, <2>2 DEF WorkerEffect
<1>6. CASE WaitEnds(p)
  <2>1. OwnOnly(p)
    BY <1>1, <1>2, <1>6 DEF WaitEnds, Is, OwnOnly, Worker
  <2>2. KeepsPieces(p)
    BY <1>1, <1>6 DEF WaitEnds, KeepsPieces, Worker, WorkersOwned, Is
  <2>. QED
    BY <2>1, <2>2 DEF WorkerEffect
<1>7. CASE AskFails(p) \/ Filled(p)
  <2>1. /\ worker' = [worker EXCEPT ![p].pc = "read"] /\ worker[p].pc \in {"fill", "refill"}
        /\ UNCHANGED <<known, session, pending, disk, stream, late>>
    BY <1>7 DEF AskFails, Filled, Is
  <2>2. OwnOnly(p)
    BY <1>1, <1>2, <2>1 DEF Is, OwnOnly, Worker
  <2>3. KeepsPieces(p)
    BY <1>1, <2>1 DEF KeepsPieces, Worker
  <2>. QED
    BY <2>2, <2>3 DEF WorkerEffect
<1>8. ASSUME NEW i \in All, Ask(p, i) PROVE WorkerEffect(p)
  <2>1. \A q \in Peers \ {p} : pending'[q] = pending[q]
    BY <1>8, RequestTyped DEF Ask, TypeOK
  <2>. DEFINE u == worker[p].inflight \cup {Fresh(i)}
              pc == IF worker[p].pc = "fill" THEN "fill" ELSE "read"
  <2>2. worker' = [worker EXCEPT ![p] = [worker[p] EXCEPT !.inflight = u, !.pc = pc]]
    BY <1>8 DEF Ask
  <2>3. pc \in {"fill", "read"}
    OBVIOUS
  <2>4. TakesPiece(p, i)
    BY <1>1, <1>8, <2>2, <2>3 DEF Ask, TakesPiece, Worker
  <2>. HIDE DEF u, pc
  <2>5. OwnOnly(p)
    BY <1>1, <1>2, <1>8, <2>1, <2>2, <2>3 DEF Ask, Is, OwnOnly, Worker
  <2>. QED
    BY <2>4, <2>5 DEF WorkerEffect
<1>9. ASSUME NEW a \in Answers, OldBlock(p, a) PROVE WorkerEffect(p)
  <2>1. OwnOnly(p)
    BY <1>2, <1>3, <1>9 DEF OldBlock, Reads, Is, OwnOnly
  <2>2. KeepsPieces(p)
    BY <1>9 DEF OldBlock, Reads, Is, KeepsPieces
  <2>. QED
    BY <2>1, <2>2 DEF WorkerEffect
<1>10. ASSUME NEW a \in Answers, NEW x \in worker[p].inflight, Block(p, a, x) PROVE WorkerEffect(p)
  <2>1. x \in Underway /\ a[2] \in Whole /\ worker[p].pc = "read"
    BY <1>1, <1>10 DEF Worker, Answers, Block, Reads, Is
  <2>. DEFINE y == [x EXCEPT !.count = @ + 1, !.have = @ \cup {a[2]}]
              h == y.have
  <2>2. y \in Underway /\ y.piece = x.piece
    <3>. DEFINE c == x.count + 1
                g == x.have \cup {a[2]}
    <3>1. c \in Nat /\ g \in SUBSET Whole
      BY <2>1 DEF Underway
    <3>2. y = [x EXCEPT !.count = c, !.have = g]
      OBVIOUS
    <3>. HIDE DEF y, c, g
    <3>. QED
      BY <2>1, <3>1, <3>2 DEF Underway
  <2>3. h \in SUBSET Whole
    BY <2>2 DEF Underway
  <2>4. \/ worker' = [worker EXCEPT ![p].inflight = (@ \ {x}) \cup {y}] /\ UNCHANGED disk
        \/ /\ worker' = [worker EXCEPT ![p].inflight = @ \ {x}, ![p].errors = 0, ![p].pc = "refill"]
           /\ disk' = [disk EXCEPT ![worker[p].owner].results = @ \cup {[piece |-> x.piece, have |-> h]}]
    BY <1>10 DEF Block
  <2>. HIDE DEF y, h
  <2>5. OwnOnly(p)
    BY <1>1, <1>2, <1>3, <1>10, <2>1, <2>4 DEF Block, Is, OwnOnly, Worker
  <2>6. CountsBlock(p, x, y) \/ SendsPiece(p, x, h)
    BY <1>1, <2>1, <2>2, <2>4 DEF CountsBlock, SendsPiece, Worker
  <2>. QED
    BY <2>1, <2>2, <2>3, <2>5, <2>6 DEF WorkerEffect
<1>11. ASSUME PutsBack(p), worker[p].pc = "read",
              \A q \in Peers \ {p} : pending'[q] = pending[q],
              UNCHANGED <<known, session, stream, late>>
       PROVE  WorkerEffect(p)
  <2>1. OwnOnly(p)
    BY <1>1, <1>2, <1>11 DEF PutsBack, Is, OwnOnly, Worker
  <2>2. GivesBack(p)
    BY <1>1, <1>11 DEF PutsBack, GivesBack, Worker
  <2>. QED
    BY <2>1, <2>2 DEF WorkerEffect
<1>12. CASE Choke(p)
  <2>1. \A q \in Peers \ {p} : pending'[q] = pending[q]
    BY <1>12 DEF Choke, TypeOK
  <2>. QED
    BY <1>11, <1>12, <2>1 DEF Choke, Reads, Is
<1>13. CASE Disconnects(p)
  BY <1>11, <1>13 DEF Disconnects, Reads, Is
<1>14. CASE ReadFails(p)
  <2>1. CASE PutsBack(p)
    BY <1>11, <1>14, <2>1 DEF ReadFails, Reads, Is
  <2>2. CASE worker' = [worker EXCEPT ![p].errors = @ + 1] /\ UNCHANGED disk
    <3>. DEFINE n == worker[p].errors + 1
    <3>1. worker' = [worker EXCEPT ![p].errors = n]
      BY <2>2
    <3>. HIDE DEF n
    <3>2. OwnOnly(p)
      BY <1>1, <1>2, <1>14, <3>1 DEF ReadFails, Reads, Is, OwnOnly, Worker
    <3>3. KeepsPieces(p)
      BY <1>1, <1>14, <2>2, <3>1 DEF ReadFails, Reads, Is, KeepsPieces, Worker
    <3>. QED
      BY <3>2, <3>3 DEF WorkerEffect
  <2>. QED
    BY <1>14, <2>1, <2>2 DEF ReadFails
<1>15. CASE WorkerEnds(p)
  <2>1. OwnOnly(p)
    BY <1>1, <1>2, <1>15 DEF WorkerEnds, Is, OwnOnly, Worker
  <2>2. KeepsPieces(p)
    BY <1>1, <1>15 DEF WorkerEnds, KeepsPieces, Worker
  <2>. QED
    BY <2>1, <2>2 DEF WorkerEffect
<1>. QED
  BY <1>4, <1>5, <1>6, <1>7, <1>8, <1>9, <1>10, <1>12, <1>13, <1>14, <1>15 DEF WorkerStep

-----------------------------------------------------------------------------
(* A step of a worker keeps the invariant                                   *)

\* A worker leaves the other downloads alone, and its own where it is.
LEMMA DownloadChanges ==
    ASSUME TypeOK, NEW p \in Peers, WorkerEffect(p), NEW d \in Disks
    PROVE  disk'[d].pc = disk[d].pc /\ (d # worker[p].owner => disk'[d] = disk[d])
<1>1. disk \in [Disks -> Disk]
  BY DEF TypeOK
<1>2. CASE KeepsPieces(p) \/ \E x, y \in Underway : CountsBlock(p, x, y)
  BY <1>2 DEF KeepsPieces, CountsBlock
<1>3. CASE GivesBack(p)
  BY <1>1, <1>3 DEF GivesBack, Disk
<1>4. CASE \E i \in All : TakesPiece(p, i)
  BY <1>1, <1>4 DEF TakesPiece, Disk
<1>5. CASE \E x \in Underway, h \in SUBSET Whole : SendsPiece(p, x, h)
  BY <1>1, <1>5 DEF SendsPiece, Disk
<1>. QED
  BY <1>2, <1>3, <1>4, <1>5 DEF WorkerEffect

\* How the pieces of connection p change.
LEMMA TakenChanges ==
    ASSUME TypeOK, WorkersOwned, TypeOK', NEW p \in Peers
    PROVE  /\ \A q \in Peers : Taken(q) \subseteq All
           /\ \A q \in Peers : worker'[q].inflight = worker[q].inflight => Taken(q)' = Taken(q)
           /\ worker'[p].inflight = {} => Taken(p)' = {}
           /\ \A i \in All : TakesPiece(p, i) => Taken(p)' = Taken(p) \cup {i}
           /\ \A x, y \in Underway : CountsBlock(p, x, y) => Taken(p)' = Taken(p)
           /\ \A x \in Underway, h \in SUBSET Whole :
                 SendsPiece(p, x, h) => Taken(p)' = Taken(p) \ {x.piece} /\ x.piece \in Taken(p)
<1>1. \A q \in Peers : Taken(q) \subseteq All
  BY DEF Taken, TypeOK, Worker, Underway
<1>2. \A q \in Peers : worker'[q].inflight = worker[q].inflight => Taken(q)' = Taken(q)
  BY DEF Taken
<1>3. worker'[p].inflight = {} => Taken(p)' = {}
  BY DEF Taken
<1>4. ASSUME NEW i \in All, TakesPiece(p, i) PROVE Taken(p)' = Taken(p) \cup {i}
  <2>1. Fresh(i).piece = i /\ worker'[p].inflight = worker[p].inflight \cup {Fresh(i)}
    BY <1>4 DEF TakesPiece, Fresh
  <2>2. \A j : j \in Taken(p)' <=> j \in Taken(p) \/ j = i
    BY <2>1 DEF Taken
  <2>. QED
    BY <2>2
<1>5. ASSUME NEW x \in Underway, NEW y \in Underway, CountsBlock(p, x, y) PROVE Taken(p)' = Taken(p)
  BY <1>5 DEF CountsBlock, Taken
<1>6. ASSUME NEW x \in Underway, NEW h \in SUBSET Whole, SendsPiece(p, x, h)
      PROVE  Taken(p)' = Taken(p) \ {x.piece} /\ x.piece \in Taken(p)
  BY <1>6 DEF SendsPiece, Taken, WorkersOwned
<1>. QED
  BY <1>1, <1>2, <1>3, <1>4, <1>5, <1>6

\* A piece that is asked for was in the queue, so it is not under way yet.
LEMMA WorkerKeepsOwned ==
    ASSUME TypeOK, WorkersOwned, TypeOK', NEW p \in Peers, WorkerEffect(p),
           Placed(worker[p].owner)
    PROVE  WorkersOwned'
<1>1. OwnOnly(p)
  BY DEF WorkerEffect
<1>2. \A d \in Disks : disk'[d].pc = disk[d].pc
  BY DownloadChanges
<1>3. ASSUME NEW q \in Peers, q # p
      PROVE  /\ worker'[q].owner = "none" <=> worker'[q].pc = "off"
             /\ worker'[q].owner # "none" => q \in known' \ session' /\ disk'[worker'[q].owner].pc = "run"
             /\ worker'[q].pc \in {"off", "wait", "back"} => worker'[q].inflight = {}
             /\ \A x, y \in worker'[q].inflight : x.piece = y.piece => x = y
  BY <1>1, <1>2, <1>3 DEF OwnOnly, WorkersOwned, Is, TypeOK, Worker
<1>4. /\ worker'[p].owner # "none" /\ worker'[p].pc # "off"
      /\ p \in known' \ session' /\ disk'[worker'[p].owner].pc = "run"
  BY <1>1, <1>2, ConstantsTyped DEF OwnOnly, WorkersOwned, Is
<1>5. worker'[p].pc \in {"wait", "back"} => worker'[p].inflight = {}
  BY DEF WorkerEffect, KeepsPieces, TakesPiece, CountsBlock, SendsPiece, GivesBack
<1>6. \A x, y \in worker'[p].inflight : x.piece = y.piece => x = y
  <2>1. ASSUME NEW i \in All, TakesPiece(p, i) PROVE \A x \in worker[p].inflight : x.piece # i
    <3>1. i \notin Taken(p)
      BY <1>1, <2>1, ConstantsTyped DEF Placed, TakesPiece, Queue, Mine, OwnOnly, WorkersOwned
    <3>. QED
      BY <3>1 DEF Taken
  <2>2. CASE \E i \in All : TakesPiece(p, i)
    <3>1. PICK i \in All : TakesPiece(p, i)
      BY <2>2
    <3>2. /\ Fresh(i).piece = i /\ worker'[p].inflight = worker[p].inflight \cup {Fresh(i)}
          /\ \A x \in worker[p].inflight : x.piece # i
      BY <2>1, <3>1 DEF TakesPiece, Fresh
    <3>. QED
      BY <3>2 DEF WorkersOwned
  <2>3. CASE \E x, y \in Underway : CountsBlock(p, x, y)
    BY <2>3 DEF CountsBlock, WorkersOwned
  <2>. QED
    BY <2>2, <2>3 DEF WorkerEffect, KeepsPieces, SendsPiece, GivesBack, WorkersOwned
<1>. QED
  BY <1>3, <1>4, <1>5, <1>6 DEF WorkersOwned, Is

\* A piece moves from one place to another, for the download that owns the
\* worker; the other downloads keep theirs.
LEMMA WorkerKeepsPlaced ==
    ASSUME TypeOK, WorkersOwned, TypeOK', NEW p \in Peers, WorkerEffect(p),
           NEW d \in Disks, Placed(d)
    PROVE  Placed(d)'
<1>1. OwnOnly(p)
  BY DEF WorkerEffect
<1>2. \A q \in Peers : worker'[q].owner = worker[q].owner
  BY <1>1 DEF OwnOnly
<1>3. Mine(d)' = Mine(d)
  BY <1>2 DEF Mine
<1>4. \A q \in Peers \ {p} : Taken(q)' = Taken(q)
  BY <1>1 DEF OwnOnly, Taken
<1>5. CASE d # worker[p].owner
  <2>1. disk'[d] = disk[d]
    BY <1>5, DownloadChanges
  <2>2. p \notin Mine(d)
    BY <1>5 DEF Mine
  <2>3. \A q \in Mine(d) : Taken(q)' = Taken(q)
    BY <1>4, <2>2 DEF Mine
  <2>. QED
    BY <1>3, <2>1, <2>3 DEF Placed, PiecesOf
<1>6. CASE d = worker[p].owner
  <2>1. disk'[d].pc = "run" /\ disk[d].pc = "run" /\ p \in Mine(d) /\ Mine(d) \subseteq Peers
    BY <1>1, <1>6, ConstantsTyped, DownloadChanges DEF OwnOnly, WorkersOwned, Mine
  <2>. DEFINE Q == disk[d].queue
              R == PiecesOf(disk[d].results)
              QN == disk'[d].queue
              RN == PiecesOf(disk'[d].results)
  <2>2. \/ Taken(p)' = Taken(p) /\ QN = Q /\ RN = R
        \/ Taken(p)' = {} /\ QN = Q \cup Taken(p) /\ RN = R
        \/ \E i \in Q : Taken(p)' = Taken(p) \cup {i} /\ QN = Q \ {i} /\ RN = R
        \/ \E i \in Taken(p) : Taken(p)' = Taken(p) \ {i} /\ QN = Q /\ RN = R \cup {i}
    <3>1. CASE KeepsPieces(p)
      BY <3>1, TakenChanges DEF KeepsPieces
    <3>2. CASE GivesBack(p)
      <4>1. disk'[d].queue = disk[d].queue \cup Taken(p) /\ disk'[d].results = disk[d].results
        BY <1>6, <3>2 DEF GivesBack, TypeOK, Disk
      <4>. QED
        BY <3>2, <4>1, TakenChanges DEF GivesBack
    <3>3. ASSUME NEW i \in All, TakesPiece(p, i)
          PROVE  i \in Q /\ Taken(p)' = Taken(p) \cup {i} /\ QN = Q \ {i} /\ RN = R
      <4>1. disk'[d].queue = disk[d].queue \ {i} /\ disk'[d].results = disk[d].results
        BY <1>6, <3>3 DEF TakesPiece, TypeOK, Disk
      <4>. QED
        BY <1>6, <3>3, <4>1, TakenChanges DEF TakesPiece, Queue
    <3>4. ASSUME NEW x \in Underway, NEW y \in Underway, CountsBlock(p, x, y)
          PROVE  Taken(p)' = Taken(p) /\ QN = Q /\ RN = R
      BY <3>4, TakenChanges DEF CountsBlock
    <3>5. ASSUME NEW x \in Underway, NEW h \in SUBSET Whole, SendsPiece(p, x, h)
          PROVE  \E i \in Taken(p) : Taken(p)' = Taken(p) \ {i} /\ QN = Q /\ RN = R \cup {i}
      <4>1. /\ disk'[d].queue = disk[d].queue
            /\ disk'[d].results = disk[d].results \cup {[piece |-> x.piece, have |-> h]}
        BY <1>6, <3>5 DEF SendsPiece, TypeOK, Disk
      <4>2. RN = R \cup {x.piece}
        <5>. DEFINE r == [piece |-> x.piece, have |-> h]
        <5>1. r.piece = x.piece /\ disk'[d].results = disk[d].results \cup {r}
          BY <4>1
        <5>. HIDE DEF r
        <5>2. \A j : j \in RN <=> j \in R \/ j = x.piece
          BY <5>1 DEF PiecesOf
        <5>. QED
          BY <5>2
      <4>. QED
        BY <3>5, <4>1, <4>2, TakenChanges
    <3>. QED
      BY <3>1, <3>2, <3>3, <3>4, <3>5 DEF WorkerEffect
  <2>3. SUFFICES ASSUME NEW i \in All
                 PROVE  /\ i \in QN \/ i \in RN \/ \E q \in Mine(d) : i \in Taken(q)'
                        /\ ~(i \in QN /\ i \in RN)
                        /\ \A q \in Mine(d) : i \in Taken(q)' =>
                              /\ i \notin QN /\ i \notin RN
                              /\ \A r \in Mine(d) : i \in Taken(r)' => r = q
    BY <1>3 DEF Placed
  <2>4. /\ i \in Q \/ i \in R \/ \E q \in Mine(d) : i \in Taken(q)
        /\ ~(i \in Q /\ i \in R)
        /\ \A q \in Mine(d) : i \in Taken(q) =>
              /\ i \notin Q /\ i \notin R
              /\ \A r \in Mine(d) : i \in Taken(r) => r = q
    BY <2>1 DEF Placed
  <2>. HIDE DEF Q, R, QN, RN
  <2>. QED
    BY <1>4, <2>1, <2>2, <2>4
<1>. QED
  BY <1>5, <1>6

\* A worker runs for a running download, on a connection that no stream asks.
LEMMA WorkerKeepsRest ==
    ASSUME TypeOK, WorkersOwned, ResultsCome, StreamSends, NEW p \in Peers, WorkerEffect(p)
    PROVE  ResultsCome' /\ StreamSends'
<1>1. OwnOnly(p)
  BY DEF WorkerEffect
<1>2. p \notin session /\ disk[worker[p].owner].pc = "run"
  BY <1>1, ConstantsTyped DEF OwnOnly, WorkersOwned
<1>3. \A d \in Disks : d # worker[p].owner => disk'[d] = disk[d]
  BY DownloadChanges
<1>4. disk'[worker[p].owner].pc = "run"
  BY <1>1, <1>2, DownloadChanges DEF OwnOnly
<1>5. ResultsCome'
  BY <1>1, <1>3, <1>4 DEF ResultsCome, OwnOnly
<1>6. stream.pc = "asking" => stream.peer \in Peers \ {p}
  BY <1>2 DEF StreamSends, TypeOK
<1>7. StreamSends'
  BY <1>1, <1>6 DEF StreamSends, OwnOnly
<1>. QED
  BY <1>5, <1>7

-----------------------------------------------------------------------------
(* A step of a download, or of the stream, keeps the invariant              *)

\* The stream takes no connection out of the session and touches no download.
LEMMA StreamKeepsOthers ==
    ASSUME WorkersOwned, ResultsCome, StreamStep
    PROVE  /\ UNCHANGED <<known, session, disk, worker>>
           /\ WorkersOwned' /\ ResultsCome'
           /\ \A d \in Disks : Placed(d) => Placed(d)'
<1>1. UNCHANGED <<known, session, disk, worker>>
  BY DEF StreamStep, StreamStarts, StreamLocks, StreamAsks, StreamAskFails, StreamBlock,
         StreamPeerFails, StreamUnlocks, StreamUploaded
<1>. QED
  BY <1>1 DEF WorkersOwned, ResultsCome, Placed, Is, Mine, Taken, PiecesOf

\* The mutual exclusion of the lock: a stream that asks has its connection in
\* the session, and downloads to the disk do not touch it.
LEMMA DiskKeepsStream ==
    ASSUME TypeOK, StreamSends, NEW d \in Disks, DiskStep(d)
    PROVE  StreamSends'
<1>1. UNCHANGED <<stream, late, pending>>
  BY DEF DiskStep, Connects, Take, Returns, Writes
<1>2. stream.pc = "asking" => UNCHANGED session
  BY DEF DiskStep, Connects, Take, Returns, Writes, Unlocked
<1>. QED
  BY <1>1, <1>2 DEF StreamSends

\* A download takes connections that nobody has and returns its own.
LEMMA DiskKeepsOthers ==
    ASSUME TypeOK, WorkersOwned, ResultsCome, NEW d \in Disks, DiskStep(d)
    PROVE  /\ WorkersOwned' /\ ResultsCome'
           /\ \A e \in Disks : Placed(e) => Placed(e)'
<1>1. \A e \in Disks \ {d} : disk'[e] = disk[e]
  BY DEF DiskStep, Connects, Take, Returns, Writes, TypeOK
<1>2. ASSUME UNCHANGED worker, NEW e \in Disks, e # d, Placed(e)
      PROVE  Placed(e)'
  BY <1>1, <1>2 DEF Placed, Mine, Taken
<1>3. CASE Connects(d)
  <2>1. /\ disk'[d].pc = "take" /\ disk'[d].results = disk[d].results /\ disk[d].pc = "new"
        /\ UNCHANGED worker
    BY <1>3 DEF Connects, TypeOK, Disk
  <2>2. WorkersOwned'
    <3>1. \A p \in Peers : p \in known \ session => p \in known' \ session'
      BY <1>3 DEF Connects, TypeOK
    <3>2. \A p \in Peers : worker[p].owner # "none" => worker[p].owner # d
      BY <2>1 DEF WorkersOwned
    <3>3. \A p \in Peers : worker[p].owner # "none" => disk'[worker[p].owner].pc = "run"
      BY <1>1, <3>2 DEF WorkersOwned, TypeOK, Worker
    <3>. QED
      BY <2>1, <3>1, <3>3 DEF WorkersOwned, Is
  <2>3. ResultsCome'
    BY <1>1, <2>1 DEF ResultsCome
  <2>. QED
    BY <1>2, <2>1, <2>2, <2>3 DEF Placed
<1>4. CASE Take(d) /\ session = {}
  <2>1. disk'[d].pc = "failed" /\ disk[d].pc = "take" /\ UNCHANGED <<worker, known, session>>
    BY <1>4 DEF Take, TypeOK, Disk
  <2>2. WorkersOwned'
    BY <1>1, <2>1 DEF WorkersOwned, Is, TypeOK, Worker
  <2>3. ResultsCome'
    BY <1>1, <2>1 DEF ResultsCome
  <2>. QED
    BY <1>2, <2>1, <2>2, <2>3 DEF Placed
<1>5. CASE Take(d) /\ session # {}
  <2>. DEFINE r == [NoWorker EXCEPT !.pc = "wait", !.owner = d]
  <2>1. r.pc = "wait" /\ r.owner = d /\ r.inflight = {}
    BY DEF NoWorker
  <2>2. /\ worker' = [p \in Peers |-> IF p \in session THEN r ELSE worker[p]]
        /\ disk'[d] = [disk[d] EXCEPT !.pc = "run", !.queue = All]
        /\ disk[d].pc = "take" /\ session' = {} /\ UNCHANGED known
    BY <1>5 DEF Take, TypeOK
  <2>. HIDE DEF r
  <2>3. disk'[d].pc = "run" /\ disk'[d].queue = All /\ disk'[d].results = {}
    BY <2>2 DEF TypeOK, Disk, ResultsCome
  <2>4. \A p \in Peers : worker[p].owner # d
    BY <2>2, ConstantsTyped DEF WorkersOwned
  <2>5. \A p \in session : p \in Peers /\ worker[p].owner = "none"
    BY DEF WorkersOwned, TypeOK
  <2>6. WorkersOwned'
    <3>. SUFFICES ASSUME NEW p \in Peers
                  PROVE  /\ worker'[p].owner = "none" <=> worker'[p].pc = "off"
                         /\ worker'[p].owner # "none" =>
                               p \in known' \ session' /\ disk'[worker'[p].owner].pc = "run"
                         /\ worker'[p].pc \in {"off", "wait", "back"} => worker'[p].inflight = {}
                         /\ \A x, y \in worker'[p].inflight : x.piece = y.piece => x = y
      BY DEF WorkersOwned, Is
    <3>1. CASE p \in session
      BY <2>1, <2>2, <2>3, <3>1, ConstantsTyped DEF TypeOK
    <3>2. CASE p \notin session
      BY <1>1, <2>2, <2>4, <3>2 DEF WorkersOwned, Is, TypeOK, Worker
    <3>. QED
      BY <3>1, <3>2
  <2>7. ResultsCome'
    BY <1>1, <2>3 DEF ResultsCome
  <2>8. Placed(d)'
    <3>1. \A p \in Peers : worker'[p].owner = d => worker'[p].inflight = {}
      BY <2>1, <2>2, <2>4
    <3>2. \A p \in Mine(d)' : Taken(p)' = {}
      BY <3>1 DEF Mine, Taken
    <3>3. PiecesOf(disk'[d].results) = {}
      BY <2>3 DEF PiecesOf
    <3>. QED
      BY <2>3, <3>2, <3>3 DEF Placed
  <2>9. ASSUME NEW e \in Disks, e # d, Placed(e) PROVE Placed(e)'
    <3>1. Mine(e)' = Mine(e)
      <4>1. \A p \in Peers : worker'[p].owner = e <=> worker[p].owner = e
        BY <2>1, <2>2, <2>5, <2>9, ConstantsTyped
      <4>. QED
        BY <4>1 DEF Mine
    <3>2. \A p \in Mine(e) : Taken(p)' = Taken(p)
      <4>1. \A p \in Mine(e) : p \in Peers /\ p \notin session
        BY <2>5, <2>9, ConstantsTyped DEF Mine
      <4>. QED
        BY <2>2, <4>1 DEF Taken
    <3>. QED
      BY <1>1, <2>9, <3>1, <3>2 DEF Placed
  <2>. QED
    BY <2>6, <2>7, <2>8, <2>9
<1>6. CASE Returns(d)
  <2>1. /\ disk[d].pc = "run" /\ session' = Mine(d) /\ UNCHANGED known
        /\ worker' = [p \in Peers |-> IF worker[p].owner = d THEN NoWorker ELSE worker[p]]
        /\ \A p \in Mine(d) : worker[p].pc = "back"
    BY <1>6 DEF Returns, Is
  <2>2. /\ disk'[d].pc = IF PiecesOf(disk[d].results) = All THEN "check" ELSE "failed"
        /\ disk'[d].results = disk[d].results
    BY <1>6 DEF Returns, TypeOK, Disk
  <2>3. NoWorker.pc = "off" /\ NoWorker.owner = "none" /\ NoWorker.inflight = {}
    BY DEF NoWorker
  <2>4. WorkersOwned'
    <3>. SUFFICES ASSUME NEW p \in Peers
                  PROVE  /\ worker'[p].owner = "none" <=> worker'[p].pc = "off"
                         /\ worker'[p].owner # "none" =>
                               p \in known' \ session' /\ disk'[worker'[p].owner].pc = "run"
                         /\ worker'[p].pc \in {"off", "wait", "back"} => worker'[p].inflight = {}
                         /\ \A x, y \in worker'[p].inflight : x.piece = y.piece => x = y
      BY DEF WorkersOwned, Is
    <3>1. CASE worker[p].owner = d
      BY <2>1, <2>3, <3>1
    <3>2. CASE worker[p].owner # d
      BY <1>1, <2>1, <3>2 DEF WorkersOwned, Is, TypeOK, Worker, Mine
    <3>. QED
      BY <3>1, <3>2
  <2>5. ResultsCome'
    BY <1>1, <2>2 DEF ResultsCome
  <2>6. ASSUME NEW e \in Disks, e # d, Placed(e) PROVE Placed(e)'
    <3>1. \A p \in Peers : worker'[p].owner = e <=> worker[p].owner = e
      BY <2>1, <2>3, <2>6, ConstantsTyped
    <3>2. Mine(e)' = Mine(e)
      BY <3>1 DEF Mine
    <3>3. \A p \in Mine(e) : Taken(p)' = Taken(p)
      BY <2>1, <2>6 DEF Mine, Taken
    <3>. QED
      BY <1>1, <2>6, <3>2, <3>3 DEF Placed
  <2>. QED
    BY <2>2, <2>4, <2>5, <2>6 DEF Placed
<1>7. CASE Writes(d)
  <2>1. /\ UNCHANGED <<worker, known, session>> /\ disk[d].pc = "check"
        /\ disk'[d].results = disk[d].results /\ disk'[d].pc \in {"done", "failed"}
        /\ disk'[d].pc = "done" => \A x \in disk[d].results : x.have = Whole
    BY <1>7 DEF Writes, TypeOK, Disk
  <2>2. WorkersOwned'
    BY <1>1, <2>1 DEF WorkersOwned, Is, TypeOK, Worker
  <2>3. ResultsCome'
    BY <1>1, <2>1 DEF ResultsCome
  <2>. QED
    BY <1>2, <2>1, <2>2, <2>3 DEF Placed
<1>. QED
  BY <1>3, <1>4, <1>5, <1>6, <1>7 DEF DiskStep

\* A set of as many blocks as a piece has is the whole piece.
LEMMA WholeByCount ==
    ASSUME NEW S \in SUBSET Whole, Cardinality(S) >= Blocks
    PROVE  S = Whole
<1>1. IsFiniteSet(Whole) /\ Cardinality(Whole) = Blocks
  BY ConstantsTyped, FS_Interval DEF Whole
<1>2. IsFiniteSet(S) /\ Cardinality(S) \in Nat
  BY <1>1, FS_Subset, FS_CardinalityType
<1>. QED
  BY <1>1, <1>2, FS_Subset, ConstantsTyped

\* What the stream counts is what it has, unless an old answer was due.
LEMMA StreamKeepsSent ==
    ASSUME TypeOK, StreamSends, StreamStep
    PROVE  StreamSends'
<1>0. stream \in Stream /\ stream.sent \in Seq(SUBSET Whole) /\ stream.piece \in All
  BY DEF TypeOK, Stream
<1>1. ASSUME stream' = [stream EXCEPT !.pc = stream'.pc, !.tried = stream'.tried, !.attempt = stream'.attempt],
             stream'.pc # "asking", UNCHANGED late,
             stream'.pc \in {"idle", "turn"} => stream.pc \in {"new", "idle", "turn", "asking"},
             stream'.pc = "done" => stream.pc = "sent",
             stream'.pc \in {"idle", "turn", "done", "failed"}
      PROVE  StreamSends'
  <2>1. stream'.sent = stream.sent /\ stream'.piece = stream.piece
    BY <1>0, <1>1 DEF Stream
  <2>. QED
    BY <1>1, <2>1 DEF StreamSends
<1>2. CASE StreamStarts
  BY <1>0, <1>1, <1>2 DEF StreamStarts, Stream
<1>3. CASE StreamLocks
  <2>. DEFINE n == stream.attempt + 1
  <2>1. stream' = [stream EXCEPT !.pc = "turn", !.tried = {}, !.attempt = n]
    BY <1>3 DEF StreamLocks
  <2>. HIDE DEF n
  <2>. QED
    BY <1>0, <1>1, <1>3, <2>1 DEF StreamLocks, Stream
<1>4. ASSUME NEW p \in Peers, StreamAskFails(p) PROVE StreamSends'
  BY <1>0, <1>1, <1>4 DEF StreamAskFails, Stream
<1>5. CASE StreamPeerFails
  BY <1>0, <1>1, <1>5 DEF StreamPeerFails, Stream
<1>6. CASE StreamUnlocks
  BY <1>0, <1>1, <1>6 DEF StreamUnlocks, Stream
<1>7. CASE StreamUploaded
  BY <1>0, <1>1, <1>7 DEF StreamUploaded, Stream
<1>8. ASSUME NEW p \in Peers, StreamAsks(p) PROVE StreamSends'
  <2>1. /\ stream'.pc = "asking" /\ stream'.peer = p /\ stream'.count = 0 /\ stream'.have = {}
        /\ stream'.sent = stream.sent /\ stream'.piece = stream.piece
        /\ stream.pc = "turn" /\ p \in session /\ session' = session
    BY <1>0, <1>8 DEF StreamAsks, Candidates, Stream
  <2>2. late \subseteq late'
    BY <1>8 DEF StreamAsks
  <2>3. ASSUME stream'.piece \notin late', NEW b \in Whole
        PROVE  pending'[p][<<stream.piece, b>>] <= 1
    <3>. DEFINE x == <<stream.piece, b>>
    <3>1. x \in Answers /\ x[1] = stream.piece
      BY <1>0 DEF Answers
    <3>2. ~\E a \in Due(p) : a[1] = stream.piece
      BY <1>8, <2>1, <2>3 DEF StreamAsks
    <3>3. pending[p][x] = 0
      BY <3>1, <3>2 DEF Due, TypeOK
    <3>4. pending'[p][x] = pending[p][x] + 1
      BY <1>0, <1>8, <3>1, RequestTyped DEF StreamAsks, TypeOK
    <3>. QED
      BY <3>3, <3>4
  <2>4. Cardinality({}) = 0
    BY FS_EmptySet
  <2>. QED
    BY <2>1, <2>2, <2>3, <2>4 DEF StreamSends
<1>9. ASSUME NEW a \in Answers, StreamBlock(a) PROVE StreamSends'
  <2>1. stream.pc = "asking" /\ Arrives(stream.peer, a) /\ stream.peer \in Peers /\ stream.peer \in session
    BY <1>9 DEF StreamBlock, StreamSends, TypeOK
  <2>2. /\ a[1] \in All /\ a[2] \in Whole /\ a = <<a[1], a[2]>> /\ pending[stream.peer][a] > 0
        /\ \A x \in Answers : pending'[stream.peer][x] =
                               IF x = a THEN pending[stream.peer][x] - 1 ELSE pending[stream.peer][x]
    BY <2>1, ArrivesTyped DEF TypeOK
  <2>3. /\ pending[stream.peer] \in [Answers -> Nat] /\ UNCHANGED <<session, late>>
        /\ \A b \in Whole : <<stream.piece, b>> \in Answers
    BY <1>0, <1>9, <2>1 DEF StreamBlock, TypeOK, Answers
  <2>4. CASE a[1] # stream.piece
    <3>1. stream' = stream
      BY <1>9, <2>4 DEF StreamBlock
    <3>2. \A b \in Whole : pending'[stream.peer][<<stream.piece, b>>] = pending[stream.peer][<<stream.piece, b>>]
      BY <2>2, <2>3, <2>4
    <3>. QED
      BY <2>1, <2>3, <3>1, <3>2 DEF StreamSends
  <2>5. CASE a[1] = stream.piece
    <3>. DEFINE c == stream.count + 1
                h == stream.have \cup {a[2]}
                q == Append(stream.sent, h)
                i == IF stream.piece = Pieces THEN stream.piece ELSE stream.piece + 1
                pc == IF stream.piece = Pieces THEN "sent" ELSE "idle"
    <3>1. c \in Nat /\ h \in SUBSET Whole /\ stream.have \in SUBSET Whole
      BY <1>0, <2>2 DEF Stream
    <3>2. stream.piece \notin late =>
             /\ a[2] \notin stream.have /\ c = Cardinality(h)
             /\ \A b \in Whole : pending'[stream.peer][<<stream.piece, b>>] <= IF b \in h THEN 0 ELSE 1
      <4>1. SUFFICES ASSUME stream.piece \notin late
                     PROVE  /\ a[2] \notin stream.have /\ c = Cardinality(h)
                            /\ \A b \in Whole : pending'[stream.peer][<<stream.piece, b>>] <= IF b \in h THEN 0 ELSE 1
        OBVIOUS
      <4>2. /\ stream.count = Cardinality(stream.have)
            /\ \A b \in Whole : pending[stream.peer][<<stream.piece, b>>] <= IF b \in stream.have THEN 0 ELSE 1
        BY <2>1, <4>1 DEF StreamSends
      <4>3. a[2] \notin stream.have
        BY <2>2, <2>3, <2>5, <4>2
      <4>4. IsFiniteSet(stream.have)
        <5>1. IsFiniteSet(Whole)
          BY ConstantsTyped, FS_Interval DEF Whole
        <5>. QED
          BY <3>1, <5>1, FS_Subset
      <4>5. c = Cardinality(h)
        BY <4>2, <4>3, <4>4, FS_AddElement
      <4>6. ASSUME NEW b \in Whole
            PROVE  pending'[stream.peer][<<stream.piece, b>>] <= IF b \in h THEN 0 ELSE 1
        <5>1. CASE b = a[2]
          <6>1. pending[stream.peer][a] <= 1 /\ pending[stream.peer][a] \in Nat
            BY <2>2, <2>3, <2>5, <4>2, <4>3
          <6>2. <<stream.piece, b>> = a
            BY <2>2, <2>5, <5>1
          <6>3. pending'[stream.peer][a] = pending[stream.peer][a] - 1
            BY <2>2
          <6>. QED
            BY <5>1, <6>1, <6>2, <6>3
        <5>2. CASE b # a[2]
          <6>1. <<stream.piece, b>> # a
            BY <2>2, <5>2
          <6>2. pending'[stream.peer][<<stream.piece, b>>] = pending[stream.peer][<<stream.piece, b>>]
            BY <2>2, <2>3, <6>1
          <6>. QED
            BY <4>2, <5>2, <6>2
        <5>. QED
          BY <5>1, <5>2
      <4>. QED
        BY <4>3, <4>5, <4>6
    <3>3. CASE c < Blocks
      <4>1. stream' = [stream EXCEPT !.count = c, !.have = h]
        BY <1>9, <2>5, <3>3 DEF StreamBlock, Stream
      <4>. HIDE DEF c, h
      <4>2. /\ stream'.pc = stream.pc /\ stream'.piece = stream.piece /\ stream'.peer = stream.peer
            /\ stream'.count = c /\ stream'.have = h /\ stream'.sent = stream.sent
        BY <1>0, <4>1 DEF Stream
      <4>. QED
        BY <2>1, <2>3, <3>2, <4>2 DEF StreamSends
    <3>4. CASE ~(c < Blocks)
      <4>1. stream' = [stream EXCEPT !.count = c, !.have = h, !.sent = q, !.attempt = 0, !.piece = i, !.pc = pc]
        BY <1>9, <2>5, <3>4 DEF StreamBlock, Stream
      <4>2. stream.piece \notin late => h = Whole
        BY <3>1, <3>2, <3>4, WholeByCount, ConstantsTyped
      <4>3. /\ q \in Seq(SUBSET Whole) /\ Len(q) = Len(stream.sent) + 1 /\ q[Len(q)] = h
            /\ \A j \in 1 .. Len(stream.sent) : q[j] = stream.sent[j]
        BY <1>0, <3>1
      <4>. HIDE DEF c, h, q
      <4>4. stream'.pc = pc /\ stream'.piece = i /\ stream'.sent = q
        BY <1>0, <4>1 DEF Stream
      <4>5. Len(stream.sent) = stream.piece - 1 /\ Len(q) = stream.piece
        BY <1>0, <2>1, <4>3, ConstantsTyped DEF StreamSends, All
      <4>6. \A j \in 1 .. Len(q) : j \in late \/ q[j] = Whole
        BY <1>0, <4>2, <4>3, <4>5 DEF StreamSends, All
      <4>. QED
        BY <1>0, <2>3, <4>4, <4>5, <4>6, ConstantsTyped DEF StreamSends, All
    <3>. QED
      BY <3>3, <3>4
  <2>. QED
    BY <2>4, <2>5
<1>. QED
  BY <1>2, <1>3, <1>4, <1>5, <1>6, <1>7, <1>8, <1>9 DEF StreamStep

-----------------------------------------------------------------------------
(* The invariant                                                            *)

\* The invariant holds initially and is inductive.
LEMMA InitIInv == Init => IInv
<1>. SUFFICES ASSUME Init PROVE IInv
  OBVIOUS
<1>1. PICK W \in SUBSET Disks :
         disk = [d \in Disks |-> [pc |-> IF d \in W THEN "new" ELSE "off", queue |-> {}, results |-> {}]]
  BY DEF Init
<1>2. \A d \in Disks : disk[d].pc \in {"new", "off"} /\ disk[d].results = {} /\ disk[d].queue = {}
  BY <1>1
<1>3. PICK pc \in {"off", "new"} :
         stream = [pc |-> pc, piece |-> 1, attempt |-> 0, tried |-> {}, peer |-> "none",
                   count |-> 0, have |-> {}, sent |-> <<>>]
  BY DEF Init
<1>4. worker = [p \in Peers |-> NoWorker] /\ session = known /\ known \subseteq Peers
  BY DEF Init
<1>5. NoWorker = [pc |-> "off", owner |-> "none", inflight |-> {}, errors |-> 0]
  BY DEF NoWorker
<1>6. TypeOK
  <2>1. disk \in [Disks -> Disk]
    BY <1>1 DEF Disk
  <2>2. worker \in [Peers -> Worker]
    BY <1>4, <1>5 DEF Worker
  <2>3. stream \in Stream
    BY <1>3, ConstantsTyped DEF Stream, All
  <2>4. pending \in [Peers -> [Answers -> Nat]]
    BY DEF Init, Nothing
  <2>. QED
    BY <1>4, <2>1, <2>2, <2>3, <2>4 DEF Init, TypeOK
<1>7. WorkersOwned
  BY <1>4, <1>5 DEF WorkersOwned, Is
<1>8. ResultsCome
  BY <1>2 DEF ResultsCome, PiecesOf
<1>9. StreamSends
  BY <1>3 DEF StreamSends
<1>10. \A d \in Disks : Placed(d)
  BY <1>2 DEF Placed
<1>. QED
  BY <1>6, <1>7, <1>8, <1>9, <1>10 DEF IInv

LEMMA NextIInv == IInv /\ [Next]_vars => IInv'
<1>. SUFFICES ASSUME IInv, [Next]_vars PROVE IInv'
  OBVIOUS
<1>. USE DEF IInv
<1>1. ASSUME NEW p \in Peers, WorkerStep(p) PROVE IInv'
  <2>1. TypeOK' /\ WorkerEffect(p)
    BY <1>1, WorkerTyped, WorkerStepEffect
  <2>2. worker[p].owner \in Disks
    BY <2>1 DEF WorkerEffect, OwnOnly
  <2>. QED
    BY <2>1, <2>2, WorkerKeepsOwned, WorkerKeepsPlaced, WorkerKeepsRest
<1>2. ASSUME NEW d \in Disks, DiskStep(d) PROVE IInv'
  BY <1>2, DiskTyped, DiskKeepsOthers, DiskKeepsStream
<1>3. CASE StreamStep
  BY <1>3, StreamTyped, StreamKeepsOthers, StreamKeepsSent
<1>4. CASE UNCHANGED vars
  BY <1>4 DEF vars, TypeOK, WorkersOwned, ResultsCome, StreamSends, Placed, Is, Mine, Taken, PiecesOf
<1>. QED
  BY <1>1, <1>2, <1>3, <1>4 DEF Next

\* The inductive invariant holds throughout: who owns a connection, where each
\* piece is, what has come of a download, what the stream has and is owed.
THEOREM Invariant == Spec => []IInv
BY InitIInv, NextIInv, PTL DEF Spec

-----------------------------------------------------------------------------
(* The results                                                              *)

\* The variables keep their types: in particular a connection of the session and
\* one of a worker is one that was made.
THEOREM TypeCorrect == Spec => []TypeOK
<1>1. IInv => TypeOK
  BY DEF IInv
<1>. QED
  BY <1>1, Invariant, PTL

\* Each piece of a running download is in the queue, under way on one connection
\* or among the results, whatever connections choke, break or time out
\* (download_pieces_parallel: the queue, inflight and the results channel).
THEOREM PiecesPlaced == Spec => []PieceInOnePlace
<1>1. IInv => PieceInOnePlace
  <2>. SUFFICES ASSUME IInv, NEW d \in Disks, disk[d].pc = "run"
                PROVE  /\ All = disk[d].queue \cup PiecesOf(disk[d].results)
                                   \cup UNION {Taken(p) : p \in Mine(d)}
                       /\ disk[d].queue \cap PiecesOf(disk[d].results) = {}
                       /\ \A p \in Mine(d) :
                             /\ Taken(p) \cap (disk[d].queue \cup PiecesOf(disk[d].results)) = {}
                             /\ \A q \in Mine(d) \ {p} : Taken(p) \cap Taken(q) = {}
    BY DEF PieceInOnePlace
  <2>. DEFINE Q == disk[d].queue
              R == PiecesOf(disk[d].results)
  <2>1. Q \subseteq All /\ R \subseteq All
    BY DEF IInv, TypeOK, Disk, PiecesOf
  <2>2. \A p \in Mine(d) : Taken(p) \subseteq All
    BY DEF IInv, TypeOK, Worker, Underway, Mine, Taken
  <2>3. \A i \in All :
           /\ i \in Q \/ i \in R \/ \E p \in Mine(d) : i \in Taken(p)
           /\ ~(i \in Q /\ i \in R)
           /\ \A p \in Mine(d) : i \in Taken(p) =>
                 /\ i \notin Q /\ i \notin R
                 /\ \A q \in Mine(d) : i \in Taken(q) => q = p
    BY DEF IInv, Placed
  <2>. HIDE DEF Q, R
  <2>4. All = Q \cup R \cup UNION {Taken(p) : p \in Mine(d)}
    BY <2>1, <2>2, <2>3
  <2>5. Q \cap R = {}
    BY <2>1, <2>3
  <2>6. ASSUME NEW p \in Mine(d)
        PROVE  /\ Taken(p) \cap (Q \cup R) = {}
               /\ \A q \in Mine(d) \ {p} : Taken(p) \cap Taken(q) = {}
    BY <2>2, <2>3
  <2>. QED
    BY <2>4, <2>5, <2>6 DEF Q, R
<1>. QED
  BY <1>1, Invariant, PTL

\* A download to the disk that succeeds has every block of every piece, and what
\* a stream sent to MEGA is whole for the pieces that were never asked for while
\* an old answer was due (download_piece_from_peer counts blocks, not bytes).
THEOREM DeliveredWhole == Spec => []FilesAreWhole
<1>1. IInv => FilesAreWhole
  <2>. SUFFICES ASSUME IInv PROVE FilesAreWhole
    OBVIOUS
  <2>1. ASSUME NEW d \in Disks, disk[d].pc = "done"
        PROVE  disk[d].results = {[piece |-> i, have |-> Whole] : i \in All}
    <3>1. /\ PiecesOf(disk[d].results) = All
          /\ \A x \in disk[d].results : x.have = Whole
      BY <2>1 DEF IInv, ResultsCome
    <3>2. \A x \in disk[d].results : x \in [piece : All, have : SUBSET Whole]
      BY DEF IInv, TypeOK, Disk
    <3>3. ASSUME NEW x \in disk[d].results
          PROVE  x.piece \in All /\ x = [piece |-> x.piece, have |-> Whole]
      BY <3>1, <3>2
    <3>4. ASSUME NEW i \in All
          PROVE  [piece |-> i, have |-> Whole] \in disk[d].results
      <4>1. PICK x \in disk[d].results : x.piece = i
        BY <3>1 DEF PiecesOf
      <4>. QED
        BY <3>3, <4>1
    <3>. QED
      BY <3>3, <3>4
  <2>2. ASSUME stream.pc = "done"
        PROVE  Len(stream.sent) = Pieces /\ \A i \in All \ late : stream.sent[i] = Whole
    BY <2>2 DEF IInv, StreamSends, All
  <2>. QED
    BY <2>1, <2>2 DEF FilesAreWhole
<1>. QED
  BY <1>1, Invariant, PTL
-----------------------------------------------------------------------------
(* The upload to MEGA                                                      *)


\* The control of a run.  The loop is entered with its first turn, a stream is
\* open only on a selected file, and the interval is set with the loop.
RunTyped ==
    /\ backend \in {"Express", "Nest"}
    /\ order \in Orders
    /\ phase \in {"adding", "waiting", "broken", "saving", "loop", "file", "over"}
    /\ finalized \in BOOLEAN
    /\ ending \in Ended \cup {"none", "resolved", "rejected"}
    /\ row \in {"downloading"} \cup Ended
    /\ turn \in Nat /\ next \in Nat
    /\ phase \in {"adding", "waiting", "broken", "saving"} => turn = 0
    /\ phase \in {"loop", "file"} => turn >= 1
    /\ phase = "file" => turn <= Len(order)
    /\ ticking => phase \in {"loop", "file", "over"}

\* While nothing has ended the run, the files of the earlier turns are uploaded;
\* the status "completed" is chosen, carried and written only with all of them.
AllUploaded == \A k \in DOMAIN order : order[k] \in uploaded
DoneSoFar ==
    /\ phase \in {"loop", "file"} /\ ~finalized =>
           \A k \in DOMAIN order : k < turn => order[k] \in uploaded
    /\ ending = "completed" => AllUploaded
    /\ row = "completed" => AllUploaded

\* A status is chosen once: before isFinalized there is none, and when the row
\* has one none is waiting to be written.  Express ends a run only in the loop.
EndsOnce ==
    /\ ~finalized => ending = "none" /\ row \notin Ended
    /\ row \in Ended => ending \notin Ended
    /\ backend = "Express" /\ finalized => phase \in {"loop", "file", "over"}

UploadInv == RunTyped /\ DoneSoFar /\ EndsOnce /\ AheadIsHeld

-----------------------------------------------------------------------------
(* Facts about the selection                                               *)

LEMMA OrderTyped ==
    ASSUME order \in Orders, NEW k \in DOMAIN order
    PROVE  /\ k \in Nat /\ k >= 1 /\ DOMAIN order = 1 .. Len(order) /\ Len(order) \in Nat
           /\ order[k] \in FileIds /\ order[k] \in Nat
           /\ Files[order[k]].first \in Nat /\ Files[order[k]].last \in Nat
           /\ Files[order[k]].end \in Nat
           /\ Files[order[k]].first <= Files[order[k]].last
           /\ Files[order[k]].end \in {Files[order[k]].last, Files[order[k]].last + 1}
<1>1. order \in Seq(FileIds) /\ Files \in Seq([first : Nat, last : Nat, end : Nat])
  BY UploadAssumption
<1>2. DOMAIN order = 1 .. Len(order) /\ Len(order) \in Nat /\ order[k] \in FileIds
  BY <1>1
<1>3. order[k] \in Nat /\ Files[order[k]] \in [first : Nat, last : Nat, end : Nat]
  <2> DEFINE Rec == [first : Nat, last : Nat, end : Nat]
  <2>1. Files \in Seq(Rec)
    BY <1>1
  <2> HIDE DEF Rec
  <2>2. DOMAIN Files = 1 .. Len(Files) /\ \A i \in 1 .. Len(Files) : Files[i] \in Rec
    BY <2>1
  <2>3. order[k] \in Nat /\ Files[order[k]] \in Rec
    BY <1>2, <2>2 DEF FileIds
  <2> QED BY <2>3 DEF Rec
<1> HIDE DEF FileIds
<1> QED BY <1>2, <1>3, UploadAssumption

\* The pieces of a later file of an ascending selection begin where the file of
\* this turn ends.
LEMMA LaterBegin ==
    ASSUME order \in Orders, Ascending, NEW j \in DOMAIN order, NEW k \in DOMAIN order, j < k
    PROVE  Files[order[j]].end <= Files[order[k]].first
<1>1. order[j] \in FileIds /\ order[k] \in FileIds
  BY OrderTyped
<1>2. order[j] < order[k]
  BY DEF Ascending
<1> HIDE DEF FileIds
<1> QED BY <1>1, <1>2, UploadAssumption

\* An evicted piece lies before the end of what has been consumed.
LEMMA EvictedBehind ==
    ASSUME RunTyped, phase = "file", NEW p \in Evicted, next \in FilePieces(Current)
    PROVE  p \in Int /\ p < Consumed /\ Consumed <= Files[Current].end /\ Consumed <= next + 1
<1>1. turn \in DOMAIN order
  BY UploadAssumption DEF RunTyped
<1>2. /\ Files[Current].first \in Nat /\ Files[Current].last \in Nat /\ Files[Current].end \in Nat
      /\ Files[Current].end \in {Files[Current].last, Files[Current].last + 1}
  BY <1>1, OrderTyped DEF Current, RunTyped
<1>3. Consumed \in Nat /\ Consumed <= Files[Current].end /\ Consumed <= next + 1
  BY <1>2 DEF Consumed, FilePieces, RunTyped
<1>4. p \in frontier .. Consumed - Buffer - 1
  BY DEF Evicted
<1> QED BY <1>3, <1>4, UploadAssumption

\* cleanupAndFinish finalizes the run with the status, unless it is finalized.
LEMMA FinishFinalizes ==
    ASSUME RunTyped, NEW s \in Ended, Finish(s)
    PROVE  /\ finalized' = TRUE
           /\ IF finalized THEN ending' = ending /\ ticking' = ticking
                            ELSE ending' = s /\ ticking' = FALSE
BY DEF RunTyped, Finish

-----------------------------------------------------------------------------
(* The invariant                                                           *)

LEMMA UploadInitInv == UploadInit => UploadInv
<1> SUFFICES ASSUME UploadInit PROVE UploadInv
  OBVIOUS
<1>1. RunTyped /\ AheadIsHeld
  BY DEF UploadInit, RunTyped, AheadIsHeld, Ended
<1>2. DoneSoFar /\ EndsOnce
  BY DEF UploadInit, DoneSoFar, EndsOnce, Ended
<1> QED BY <1>1, <1>2 DEF UploadInv

\* The control survives every action.
LEMMA RunTypedKept == RunTyped /\ [UploadNext]_uploadVars => RunTyped'
<1> SUFFICES ASSUME RunTyped, [UploadNext]_uploadVars PROVE RunTyped'
  OBVIOUS
<1> USE DEF RunTyped, Ended
<1>1. ASSUME NEW listed \in BOOLEAN, Arrive(listed) PROVE RunTyped'
  BY <1>1 DEF Arrive, sharedVars, pieceVars
<1>2. CASE MetadataTimeout
  BY <1>2 DEF MetadataTimeout, Finish
<1>3. CASE ClientError
  BY <1>3 DEF ClientError, Finish
<1>4. CASE ClientDestroyed
  BY <1>4 DEF ClientDestroyed, sharedVars, pieceVars
<1>5. CASE Ready
  BY <1>5 DEF Ready, sharedVars, pieceVars
<1>6. CASE ReadyTimeout
  BY <1>6 DEF ReadyTimeout, Finish, sharedVars
<1>7. ASSUME NEW written \in BOOLEAN, SaveRow(written) PROVE RunTyped'
  BY <1>7 DEF SaveRow
<1>8. ASSUME NEW p \in Wanted, Put(p) PROVE RunTyped'
  BY <1>8 DEF Put, runVars, sharedVars
<1>9. CASE OpenFile
  <2>1. turn \in DOMAIN order
    BY <1>9, UploadAssumption DEF OpenFile
  <2>2. Files[Current].first \in Nat
    BY <2>1, OrderTyped DEF Current
  <2> QED BY <1>9, <2>2 DEF OpenFile, sharedVars
<1>10. CASE ReadPiece
  BY <1>10 DEF ReadPiece, runVars
<1>11. CASE FileUploaded
  BY <1>11 DEF FileUploaded, Streaming, sharedVars
<1>12. CASE FileFails
  <2>1. CASE finalized
    BY <1>12, <2>1 DEF FileFails, Finish, sharedVars
  <2>2. CASE ~finalized
    BY <1>12, <2>2 DEF FileFails, Finish, sharedVars
  <2> QED BY <2>1, <2>2
<1>13. CASE Abort
  BY <1>13 DEF Abort, Finish, sharedVars
<1>14. CASE LoopEnds
  BY <1>14 DEF LoopEnds, Finish, sharedVars
<1>15. CASE WriteStatus
  BY <1>15 DEF WriteStatus, pieceVars
<1>16. CASE StatusLost
  BY <1>16 DEF StatusLost, sharedVars, pieceVars
<1>17. CASE MarkDone
  BY <1>17 DEF MarkDone, pieceVars
<1>18. CASE UNCHANGED uploadVars
  BY <1>18 DEF uploadVars, runVars, sharedVars, pieceVars
<1> QED
  BY <1>1, <1>2, <1>3, <1>4, <1>5, <1>6, <1>7, <1>8, <1>9, <1>10, <1>11, <1>12, <1>13,
     <1>14, <1>15, <1>16, <1>17, <1>18 DEF UploadNext

\* A completed row has all its files, whatever fails.
LEMMA DoneSoFarKept == RunTyped /\ DoneSoFar /\ EndsOnce /\ [UploadNext]_uploadVars => DoneSoFar'
<1> SUFFICES ASSUME RunTyped, DoneSoFar, EndsOnce, [UploadNext]_uploadVars PROVE DoneSoFar'
  OBVIOUS
<1> USE DEF RunTyped, DoneSoFar, AllUploaded, EndsOnce, Ended
<1>1. ASSUME NEW listed \in BOOLEAN, Arrive(listed) PROVE DoneSoFar'
  BY <1>1 DEF Arrive, runVars, sharedVars, pieceVars
<1>2. CASE MetadataTimeout
  <2>1. CASE finalized
    BY <1>2, <2>1 DEF MetadataTimeout, Finish, runVars, sharedVars, pieceVars
  <2>2. CASE ~finalized
    BY <1>2, <2>2 DEF MetadataTimeout, Finish, runVars, sharedVars, pieceVars
  <2> QED BY <2>1, <2>2
<1>3. CASE ClientError
  <2>1. CASE finalized
    BY <1>3, <2>1 DEF ClientError, Finish, runVars, sharedVars, pieceVars
  <2>2. CASE ~finalized
    BY <1>3, <2>2 DEF ClientError, Finish, runVars, sharedVars, pieceVars
  <2> QED BY <2>1, <2>2
<1>4. CASE ClientDestroyed
  BY <1>4 DEF ClientDestroyed, runVars, sharedVars, pieceVars
<1>5. CASE Ready
  BY <1>5 DEF Ready, runVars, sharedVars, pieceVars
<1>6. CASE ReadyTimeout
  <2>1. CASE finalized
    BY <1>6, <2>1 DEF ReadyTimeout, Finish, runVars, sharedVars, pieceVars
  <2>2. CASE ~finalized
    BY <1>6, <2>2 DEF ReadyTimeout, Finish, runVars, sharedVars, pieceVars
  <2> QED BY <2>1, <2>2
<1>7. ASSUME NEW written \in BOOLEAN, SaveRow(written) PROVE DoneSoFar'
  BY <1>7, OrderTyped DEF SaveRow, runVars, sharedVars, pieceVars
<1>8. ASSUME NEW p \in Wanted, Put(p) PROVE DoneSoFar'
  BY <1>8 DEF Put, runVars, sharedVars, pieceVars
<1>9. CASE OpenFile
  BY <1>9 DEF OpenFile, runVars, sharedVars, pieceVars
<1>10. CASE ReadPiece
  BY <1>10 DEF ReadPiece, runVars, sharedVars, pieceVars, Streaming
<1>11. CASE FileUploaded
  BY <1>11 DEF FileUploaded, runVars, sharedVars, pieceVars, Streaming, Current
<1>12. CASE FileFails
  <2>1. CASE finalized
    BY <1>12, <2>1 DEF FileFails, Finish, runVars, sharedVars, pieceVars
  <2>2. CASE ~finalized
    BY <1>12, <2>2 DEF FileFails, Finish, runVars, sharedVars, pieceVars
  <2> QED BY <2>1, <2>2
<1>13. CASE Abort
  <2>1. CASE finalized
    BY <1>13, <2>1 DEF Abort, Finish, runVars, sharedVars, pieceVars
  <2>2. CASE ~finalized
    BY <1>13, <2>2 DEF Abort, Finish, runVars, sharedVars, pieceVars
  <2> QED BY <2>1, <2>2
<1>14. CASE LoopEnds
  <2>1. CASE finalized
    BY <1>14, <2>1 DEF LoopEnds, Finish, runVars, sharedVars, pieceVars
  <2>2. CASE ~finalized
    BY <1>14, <2>2 DEF LoopEnds, Finish, runVars, sharedVars, pieceVars
  <2> QED BY <2>1, <2>2
<1>15. CASE WriteStatus
  BY <1>15 DEF WriteStatus, runVars, sharedVars, pieceVars
<1>16. CASE StatusLost
  BY <1>16 DEF StatusLost, runVars, sharedVars, pieceVars
<1>17. CASE MarkDone
  BY <1>17 DEF MarkDone, runVars, sharedVars, pieceVars
<1>18. CASE UNCHANGED uploadVars
  BY <1>18 DEF uploadVars, runVars, sharedVars, pieceVars
<1> QED
  BY <1>1, <1>2, <1>3, <1>4, <1>5, <1>6, <1>7, <1>8, <1>9, <1>10, <1>11, <1>12, <1>13,
     <1>14, <1>15, <1>16, <1>17, <1>18 DEF UploadNext

\* A status is chosen once, whatever happens after it.
LEMMA EndsOnceKept == RunTyped /\ EndsOnce /\ [UploadNext]_uploadVars => EndsOnce'
<1> SUFFICES ASSUME RunTyped, EndsOnce, [UploadNext]_uploadVars PROVE EndsOnce'
  OBVIOUS
<1> USE DEF RunTyped, EndsOnce, Ended
<1>1. ASSUME NEW listed \in BOOLEAN, Arrive(listed) PROVE EndsOnce'
  BY <1>1 DEF Arrive, runVars, sharedVars, pieceVars
<1>2. CASE MetadataTimeout
  <2>1. CASE finalized
    BY <1>2, <2>1 DEF MetadataTimeout, Finish, runVars, sharedVars, pieceVars
  <2>2. CASE ~finalized
    BY <1>2, <2>2 DEF MetadataTimeout, Finish, runVars, sharedVars, pieceVars
  <2> QED BY <2>1, <2>2
<1>3. CASE ClientError
  <2>1. CASE finalized
    BY <1>3, <2>1 DEF ClientError, Finish, runVars, sharedVars, pieceVars
  <2>2. CASE ~finalized
    BY <1>3, <2>2 DEF ClientError, Finish, runVars, sharedVars, pieceVars
  <2> QED BY <2>1, <2>2
<1>4. CASE ClientDestroyed
  BY <1>4 DEF ClientDestroyed, runVars, sharedVars, pieceVars
<1>5. CASE Ready
  BY <1>5 DEF Ready, runVars, sharedVars, pieceVars
<1>6. CASE ReadyTimeout
  <2>1. CASE finalized
    BY <1>6, <2>1 DEF ReadyTimeout, Finish, runVars, sharedVars, pieceVars
  <2>2. CASE ~finalized
    BY <1>6, <2>2 DEF ReadyTimeout, Finish, runVars, sharedVars, pieceVars
  <2> QED BY <2>1, <2>2
<1>7. ASSUME NEW written \in BOOLEAN, SaveRow(written) PROVE EndsOnce'
  BY <1>7 DEF SaveRow, runVars, sharedVars, pieceVars
<1>8. ASSUME NEW p \in Wanted, Put(p) PROVE EndsOnce'
  BY <1>8 DEF Put, runVars, sharedVars, pieceVars
<1>9. CASE OpenFile
  BY <1>9 DEF OpenFile, runVars, sharedVars, pieceVars
<1>10. CASE ReadPiece
  BY <1>10 DEF ReadPiece, runVars, sharedVars, pieceVars, Streaming
<1>11. CASE FileUploaded
  BY <1>11 DEF FileUploaded, runVars, sharedVars, pieceVars, Streaming, Current
<1>12. CASE FileFails
  <2>1. CASE finalized
    BY <1>12, <2>1 DEF FileFails, Finish, runVars, sharedVars, pieceVars
  <2>2. CASE ~finalized
    BY <1>12, <2>2 DEF FileFails, Finish, runVars, sharedVars, pieceVars
  <2> QED BY <2>1, <2>2
<1>13. CASE Abort
  <2>1. CASE finalized
    BY <1>13, <2>1 DEF Abort, Finish, runVars, sharedVars, pieceVars
  <2>2. CASE ~finalized
    BY <1>13, <2>2 DEF Abort, Finish, runVars, sharedVars, pieceVars
  <2> QED BY <2>1, <2>2
<1>14. CASE LoopEnds
  <2>1. CASE finalized
    BY <1>14, <2>1 DEF LoopEnds, Finish, runVars, sharedVars, pieceVars
  <2>2. CASE ~finalized
    BY <1>14, <2>2 DEF LoopEnds, Finish, runVars, sharedVars, pieceVars
  <2> QED BY <2>1, <2>2
<1>15. CASE WriteStatus
  BY <1>15 DEF WriteStatus, runVars, sharedVars, pieceVars
<1>16. CASE StatusLost
  BY <1>16 DEF StatusLost, runVars, sharedVars, pieceVars
<1>17. CASE MarkDone
  BY <1>17 DEF MarkDone, runVars, sharedVars, pieceVars
<1>18. CASE UNCHANGED uploadVars
  BY <1>18 DEF uploadVars, runVars, sharedVars, pieceVars
<1> QED
  BY <1>1, <1>2, <1>3, <1>4, <1>5, <1>6, <1>7, <1>8, <1>9, <1>10, <1>11, <1>12, <1>13,
     <1>14, <1>15, <1>16, <1>17, <1>18 DEF UploadNext

\* What is ahead stays in the store: only ReadPiece takes pieces out, and they lie
\* behind the next piece of this file and before the later files.
LEMMA AheadIsHeldKept ==
    RunTyped /\ AheadIsHeld /\ [UploadNext]_uploadVars => AheadIsHeld'
<1> SUFFICES ASSUME RunTyped, AheadIsHeld, [UploadNext]_uploadVars,
                    Ascending', ~finalized', NEW p \in has', IsAhead(p)'
             PROVE  p \in held'
  BY DEF AheadIsHeld
<1>a. order' = order /\ ~finalized /\ Ascending /\ ~finalized'
  <2>1. order' = order
    BY DEF UploadNext, uploadVars, Arrive, MetadataTimeout, ClientError, ClientDestroyed,
        Ready, ReadyTimeout, SaveRow, Put, OpenFile, ReadPiece, FileUploaded, FileFails, Abort,
        LoopEnds, WriteStatus, StatusLost, MarkDone
  <2>2. ~finalized
    BY Zenon DEF UploadNext, uploadVars, Arrive, MetadataTimeout, ClientError, ClientDestroyed,
        Ready, ReadyTimeout, SaveRow, Put, OpenFile, ReadPiece, FileUploaded, FileFails, Abort,
        LoopEnds, WriteStatus, StatusLost, MarkDone, Finish, runVars
  <2> QED BY <2>1, <2>2 DEF Ascending
<1>b. \/ \E k \in DOMAIN order : k > turn' /\ p \in FilePieces(order[k])
      \/ /\ turn' \in DOMAIN order /\ p \in FilePieces(order[turn'])
         /\ phase' = "file" => p >= next'
  BY <1>a DEF IsAhead, Current
<1>c. \A k \in DOMAIN order : k \in Nat /\ k >= 1
  BY OrderTyped DEF RunTyped
<1>1. ASSUME NEW listed \in BOOLEAN, Arrive(listed) PROVE p \in held'
  <2>1. IsAhead(p)
    BY <1>1, <1>a, <1>b DEF Arrive, IsAhead, Current, runVars, sharedVars, pieceVars
  <2>2. has' = has /\ held' = held
    BY <1>1, <1>a DEF Arrive, runVars, sharedVars, pieceVars
  <2> QED BY <2>1, <2>2, <1>a DEF AheadIsHeld
<1>2. CASE MetadataTimeout
  <2>1. IsAhead(p)
    BY <1>2, <1>a, <1>b DEF MetadataTimeout, Finish, IsAhead, Current, runVars, sharedVars, pieceVars
  <2>2. has' = has /\ held' = held
    BY <1>2, <1>a DEF MetadataTimeout, Finish, runVars, sharedVars, pieceVars
  <2> QED BY <2>1, <2>2, <1>a DEF AheadIsHeld
<1>3. CASE ClientError
  <2>1. has' = has /\ held' = held /\ phase' = phase /\ turn' = turn /\ next' = next
    BY <1>3, <1>a, FinishFinalizes DEF ClientError, Ended
  <2>2. IsAhead(p)
    BY <2>1, <1>a, <1>b DEF IsAhead, Current
  <2> QED BY <2>1, <2>2, <1>a DEF AheadIsHeld
<1>4. CASE ClientDestroyed
  <2>1. IsAhead(p)
    BY <1>4, <1>a, <1>b DEF ClientDestroyed, IsAhead, Current, runVars, sharedVars, pieceVars
  <2>2. has' = has /\ held' = held
    BY <1>4, <1>a DEF ClientDestroyed, runVars, sharedVars, pieceVars
  <2> QED BY <2>1, <2>2, <1>a DEF AheadIsHeld
<1>5. CASE Ready
  <2>1. IsAhead(p)
    BY <1>5, <1>a, <1>b DEF Ready, IsAhead, Current, runVars, sharedVars, pieceVars
  <2>2. has' = has /\ held' = held
    BY <1>5, <1>a DEF Ready, runVars, sharedVars, pieceVars
  <2> QED BY <2>1, <2>2, <1>a DEF AheadIsHeld
<1>6. CASE ReadyTimeout
  <2>1. IsAhead(p)
    BY <1>6, <1>a, <1>b DEF ReadyTimeout, Finish, IsAhead, Current, runVars, sharedVars, pieceVars
  <2>2. has' = has /\ held' = held
    BY <1>6, <1>a DEF ReadyTimeout, Finish, runVars, sharedVars, pieceVars
  <2> QED BY <2>1, <2>2, <1>a DEF AheadIsHeld
<1>7. ASSUME NEW written \in BOOLEAN, SaveRow(written) PROVE p \in held'
  <2>1. IsAhead(p)
    BY <1>7, <1>a, <1>b, OrderTyped, <1>c DEF SaveRow, IsAhead, Current, runVars, sharedVars, pieceVars, RunTyped
  <2>2. has' = has /\ held' = held
    BY <1>7, <1>a DEF SaveRow, runVars, sharedVars, pieceVars
  <2> QED BY <2>1, <2>2, <1>a DEF AheadIsHeld
<1>8. ASSUME NEW q \in Wanted, Put(q) PROVE p \in held'
  <2>1. IsAhead(p)
    BY <1>8, <1>a, <1>b DEF Put, IsAhead, Current, runVars
  <2> QED BY <1>8, <2>1, <1>a DEF Put, AheadIsHeld
<1>9. CASE OpenFile
  <2>1. IsAhead(p)
    BY <1>9, <1>a, <1>b, OrderTyped, <1>c DEF OpenFile, IsAhead, Current, runVars, sharedVars, pieceVars, RunTyped
  <2>2. has' = has /\ held' = held
    BY <1>9, <1>a DEF OpenFile, runVars, sharedVars, pieceVars
  <2> QED BY <2>1, <2>2, <1>a DEF AheadIsHeld
<1>10. CASE ReadPiece
  <2>1. phase = "file" /\ phase' = "file" /\ turn' = turn /\ next' = next + 1 /\ has' = has
    BY <1>10 DEF ReadPiece, Streaming, runVars
  <2>2. next \in FilePieces(Current) /\ turn \in DOMAIN order
    BY <1>10, UploadAssumption DEF ReadPiece, RunTyped, Streaming
  <2>3. p \notin Evicted
    <3> SUFFICES ASSUME p \in Evicted PROVE FALSE
      OBVIOUS
    <3>1. p \in Int /\ p < Consumed /\ Consumed <= Files[Current].end /\ Consumed <= next + 1
      BY <2>1, <2>2, EvictedBehind
    <3>2. Consumed \in Int /\ Files[Current].end \in Int
      BY <2>2, OrderTyped DEF Consumed, Current, RunTyped
    <3>3. CASE \E k \in DOMAIN order : k > turn /\ p \in FilePieces(order[k])
      <4>1. PICK k \in DOMAIN order : k > turn /\ p \in FilePieces(order[k])
        BY <3>3
      <4>2. Files[Current].end <= Files[order[k]].first /\ Files[order[k]].first \in Int
        BY <4>1, <2>2, <1>a, LaterBegin, OrderTyped DEF RunTyped, Current
      <4>3. p >= Files[order[k]].first
        BY <4>1, <4>2 DEF FilePieces
      <4> QED BY <3>1, <3>2, <4>2, <4>3
    <3>4. CASE p >= next + 1
      BY <3>1, <3>2, <3>4 DEF RunTyped
    <3> QED BY <3>3, <3>4, <2>1, <1>a, <1>b
  <2>4. IsAhead(p)
    BY <2>1, <1>a, <1>b DEF IsAhead, Current, RunTyped, FilePieces
  <2> QED BY <2>1, <2>3, <2>4, <1>a, <1>10 DEF ReadPiece, AheadIsHeld
<1>11. CASE FileUploaded
  <2>1. IsAhead(p)
    BY <1>11, <1>a, <1>b, OrderTyped, <1>c DEF FileUploaded, IsAhead, Current, runVars, sharedVars, pieceVars, RunTyped, Streaming
  <2>2. has' = has /\ held' = held
    BY <1>11, <1>a DEF FileUploaded, runVars, sharedVars, pieceVars
  <2> QED BY <2>1, <2>2, <1>a DEF AheadIsHeld
<1>12. CASE FileFails
  BY <1>12, <1>a, FinishFinalizes DEF FileFails, Ended
<1>13. CASE Abort
  BY <1>13, <1>a, FinishFinalizes DEF Abort, Ended
<1>14. CASE LoopEnds
  BY <1>14, <1>a, FinishFinalizes DEF LoopEnds, Ended
<1>15. CASE WriteStatus
  <2>1. IsAhead(p)
    BY <1>15, <1>a, <1>b DEF WriteStatus, IsAhead, Current, runVars, sharedVars, pieceVars
  <2>2. has' = has /\ held' = held
    BY <1>15, <1>a DEF WriteStatus, runVars, sharedVars, pieceVars
  <2> QED BY <2>1, <2>2, <1>a DEF AheadIsHeld
<1>16. CASE StatusLost
  <2>1. IsAhead(p)
    BY <1>16, <1>a, <1>b DEF StatusLost, IsAhead, Current, runVars, sharedVars, pieceVars
  <2>2. has' = has /\ held' = held
    BY <1>16, <1>a DEF StatusLost, runVars, sharedVars, pieceVars
  <2> QED BY <2>1, <2>2, <1>a DEF AheadIsHeld
<1>17. CASE MarkDone
  <2>1. IsAhead(p)
    BY <1>17, <1>a, <1>b DEF MarkDone, IsAhead, Current, runVars, sharedVars, pieceVars
  <2>2. has' = has /\ held' = held
    BY <1>17, <1>a DEF MarkDone, runVars, sharedVars, pieceVars
  <2> QED BY <2>1, <2>2, <1>a DEF AheadIsHeld
<1>18. CASE UNCHANGED uploadVars
  <2>1. IsAhead(p)
    BY <1>18, <1>a, <1>b DEF uploadVars, IsAhead, Current, runVars, sharedVars, pieceVars, uploadVars
  <2>2. has' = has /\ held' = held
    BY <1>18, <1>a DEF uploadVars, runVars, sharedVars, pieceVars
  <2> QED BY <2>1, <2>2, <1>a DEF AheadIsHeld
<1> QED
  BY <1>1, <1>2, <1>3, <1>4, <1>5, <1>6, <1>7, <1>8, <1>9, <1>10, <1>11, <1>12, <1>13,
     <1>14, <1>15, <1>16, <1>17, <1>18 DEF UploadNext

LEMMA UploadStep == UploadInv /\ [UploadNext]_uploadVars => UploadInv'
BY RunTypedKept, DoneSoFarKept, EndsOnceKept, AheadIsHeldKept DEF UploadInv

LEMMA UploadAlways == UploadSpec => []UploadInv
<1>1. UploadInit => UploadInv
  BY UploadInitInv
<1>2. UploadInv /\ [UploadNext]_uploadVars => UploadInv'
  BY UploadStep
<1> QED BY <1>1, <1>2, PTL DEF UploadSpec

-----------------------------------------------------------------------------
(* Theorems                                                                *)

\* For every torrent, buffer and ascending selection, the store has every verified
\* piece that the streams still have to read, until the run is finalized.
THEOREM NothingAheadIsEvicted == UploadSpec => []AheadIsHeld
<1>1. UploadInv => AheadIsHeld
  BY DEF UploadInv
<1> QED BY <1>1, UploadAlways, PTL

\* A row is completed only when MEGA has every selected file, whatever fails, times
\* out or is finalized twice.
THEOREM CompletedHasAll == UploadSpec => []CompletedIsWhole
<1>1. UploadInv => CompletedIsWhole
  BY DEF UploadInv, DoneSoFar, AllUploaded, CompletedIsWhole
<1> QED BY <1>1, UploadAlways, PTL

\* Only a late call of the Nest backend writes over a last status.
THEOREM OnlyLateReopens == UploadSpec => EndingStays
<1>1. ASSUME UploadInv, [UploadNext]_uploadVars, row # row', row \in Ended
      PROVE  backend = "Nest" /\ phase = "saving" /\ finalized
  <2> USE DEF UploadInv, RunTyped, EndsOnce, Ended
  <2>1. (\E written \in BOOLEAN : SaveRow(written)) \/ WriteStatus
    BY <1>1 DEF UploadNext, uploadVars, Arrive, MetadataTimeout, ClientError, ClientDestroyed,
        Ready, ReadyTimeout, Put, OpenFile, ReadPiece, FileUploaded, FileFails, Abort,
        LoopEnds, StatusLost, MarkDone, runVars, sharedVars, pieceVars
  <2> QED BY <1>1, <2>1 DEF SaveRow, WriteStatus
<1>2. UploadInv /\ [UploadNext]_uploadVars =>
        (row # row' /\ row \in Ended => backend = "Nest" /\ phase = "saving" /\ finalized)
  BY <1>1
<1> QED BY <1>2, UploadAlways, PTL DEF UploadSpec, EndingStays

=============================================================================

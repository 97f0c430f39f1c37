--------------------------- MODULE TransferProofs ---------------------------
(***************************************************************************)
(* The two transfers to the user's disk close a whole file, for any parts,  *)
(* sizes and bounds: one coroutine at a time works on a part of a worker's  *)
(* file, and what waits in the chain of a file of the cloud are the next    *)
(* chunks of its part, in their order.                                      *)
(***************************************************************************)
EXTENDS MCTransfers, SequenceTheorems, FiniteSetTheorems, TLAPS

-----------------------------------------------------------------------------
(* The inductive invariants                                                 *)

\* The flags of a part are those of the one coroutine that works on it.
HasFlags ==
    /\ \A r \in Runs : ~On(r, "off") => flags[r[1]] = r
    /\ \A p \in Parts :
        /\ flags[p] # None => flags[p] \in Runs /\ flags[p][1] = p /\ ~On(flags[p], "off")
        /\ flags[p] # None <=> status[p] = "downloading"
\* It is at the position where the next byte belongs.
AtReceived ==
    \A r \in Runs :
        /\ run[r].pc \in {"fetch", "stream", "write"} => run[r].at = received[r[1]]
        /\ On(r, "write") => run[r].at < Chunks[r[1]]
Sound ==
    /\ wrong = {}
    /\ \A p \in Parts : status[p] = "completed" => received[p] = Chunks[p]
    /\ main = "done" => Whole
    /\ main = "opening" => \A p \in Parts : status[p] = "pending"
WorkerInv == TypeOK /\ HasFlags /\ AtReceived /\ Sound

\* A chunk, or the end of a stream, that waits in the chain.
Entry == [r : C!Runs, at : Nat, end : BOOLEAN]
CloudTyped ==
    /\ c_received \in [Parts -> Nat] /\ \A p \in Parts : c_received[p] <= Chunks[p]
    /\ c_gen \in [Parts -> Nat]
    /\ c_run \in [C!Runs -> [pc : {"off", "load", "stream", "ended", "returned", "then", "rejected"},
                             at : Nat, aborts : Nat]]
    /\ c_chain \in Seq(Entry)
    /\ c_wrong \subseteq Parts /\ c_overtaken \subseteq Parts

OfPart(p, i) == ~c_chain[i].end /\ c_chain[i].r[1] = p
\* The chunks of a part that wait are the next ones, in their order, and none is missing.
InLine(p) ==
    /\ \A i \in 1 .. Len(c_chain) : OfPart(p, i) => c_received[p] <= c_chain[i].at
    /\ \A i, j \in 1 .. Len(c_chain) : OfPart(p, i) /\ OfPart(p, j) /\ i < j => c_chain[i].at < c_chain[j].at
    /\ \A j \in 1 .. Len(c_chain) : OfPart(p, j) =>
          \A v \in Nat : c_received[p] <= v /\ v < c_chain[j].at =>
              \E i \in 1 .. Len(c_chain) : i < j /\ OfPart(p, i) /\ c_chain[i].at = v
\* The stream of the part is behind them.
InFlow(p) ==
    \A r \in C!Runs : r[1] = p /\ C!On(r, "stream") /\ ~C!Superseded(r) =>
        /\ c_received[p] <= c_run[r].at
        /\ \A i \in 1 .. Len(c_chain) : OfPart(p, i) => c_chain[i].at < c_run[r].at
        /\ \A v \in Nat : c_received[p] <= v /\ v < c_run[r].at =>
              \E i \in 1 .. Len(c_chain) : OfPart(p, i) /\ c_chain[i].at = v
CloudInv ==
    /\ CloudTyped
    /\ c_final # "no" => \A p \in Parts : c_received[p] = Chunks[p]
    /\ \A i \in 1 .. Len(c_chain) : ~c_chain[i].end => c_chain[i].at < Chunks[c_chain[i].r[1]]
    /\ \A p \in Parts \ c_overtaken : p \notin c_wrong /\ InLine(p) /\ InFlow(p)

-----------------------------------------------------------------------------
(* The file of a worker                                                     *)

RunType == [pc : {"off", "fetch", "stream", "write", "sleep", "queued", "nap"},
            attempt : 0 .. MaxAttempts, auto : Nat, limit : Nat,
            requested : BOOLEAN, at : Nat, by : {"loop", "click"}]
AtWork == {"fetch", "stream", "write"}

LEMMA Numbers ==
    /\ Chunks \in [Parts -> Nat \ {0}] /\ MaxAttempts \in Nat \ {0} /\ MaxRestarts \in Nat /\ MaxClicks \in Nat
    /\ 0 \in 0 .. MaxAttempts /\ 1 \in 0 .. MaxAttempts /\ 0 \in 0 .. MaxClicks
    /\ FALSE \in BOOLEAN /\ TRUE \in BOOLEAN
    /\ \A p \in Parts : Chunks[p] \in Nat /\ Chunks[p] > 0
<1>1. /\ Chunks \in [Parts -> Nat \ {0}] /\ MaxAttempts \in Nat \ {0} /\ MaxRestarts \in Nat /\ MaxClicks \in Nat
  BY WorkerTransferAssumption
<1>2. 0 \in 0 .. MaxAttempts /\ 1 \in 0 .. MaxAttempts /\ 0 \in 0 .. MaxClicks
  BY <1>1
<1> QED
  BY <1>1, <1>2

LEMMA RunsAre ==
    /\ \A r \in Runs : r # None /\ r[1] \in Parts /\ r[2] \in {1, 2} /\ r = <<r[1], r[2]>>
    /\ \A p \in Parts : \A i \in {1, 2} : <<p, i>> \in Runs /\ <<p, i>>[1] = p /\ <<p, i>>[2] = i
<1>1. \A r \in Runs : r[1] \in Parts /\ r[2] \in {1, 2} /\ r = <<r[1], r[2]>>
  BY DEF Runs
<1>2. \A a, b : <<a, b>> # <<>>
  OBVIOUS
<1>3. \A p \in Parts : \A i \in {1, 2} : <<p, i>> \in Runs /\ <<p, i>>[1] = p /\ <<p, i>>[2] = i
  BY DEF Runs
<1> QED
  BY <1>1, <1>2, <1>3 DEF None

LEMMA NoRunTyped == NoRun \in RunType /\ NoRun.pc = "off"
BY Numbers DEF NoRun, RunType

\* What a step of a coroutine may do to its part: go on at the position it is to write,
\* end as failed, or end as completed with every byte.
Moves(r, x) ==
    /\ x.pc # "off" /\ status' = status /\ flags' = flags
    /\ x.pc \in AtWork => x.at = received'[r[1]]
    /\ x.pc = "write" => x.at < Chunks[r[1]]
Ends(r, x) ==
    /\ x.pc = "off" /\ flags' = [flags EXCEPT ![r[1]] = None]
    /\ \/ status' = [status EXCEPT ![r[1]] = "failed"]
       \/ status' = [status EXCEPT ![r[1]] = "completed"] /\ received'[r[1]] = Chunks[r[1]]
Goes(r) == \E x \in RunType : run' = [run EXCEPT ![r] = x] /\ (Moves(r, x) \/ Ends(r, x))

\* A coroutine at work, and what is the same in each of its steps.
Working(r) == WorkerInv /\ ~On(r, "off")

LEMMA RunIs ==
    ASSUME WorkerInv, NEW r \in Runs
    PROVE  /\ run[r] \in RunType /\ r[1] \in Parts /\ received[r[1]] \in Nat /\ received[r[1]] <= Chunks[r[1]]
           /\ ~On(r, "off") => flags[r[1]] = r /\ status[r[1]] = "downloading"
           /\ run[r].pc \in AtWork => run[r].at = received[r[1]]
           /\ run[r].pc = "write" => run[r].at < Chunks[r[1]]
<1>1. run[r] \in RunType /\ r[1] \in Parts
  BY RunsAre DEF WorkerInv, TypeOK, RunType
<1>2. received[r[1]] \in Nat /\ received[r[1]] <= Chunks[r[1]]
  BY <1>1 DEF WorkerInv, TypeOK
<1>3. ~On(r, "off") => flags[r[1]] = r /\ status[r[1]] = "downloading"
  BY <1>1, RunsAre DEF WorkerInv, HasFlags
<1>4. /\ run[r].pc \in AtWork => run[r].at = received[r[1]]
      /\ run[r].pc = "write" => run[r].at < Chunks[r[1]]
  BY DEF WorkerInv, AtReceived, On, AtWork
<1> QED
  BY <1>1, <1>2, <1>3, <1>4

\* The parts of a step.
LEMMA FailGoes ==
    ASSUME WorkerInv, NEW r \in Runs, NEW b \in BOOLEAN, Fail(r, b)
    PROVE  Goes(r) /\ last' \in [Parts -> Nat] /\ special' \in BOOLEAN
<1>1. Goes(r)
  BY NoRunTyped DEF Fail, Set, Goes, Ends
<1>2. last' \in [Parts -> Nat]
  BY RunIs DEF Fail, WorkerInv, TypeOK, RunType
<1>3. special' \in BOOLEAN
  BY DEF Fail, WorkerInv, TypeOK
<1> QED
  BY <1>1, <1>2, <1>3

LEMMA CompleteGoes ==
    ASSUME WorkerInv, NEW r \in Runs, Complete(r), received'[r[1]] = Chunks[r[1]]
    PROVE  Goes(r) /\ last' \in [Parts -> Nat] /\ special' \in BOOLEAN
BY NoRunTyped DEF Complete, Set, Goes, Ends, WorkerInv, TypeOK

LEMMA AttemptGoes ==
    ASSUME WorkerInv, NEW r \in Runs, ~On(r, "off"), Attempt(r), received' = received
    PROVE  Goes(r) /\ last' \in [Parts -> Nat] /\ special' \in BOOLEAN
<1>0. run[r] \in RunType /\ r[1] \in Parts /\ received[r[1]] \in Nat /\ received[r[1]] <= Chunks[r[1]] /\ flags[r[1]] = r
  BY RunIs
<1>1. CASE Fail(r, FALSE) \/ Fail(r, TRUE)
  BY <1>1, FailGoes
<1>2. CASE Complete(r) /\ received[r[1]] = Chunks[r[1]]
  BY <1>2, CompleteGoes
<1>3. CASE /\ run[r].attempt # MaxAttempts
           /\ Set(r, [run[r] EXCEPT !.pc = "fetch", !.attempt = @ + 1, !.requested = FALSE, !.at = received[r[1]]])
           /\ flags' = [flags EXCEPT ![r[1]] = r]
           /\ UNCHANGED <<status, last, special>>
  <2> DEFINE x == [run[r] EXCEPT !.pc = "fetch", !.attempt = @ + 1, !.requested = FALSE, !.at = received[r[1]]]
  <2>1. run[r].attempt + 1 \in 0 .. MaxAttempts
    BY <1>0, <1>3, Numbers DEF RunType
  <2>2. x \in RunType /\ x.pc = "fetch" /\ x.at = received[r[1]]
    BY <1>0, <2>1 DEF RunType
  <2>3. run' = [run EXCEPT ![r] = x]
    BY <1>3 DEF Set
  <2> HIDE DEF x
  <2>4. flags' = flags
    BY <1>0, <1>3 DEF WorkerInv, TypeOK
  <2>5. Goes(r)
    BY <1>3, <2>2, <2>3, <2>4 DEF Goes, Moves
  <2> QED
    BY <1>3, <2>5 DEF WorkerInv, TypeOK
<1> QED
  BY <1>1, <1>2, <1>3 DEF Attempt

LEMMA WaitsGoes ==
    ASSUME WorkerInv, NEW r \in Runs, NEW x \in RunType, Waits(r, x)
    PROVE  /\ Goes(r) /\ last' \in [Parts -> Nat] /\ special' \in BOOLEAN
           /\ waiters' \in Seq(Runs) /\ gate' \in {0, 1}
<1>1. CASE gate' = 1 /\ Set(r, [x EXCEPT !.pc = "nap"]) /\ UNCHANGED waiters
  <2> DEFINE y == [x EXCEPT !.pc = "nap"]
  <2>1. y \in RunType /\ y.pc = "nap"
    BY DEF RunType
  <2>2. run' = [run EXCEPT ![r] = y]
    BY <1>1 DEF Set
  <2> HIDE DEF y
  <2>3. Goes(r)
    BY <2>1, <2>2 DEF Goes, Moves, AtWork, Waits
  <2> QED
    BY <1>1, <2>3 DEF Waits, WorkerInv, TypeOK
<1>2. CASE waiters' = Append(waiters, r) /\ Set(r, [x EXCEPT !.pc = "queued"]) /\ UNCHANGED gate
  <2> DEFINE y == [x EXCEPT !.pc = "queued"]
  <2>1. y \in RunType /\ y.pc = "queued"
    BY DEF RunType
  <2>2. run' = [run EXCEPT ![r] = y]
    BY <1>2 DEF Set
  <2> HIDE DEF y
  <2>3. Goes(r)
    BY <2>1, <2>2 DEF Goes, Moves, AtWork, Waits
  <2>4. waiters' \in Seq(Runs)
    BY <1>2, AppendProperties DEF WorkerInv, TypeOK
  <2> QED
    BY <1>2, <2>3, <2>4 DEF Waits, WorkerInv, TypeOK
<1> QED
  BY <1>1, <1>2 DEF Waits

LEMMA VoluntaryGoes ==
    ASSUME WorkerInv, NEW r \in Runs, Voluntary(r)
    PROVE  /\ Goes(r) /\ last' \in [Parts -> Nat] /\ special' \in BOOLEAN
           /\ waiters' \in Seq(Runs) /\ gate' \in {0, 1}
<1>0. run[r] \in RunType /\ 0 \in 0 .. MaxAttempts
  BY RunIs, Numbers
<1>1. [run[r] EXCEPT !.requested = FALSE, !.attempt = 0] \in RunType
  BY <1>0 DEF RunType
<1> QED
  BY <1>1, WaitsGoes DEF Voluntary

LEMMA CountedGoes ==
    ASSUME WorkerInv, NEW r \in Runs, NEW how, Counted(r, how)
    PROVE  /\ Goes(r) /\ last' \in [Parts -> Nat] /\ special' \in BOOLEAN
           /\ waiters' \in Seq(Runs) /\ gate' \in {0, 1}
<1> DEFINE x == [run[r] EXCEPT !.auto = @ + 1]
<1>1. x \in RunType /\ x.auto \in Nat
  BY RunIs DEF RunType
<1>2. CASE /\ Set(r, NoRun)
           /\ status' = [status EXCEPT ![r[1]] = "failed"]
           /\ last' = [last EXCEPT ![r[1]] = x.auto]
           /\ flags' = [flags EXCEPT ![r[1]] = None]
           /\ UNCHANGED <<special, waiters, gate>>
  <2>1. Goes(r)
    BY <1>2, NoRunTyped DEF Set, Goes, Ends
  <2> HIDE DEF x
  <2>2. last' \in [Parts -> Nat]
    BY <1>1, <1>2 DEF WorkerInv, TypeOK
  <2> QED
    BY <1>2, <2>1, <2>2 DEF WorkerInv, TypeOK
<1>3. CASE Waits(r, x)
  <2> HIDE DEF x
  <2> QED
    BY <1>1, <1>3, WaitsGoes
<1>4. CASE Set(r, [x EXCEPT !.pc = "sleep"]) /\ UNCHANGED <<status, flags, last, special, waiters, gate>>
  <2> HIDE DEF x
  <2> DEFINE y == [x EXCEPT !.pc = "sleep"]
  <2>1. y \in RunType /\ y.pc = "sleep"
    BY <1>1 DEF RunType
  <2>2. run' = [run EXCEPT ![r] = y]
    BY <1>4 DEF Set
  <2> HIDE DEF y
  <2>3. Goes(r)
    BY <1>4, <2>1, <2>2 DEF Goes, Moves, AtWork
  <2> QED
    BY <1>4, <2>3 DEF WorkerInv, TypeOK
<1> QED
  BY <1>2, <1>3, <1>4 DEF Counted

\* What each step of a coroutine does.
Step(r) ==
    /\ Goes(r) /\ main' = main /\ phase2' = phase2 /\ aborted' = aborted /\ clicks' = clicks /\ wrong' = wrong
    /\ \/ received' = received
       \/ received[r[1]] < Chunks[r[1]] /\ received' = [received EXCEPT ![r[1]] = received[r[1]] + 1]
    /\ last' \in [Parts -> Nat] /\ special' \in BOOLEAN
    /\ waiters' \in Seq(Runs) /\ gate' \in {0, 1}

LEMMA StepIs ==
    ASSUME WorkerInv, NEW r \in Runs, RunStep(r)
    PROVE  Step(r) /\ ~On(r, "off")
<1>0. /\ run[r] \in RunType /\ r[1] \in Parts /\ received[r[1]] \in Nat /\ received[r[1]] <= Chunks[r[1]]
      /\ flags[r[1]] = r \/ On(r, "off")
      /\ run[r].pc \in AtWork => run[r].at = received[r[1]]
      /\ run[r].pc = "write" => run[r].at < Chunks[r[1]]
  BY RunIs
<1>1. /\ last \in [Parts -> Nat] /\ special \in BOOLEAN /\ waiters \in Seq(Runs) /\ gate \in {0, 1}
      /\ wrong = {} /\ TRUE \in BOOLEAN /\ FALSE \in BOOLEAN
  BY DEF WorkerInv, TypeOK, Sound
<1>2. CASE Answered(r)
  <2> DEFINE x == [run[r] EXCEPT !.pc = "stream"]
  <2>1. x \in RunType /\ x.pc = "stream" /\ x.at = run[r].at
    BY <1>0 DEF RunType
  <2>2. run' = [run EXCEPT ![r] = x]
    BY <1>2 DEF Answered, Set
  <2> HIDE DEF x
  <2>3. Goes(r)
    BY <1>0, <1>2, <2>1, <2>2 DEF Answered, Goes, Moves, On, AtWork
  <2> QED
    BY <1>1, <1>2, <2>3 DEF Answered, Step, loop, On
<1>3. CASE Unreachable(r)
  BY <1>1, <1>3, CountedGoes DEF Unreachable, Step, On
<1>4. CASE BadStatus(r)
  <2>1. CASE Fail(r, FALSE)
    BY <1>1, <1>4, <2>1, FailGoes DEF BadStatus, Step, On
  <2>2. CASE Set(r, [run[r] EXCEPT !.pc = "sleep"]) /\ UNCHANGED <<status, flags, last, special>>
    <3> DEFINE x == [run[r] EXCEPT !.pc = "sleep"]
    <3>1. x \in RunType /\ x.pc = "sleep"
      BY <1>0 DEF RunType
    <3>2. run' = [run EXCEPT ![r] = x]
      BY <2>2 DEF Set
    <3> HIDE DEF x
    <3>3. Goes(r)
      BY <2>2, <3>1, <3>2 DEF Goes, Moves, AtWork
    <3> QED
      BY <1>1, <1>4, <2>2, <3>3 DEF BadStatus, Step, On
  <2> QED
    BY <1>4, <2>1, <2>2 DEF BadStatus
<1>5. CASE NoRanges(r)
  BY <1>1, <1>5, FailGoes DEF NoRanges, Step, On
<1>6. CASE AbortSeen(r)
  <2>1. CASE Fail(r, TRUE) /\ UNCHANGED <<waiters, gate>>
    BY <1>1, <1>6, <2>1, FailGoes DEF AbortSeen, Step, On
  <2>2. CASE Voluntary(r)
    BY <1>1, <1>6, <2>2, VoluntaryGoes DEF AbortSeen, Step, On
  <2> QED
    BY <1>6, <2>1, <2>2 DEF AbortSeen
<1>7. CASE ChunkArrives(r)
  <2> DEFINE x == [run[r] EXCEPT !.pc = "write"]
  <2>1. x \in RunType /\ x.pc = "write" /\ x.at = run[r].at
    BY <1>0 DEF RunType
  <2>2. run' = [run EXCEPT ![r] = x]
    BY <1>7 DEF ChunkArrives, Set
  <2> HIDE DEF x
  <2>3. Goes(r)
    BY <1>0, <1>7, <2>1, <2>2 DEF ChunkArrives, Goes, Moves, On, AtWork
  <2> QED
    BY <1>1, <1>7, <2>3 DEF ChunkArrives, Step, loop, On
<1>p. ASSUME On(r, "write"), Put(r)
      PROVE  /\ received[r[1]] < Chunks[r[1]] /\ wrong' = wrong
             /\ received' = [received EXCEPT ![r[1]] = received[r[1]] + 1]
             /\ received'[r[1]] = run[r].at + 1
  BY <1>0, <1>p DEF On, Put, AtWork, WorkerInv, TypeOK
<1>8. CASE Written(r)
  <2> DEFINE x == [run[r] EXCEPT !.pc = "stream", !.at = @ + 1]
  <2>0. run[r].at \in Nat
    BY <1>0 DEF RunType
  <2>a. run[r].at + 1 \in Nat
    BY <2>0
  <2>1. x \in RunType /\ x.pc = "stream" /\ x.at = run[r].at + 1
    BY <1>0, <2>a DEF RunType
  <2>2. run' = [run EXCEPT ![r] = x]
    BY <1>8 DEF Written, Set
  <2> HIDE DEF x
  <2>3. Goes(r)
    BY <1>p, <1>8, <2>1, <2>2 DEF Written, Goes, Moves
  <2> QED
    BY <1>1, <1>p, <1>8, <2>3 DEF Written, Step, loop, On
<1>9. CASE WrittenSlowly(r)
  <2>1. CASE Counted(r, "sleep")
    BY <1>1, <1>p, <1>9, <2>1, CountedGoes DEF WrittenSlowly, Step, On
  <2>2. CASE Waits(r, [run[r] EXCEPT !.auto = @ + 1, !.requested = FALSE, !.attempt = 0])
    <3> DEFINE x == [run[r] EXCEPT !.auto = @ + 1, !.requested = FALSE, !.attempt = 0]
    <3>0. run[r].auto \in Nat
      BY <1>0 DEF RunType
    <3>a. run[r].auto + 1 \in Nat /\ 0 \in 0 .. MaxAttempts
      BY <3>0, Numbers
    <3>1. x \in RunType
      BY <1>0, <3>a DEF RunType
    <3> HIDE DEF x
    <3>2. Waits(r, x)
      BY <2>2 DEF x
    <3> QED
      BY <1>1, <1>p, <1>9, <3>1, <3>2, WaitsGoes DEF WrittenSlowly, Step, On
  <2> QED
    BY <1>9, <2>1, <2>2 DEF WrittenSlowly
<1>10. CASE Breaks(r)
  BY <1>1, <1>10, CountedGoes DEF Breaks, Step, On
<1>11. CASE BodyEnds(r)
  <2>1. CASE Voluntary(r)
    BY <1>1, <1>11, <2>1, VoluntaryGoes DEF BodyEnds, Step, On
  <2>2. CASE Complete(r) /\ UNCHANGED <<waiters, gate>>
    <3>1. received' = received /\ received[r[1]] = Chunks[r[1]]
      BY <1>0, <1>11 DEF BodyEnds, On, AtWork
    <3> QED
      BY <1>1, <1>11, <2>2, <3>1, CompleteGoes DEF BodyEnds, Step, On
  <2> QED
    BY <1>11, <2>1, <2>2 DEF BodyEnds
<1>12. CASE SleepEnds(r)
  <2>1. ~On(r, "off") /\ received' = received /\ Attempt(r)
    BY <1>12 DEF SleepEnds, On
  <2>2. Goes(r) /\ last' \in [Parts -> Nat] /\ special' \in BOOLEAN
    BY <2>1, AttemptGoes
  <2> QED
    BY <1>1, <1>12, <2>1, <2>2 DEF SleepEnds, Step
<1>13. CASE Called(r)
  <2> DEFINE x == [run[r] EXCEPT !.pc = "nap"]
  <2>1. x \in RunType /\ x.pc = "nap"
    BY <1>0 DEF RunType
  <2>2. run' = [run EXCEPT ![r] = x]
    BY <1>13 DEF Called, Set
  <2> HIDE DEF x
  <2>3. Goes(r)
    BY <1>13, <2>1, <2>2 DEF Called, Goes, Moves, AtWork
  <2> QED
    BY <1>1, <1>13, <2>3 DEF Called, Step, loop, On
<1>14. CASE NapEnds(r)
  <2>1. ~On(r, "off") /\ received' = received /\ Attempt(r)
    BY <1>14 DEF NapEnds, On
  <2>2. Goes(r) /\ last' \in [Parts -> Nat] /\ special' \in BOOLEAN
    BY <2>1, AttemptGoes
  <2>3. waiters' \in Seq(Runs)
    BY <1>1, <1>14, HeadTailProperties, EmptySeq DEF NapEnds
  <2> QED
    BY <1>1, <1>14, <2>1, <2>2, <2>3 DEF NapEnds, Step
<1> QED
  BY <1>2, <1>3, <1>4, <1>5, <1>6, <1>7, <1>8, <1>9, <1>10, <1>11, <1>12, <1>13, <1>14 DEF RunStep

\* A step of the coroutine that has the flags of its part keeps the invariant.
LEMMA RunStepKeeps ==
    ASSUME WorkerInv, NEW r \in Runs, RunStep(r)
    PROVE  WorkerInv'
<1> DEFINE p == r[1]
<1>a. Step(r) /\ ~On(r, "off")
  BY StepIs
<1>b. p \in Parts /\ r # None
  BY RunsAre
<1>c. flags[p] = r
  BY <1>a DEF WorkerInv, HasFlags
<1>d. status[p] = "downloading"
  BY <1>b, <1>c DEF WorkerInv, HasFlags
<1>e. \A s \in Runs : ~On(s, "off") /\ s[1] = p => s = r
  BY <1>c DEF WorkerInv, HasFlags
<1>f. /\ received \in [Parts -> Nat] /\ flags \in [Parts -> Runs \cup {None}]
      /\ status \in [Parts -> Statuses] /\ run \in [Runs -> RunType]
  BY DEF WorkerInv, TypeOK, RunType
<1>0. /\ p \in Parts /\ flags[p] = r /\ status[p] = "downloading"
      /\ \A s \in Runs : ~On(s, "off") /\ s[1] = p => s = r
      /\ received \in [Parts -> Nat] /\ flags \in [Parts -> Runs \cup {None}] /\ status \in [Parts -> Statuses]
      /\ run \in [Runs -> RunType]
      /\ Step(r) /\ ~On(r, "off")
  BY <1>a, <1>b, <1>c, <1>d, <1>e, <1>f
<1>1. PICK x \in RunType : run' = [run EXCEPT ![r] = x] /\ (Moves(r, x) \/ Ends(r, x))
  BY <1>0 DEF Step, Goes
<1>2. /\ run' \in [Runs -> RunType] /\ run'[r] = x /\ \A s \in Runs \ {r} : run'[s] = run[s]
  BY <1>0, <1>1
<1>3. /\ received' \in [Parts -> Nat]
      /\ \A q \in Parts : received'[q] <= Chunks[q] /\ received[q] <= received'[q]
      /\ \A q \in Parts \ {p} : received'[q] = received[q]
  <2>1. \A q \in Parts : received[q] \in Nat /\ received[q] <= Chunks[q] /\ Chunks[q] \in Nat
    BY Numbers DEF WorkerInv, TypeOK
  <2>2. CASE received' = received
    BY <1>0, <2>1, <2>2
  <2>3. CASE received[p] < Chunks[p] /\ received' = [received EXCEPT ![p] = received[p] + 1]
    BY <1>0, <2>1, <2>3
  <2> QED
    BY <1>0, <2>2, <2>3 DEF Step
<1>4. /\ flags' \in [Parts -> Runs \cup {None}] /\ status' \in [Parts -> Statuses]
      /\ \A q \in Parts \ {p} : flags'[q] = flags[q] /\ status'[q] = status[q]
      /\ x.pc # "off" => flags'[p] = r /\ status'[p] = "downloading"
      /\ x.pc = "off" => /\ flags'[p] = None /\ status'[p] \in {"failed", "completed"}
                         /\ status'[p] = "completed" => received'[p] = Chunks[p]
  BY <1>0, <1>1 DEF Moves, Ends, Statuses
<1>5. TypeOK'
  <2>1. /\ main' \in {"opening", "poll", "single", "single done", "done", "failed"}
        /\ phase2' \in BOOLEAN /\ aborted' \in BOOLEAN /\ clicks' \in 0 .. MaxClicks /\ wrong' \subseteq Parts
    BY <1>0 DEF Step, WorkerInv, TypeOK
  <2> QED
    BY <1>0, <1>2, <1>3, <1>4, <2>1 DEF Step, TypeOK, RunType
<1>6. HasFlags'
  <2>1. \A s \in Runs : run'[s].pc # "off" => flags'[s[1]] = s
    <3> SUFFICES ASSUME NEW s \in Runs, run'[s].pc # "off" PROVE flags'[s[1]] = s
      OBVIOUS
    <3>1. CASE s = r
      BY <1>2, <1>4, <3>1
    <3>2. CASE s # r
      <4>1. ~On(s, "off")
        BY <1>2, <3>2 DEF On
      <4>2. s[1] # p /\ s[1] \in Parts
        BY <1>0, <3>2, <4>1, RunsAre
      <4> QED
        BY <1>4, <4>1, <4>2 DEF WorkerInv, HasFlags
    <3> QED
      BY <3>1, <3>2
  <2>2. ASSUME NEW q \in Parts
        PROVE  /\ flags'[q] # None => flags'[q] \in Runs /\ flags'[q][1] = q /\ run'[flags'[q]].pc # "off"
               /\ flags'[q] # None <=> status'[q] = "downloading"
    <3>1. CASE q = p
      BY <1>0, <1>2, <1>4, <3>1, RunsAre
    <3>2. CASE q # p
      <4>1. /\ flags[q] # None => flags[q] \in Runs /\ flags[q][1] = q /\ ~On(flags[q], "off")
            /\ flags[q] # None <=> status[q] = "downloading"
        BY DEF WorkerInv, HasFlags
      <4>2. flags[q] # r
        BY <3>2, <4>1, <1>0, RunsAre
      <4> QED
        BY <1>2, <1>4, <3>2, <4>1, <4>2 DEF On
    <3> QED
      BY <3>1, <3>2
  <2> QED
    BY <2>1, <2>2 DEF HasFlags, On
<1>7. AtReceived'
  <2> SUFFICES ASSUME NEW s \in Runs
               PROVE  /\ run'[s].pc \in {"fetch", "stream", "write"} => run'[s].at = received'[s[1]]
                      /\ run'[s].pc = "write" => run'[s].at < Chunks[s[1]]
    BY DEF AtReceived, On
  <2>1. CASE s = r
    BY <1>1, <1>2, <2>1 DEF Moves, Ends, AtWork
  <2>2. CASE s # r
    <3>1. run'[s] = run[s]
      BY <1>2, <2>2
    <3>2. run[s].pc # "off" => s[1] # p /\ s[1] \in Parts
      BY <1>0, <2>2, RunsAre DEF On
    <3>3. run[s].pc # "off" => received'[s[1]] = received[s[1]]
      BY <1>3, <3>2
    <3> QED
      BY <3>1, <3>3 DEF WorkerInv, AtReceived, On
  <2> QED
    BY <2>1, <2>2
<1>8. Sound'
  <2>1. wrong' = {} /\ main' = main
    BY <1>0 DEF Step, WorkerInv, Sound
  <2>2. \A q \in Parts : status'[q] = "completed" => received'[q] = Chunks[q]
    <3> SUFFICES ASSUME NEW q \in Parts, status'[q] = "completed" PROVE received'[q] = Chunks[q]
      OBVIOUS
    <3>1. CASE q = p
      BY <1>4, <3>1
    <3>2. CASE q # p
      BY <1>3, <1>4, <3>2 DEF WorkerInv, Sound
    <3> QED
      BY <3>1, <3>2
  <2>3. main # "done" /\ main # "opening"
    BY <1>0 DEF WorkerInv, Sound, Whole
  <2> QED
    BY <2>1, <2>2, <2>3 DEF Sound
<1> QED
  BY <1>5, <1>6, <1>7, <1>8 DEF WorkerInv

LEMMA Counting == \A a, b \in Nat : a + b \in Nat /\ (a <= b /\ ~(a < b) => a = b)
OBVIOUS

\* Parts that nobody works on start: their flags are those of their first coroutine.
LEMMA LaunchKeeps ==
    ASSUME WorkerInv, NEW S \in SUBSET Parts, NEW auto \in [Parts -> Nat], NEW by \in {"loop", "click"},
           \A p \in S : flags[p] = None,
           Launch(S, auto, by),
           received' = received, wrong' = wrong, last' = last, waiters' = waiters, gate' = gate,
           main' \in {"poll", "single", "single done", "failed"},
           special' \in BOOLEAN, phase2' \in BOOLEAN, aborted' \in BOOLEAN, clicks' \in 0 .. MaxClicks
    PROVE  WorkerInv'
<1> DEFINE go == {p \in S : received[p] < Chunks[p]}
           new(p) == [pc |-> "fetch", attempt |-> 1, auto |-> auto[p], limit |-> auto[p] + MaxRestarts,
                      requested |-> FALSE, at |-> received[p], by |-> by]
<1>1. \A r \in Runs : r[1] \in S => On(r, "off")
  <2> SUFFICES ASSUME NEW r \in Runs, r[1] \in S, ~On(r, "off") PROVE FALSE
    OBVIOUS
  <2>1. flags[r[1]] = r
    BY DEF WorkerInv, HasFlags
  <2>2. r # None
    BY RunsAre
  <2> QED
    BY <2>1, <2>2
<1>2. \A p \in S : On(<<p, 1>>, "off") /\ <<p, 1>> \in Runs /\ <<p, 1>>[1] = p /\ <<p, 1>>[2] = 1 /\ <<p, 1>> # None
  BY <1>1, RunsAre
<1>3. /\ run' = [r \in Runs |-> IF r[1] \in go /\ r[2] = 1 THEN new(r[1]) ELSE run[r]]
      /\ flags' = [p \in Parts |-> IF p \in go THEN <<p, 1>> ELSE IF p \in S THEN None ELSE flags[p]]
      /\ status' = [p \in Parts |-> IF p \in go THEN "downloading" ELSE IF p \in S THEN "completed" ELSE status[p]]
  <2> DEFINE slot(p) == IF On(<<p, 1>>, "off") THEN 1 ELSE 2
  <2>1. \A p \in go : slot(p) = 1
    BY <1>2
  <2>2. run' = [r \in Runs |-> IF r[1] \in go /\ r[2] = slot(r[1]) THEN new(r[1]) ELSE run[r]]
    BY DEF Launch
  <2>3. flags' = [p \in Parts |-> IF p \in go THEN <<p, slot(p)>> ELSE IF p \in S THEN None ELSE flags[p]]
    BY DEF Launch
  <2>4. status' = [p \in Parts |-> IF p \in go THEN "downloading" ELSE IF p \in S THEN "completed" ELSE status[p]]
    BY DEF Launch
  <2> HIDE DEF slot, go, new
  <2> QED
    BY <2>1, <2>2, <2>3, <2>4
<1>4. \A p \in Parts : new(p) \in RunType /\ new(p).pc = "fetch" /\ new(p).at = received[p]
  <2> SUFFICES ASSUME NEW p \in Parts
               PROVE new(p) \in RunType /\ new(p).pc = "fetch" /\ new(p).at = received[p]
    OBVIOUS
  <2>0. auto[p] \in Nat /\ MaxRestarts \in Nat
    BY Numbers
  <2>a. received[p] \in Nat
    BY DEF WorkerInv, TypeOK
  <2>1. auto[p] \in Nat /\ auto[p] + MaxRestarts \in Nat /\ received[p] \in Nat
    BY <2>0, <2>a, Counting
  <2> QED
    BY <2>1, Numbers DEF RunType
<1>5. /\ run \in [Runs -> RunType] /\ flags \in [Parts -> Runs \cup {None}] /\ status \in [Parts -> Statuses]
      /\ received \in [Parts -> Nat] /\ \A p \in Parts : received[p] <= Chunks[p]
      /\ \A p \in Parts : Chunks[p] \in Nat
  BY Numbers DEF WorkerInv, TypeOK, RunType
<1>6. go \subseteq S /\ \A p \in S \ go : received[p] = Chunks[p]
  <2> SUFFICES ASSUME NEW p \in S, ~(received[p] < Chunks[p]) PROVE received[p] = Chunks[p]
    OBVIOUS
  <2>1. received[p] \in Nat /\ Chunks[p] \in Nat /\ received[p] <= Chunks[p]
    BY <1>5
  <2> QED
    BY <2>1, Counting
<1> HIDE DEF go, new
<1>7. \A r \in Runs : run'[r] = IF r[1] \in go /\ r[2] = 1 THEN new(r[1]) ELSE run[r]
  BY <1>3
<1>8. \A p \in Parts : /\ flags'[p] = (IF p \in go THEN <<p, 1>> ELSE IF p \in S THEN None ELSE flags[p])
                       /\ status'[p] = (IF p \in go THEN "downloading" ELSE IF p \in S THEN "completed" ELSE status[p])
  BY <1>3
<1>9. TypeOK'
  <2>1. run' \in [Runs -> RunType]
    BY <1>3, <1>4, <1>5, RunsAre
  <2>2. flags' \in [Parts -> Runs \cup {None}]
    BY <1>2, <1>3, <1>5, <1>6
  <2>3. status' \in [Parts -> Statuses]
    BY <1>3, <1>5 DEF Statuses
  <2>4. /\ received' \in [Parts -> Nat] /\ \A p \in Parts : received'[p] <= Chunks[p]
        /\ wrong' \subseteq Parts /\ last' \in [Parts -> Nat] /\ waiters' \in Seq(Runs) /\ gate' \in {0, 1}
    BY DEF WorkerInv, TypeOK
  <2> QED
    BY <2>1, <2>2, <2>3, <2>4 DEF TypeOK, RunType
<1>10. HasFlags'
  <2>1. \A r \in Runs : run'[r].pc # "off" => flags'[r[1]] = r
    <3> SUFFICES ASSUME NEW r \in Runs, run'[r].pc # "off" PROVE flags'[r[1]] = r
      OBVIOUS
    <3>1. CASE r[1] \in go
      <4>1. r[2] = 1
        BY <1>1, <1>6, <1>7, <3>1 DEF On
      <4>2. r[1] \in Parts /\ r = <<r[1], r[2]>>
        BY RunsAre
      <4>3. flags'[r[1]] = <<r[1], 1>>
        BY <1>8, <3>1, <4>2
      <4> QED
        BY <4>1, <4>2, <4>3
    <3>2. CASE r[1] \notin go
      <4>1. ~On(r, "off")
        BY <1>7, <3>2 DEF On
      <4>2. r[1] \notin S
        BY <1>1, <4>1
      <4> QED
        BY <1>8, <3>2, <4>1, <4>2, RunsAre DEF WorkerInv, HasFlags
    <3> QED
      BY <3>1, <3>2
  <2>2. ASSUME NEW p \in Parts
        PROVE  /\ flags'[p] # None => flags'[p] \in Runs /\ flags'[p][1] = p /\ run'[flags'[p]].pc # "off"
               /\ flags'[p] # None <=> status'[p] = "downloading"
    <3>1. CASE p \in go
      <4>1. flags'[p] = <<p, 1>> /\ status'[p] = "downloading"
        BY <1>8, <3>1
      <4>2. <<p, 1>> \in Runs /\ <<p, 1>>[1] = p /\ <<p, 1>>[2] = 1 /\ <<p, 1>> # None
        BY <1>2, <1>6, <3>1
      <4>3. run'[<<p, 1>>] = new(p)
        BY <1>7, <3>1, <4>2
      <4>4. new(p).pc = "fetch"
        BY <1>4
      <4> QED
        BY <4>1, <4>2, <4>3, <4>4
    <3>2. CASE p \in S \ go
      BY <1>8, <3>2
    <3>3. CASE p \notin S
      <4>1. flags'[p] = flags[p] /\ status'[p] = status[p]
        BY <1>6, <1>8, <3>3
      <4>2. /\ flags[p] # None => flags[p] \in Runs /\ flags[p][1] = p /\ run[flags[p]].pc # "off"
            /\ flags[p] # None <=> status[p] = "downloading"
        BY DEF WorkerInv, HasFlags, On
      <4>3. flags[p] # None => run'[flags[p]] = run[flags[p]]
        BY <1>6, <1>7, <3>3, <4>2
      <4> QED
        BY <4>1, <4>2, <4>3
    <3> QED
      BY <3>1, <3>2, <3>3
  <2> QED
    BY <2>1, <2>2 DEF HasFlags, On
<1>11. AtReceived'
  <2> SUFFICES ASSUME NEW r \in Runs
               PROVE  /\ run'[r].pc \in {"fetch", "stream", "write"} => run'[r].at = received'[r[1]]
                      /\ run'[r].pc = "write" => run'[r].at < Chunks[r[1]]
    BY DEF AtReceived, On
  <2>1. CASE r[1] \in go /\ r[2] = 1
    BY <1>4, <1>7, <2>1, RunsAre, ZenonT(60)
  <2>2. CASE ~(r[1] \in go /\ r[2] = 1)
    <3>1. run'[r] = run[r]
      BY <1>7, <2>2
    <3> QED
      BY <3>1 DEF WorkerInv, AtReceived, On
  <2> QED
    BY <2>1, <2>2
<1>12. Sound'
  <2>1. wrong' = {} /\ main' # "done" /\ main' # "opening"
    BY DEF WorkerInv, Sound
  <2>2. \A p \in Parts : status'[p] = "completed" => received'[p] = Chunks[p]
    BY <1>6, <1>8 DEF WorkerInv, Sound
  <2> QED
    BY <2>1, <2>2 DEF Sound
<1> QED
  BY <1>9, <1>10, <1>11, <1>12 DEF WorkerInv

LEMMA ClickKeeps ==
    ASSUME WorkerInv, NEW p \in Parts, Click(p)
    PROVE  WorkerInv'
<1>0. clicks' \in 0 .. MaxClicks
  <2>0. clicks \in 0 .. MaxClicks
    BY DEF WorkerInv, TypeOK
  <2>a. clicks < MaxClicks /\ clicks' = clicks + 1
    BY DEF Click
  <2>1. clicks \in Nat /\ clicks < MaxClicks /\ clicks' = clicks + 1
    BY <2>0, <2>a, Numbers
  <2> QED
    BY <2>1, Numbers
<1>l. main' = main /\ special' = special /\ phase2' = phase2 /\ aborted' = aborted
  BY DEF Click, loop
<1>1. CASE /\ flags[p] # None
           /\ run' = [run EXCEPT ![flags[p]].requested = TRUE,
                                 ![flags[p]].limit = run[flags[p]].auto + MaxRestarts]
           /\ UNCHANGED <<status, flags>>
  <2>1. PICK r \in Runs : r = flags[p] /\ ~On(r, "off")
    BY <1>1 DEF WorkerInv, HasFlags
  <2>2. run' = [run EXCEPT ![r].requested = TRUE, ![r].limit = run[r].auto + MaxRestarts]
    BY <1>1, <2>1
  <2>3. run[r] \in RunType /\ run \in [Runs -> RunType]
    BY DEF WorkerInv, TypeOK, RunType
  <2>4. run[r].auto \in Nat
    BY <2>3 DEF RunType
  <2>5. run[r].auto + MaxRestarts \in Nat
    BY <2>4, Numbers
  <2> DEFINE x == [run[r] EXCEPT !.requested = TRUE, !.limit = run[r].auto + MaxRestarts]
  <2>6. x \in RunType /\ x.pc = run[r].pc /\ x.at = run[r].at
    BY <2>3, <2>5 DEF RunType
  <2>7. run' = [run EXCEPT ![r] = x]
    BY <2>2, <2>3 DEF RunType
  <2> HIDE DEF x
  <2>8. /\ run' \in [Runs -> RunType]
        /\ \A s \in Runs : run'[s].pc = run[s].pc /\ run'[s].at = run[s].at
    BY <2>3, <2>6, <2>7
  <2>9. /\ status' = status /\ received' = received /\ wrong' = wrong /\ flags' = flags /\ last' = last
        /\ waiters' = waiters /\ gate' = gate
    BY <1>1 DEF Click
  <2>10. TypeOK'
    BY <1>0, <1>l, <2>8, <2>9 DEF WorkerInv, TypeOK, RunType
  <2>11. HasFlags'
    BY <2>8, <2>9 DEF WorkerInv, HasFlags, On
  <2>12. AtReceived'
    BY <2>8, <2>9 DEF WorkerInv, AtReceived, On
  <2>13. Sound'
    BY <1>l, <2>9 DEF WorkerInv, Sound, Whole
  <2> QED
    BY <2>10, <2>11, <2>12, <2>13 DEF WorkerInv
<1>2. CASE flags[p] = None /\ status[p] # "completed" /\ main # "done" /\ ~aborted /\ Launch({p}, last, "click")
  <2>1. {p} \in SUBSET Parts /\ last \in [Parts -> Nat] /\ \A q \in {p} : flags[q] = None
    BY <1>2 DEF WorkerInv, TypeOK
  <2>2. /\ received' = received /\ wrong' = wrong /\ last' = last /\ waiters' = waiters /\ gate' = gate
    BY DEF Click
  <2>3. main' \in {"poll", "single", "single done", "failed"}
    BY <1>2, <1>l DEF Click, WorkerInv, TypeOK
  <2>4. special' \in BOOLEAN /\ phase2' \in BOOLEAN /\ aborted' \in BOOLEAN
    BY <1>l DEF WorkerInv, TypeOK
  <2> QED
    BY <1>0, <1>2, <2>1, <2>2, <2>3, <2>4, LaunchKeeps
<1> QED
  BY <1>1, <1>2 DEF Click

LEMMA PollKeeps ==
    ASSUME WorkerInv, Poll
    PROVE  WorkerInv'
<1>0. /\ clicks \in 0 .. MaxClicks /\ special \in BOOLEAN /\ phase2 \in BOOLEAN /\ aborted \in BOOLEAN
      /\ TRUE \in BOOLEAN /\ last \in [Parts -> Nat]
  BY DEF WorkerInv, TypeOK
<1>1. CASE Opened
  <2>1. \A p \in Parts : flags[p] = None
    BY <1>1 DEF Opened, WorkerInv, Sound, HasFlags
  <2>2. [p \in Parts |-> 0] \in [Parts -> Nat]
    OBVIOUS
  <2>3. Launch(Parts, [p \in Parts |-> 0], "loop")
    BY <1>1 DEF Opened
  <2>4. /\ received' = received /\ wrong' = wrong /\ last' = last /\ waiters' = waiters /\ gate' = gate
        /\ main' = "poll" /\ special' = special /\ phase2' = phase2 /\ aborted' = aborted /\ clicks' = clicks
    BY <1>1 DEF Opened
  <2>5. Parts \in SUBSET Parts
    OBVIOUS
  <2> QED
    BY <1>0, <2>1, <2>2, <2>3, <2>4, <2>5, LaunchKeeps
<1>2. CASE SecondPhase
  <2>1. \A p \in Failed : flags[p] = None
    BY DEF Failed, WorkerInv, HasFlags
  <2>2. Failed \in SUBSET Parts
    BY DEF Failed
  <2>3. /\ received' = received /\ wrong' = wrong /\ last' = last /\ waiters' = waiters /\ gate' = gate
        /\ main' = "poll" /\ special' = special /\ phase2' = TRUE /\ aborted' = aborted /\ clicks' = clicks
        /\ Launch(Failed, last, "loop")
    BY <1>2 DEF SecondPhase
  <2> QED
    BY <1>0, <2>1, <2>2, <2>3, LaunchKeeps
<1>3. CASE GivesUp \/ Closes \/ SingleEnds
  <2>1. /\ status' = status /\ received' = received /\ wrong' = wrong /\ run' = run /\ flags' = flags
        /\ last' = last /\ waiters' = waiters /\ gate' = gate /\ special' = special /\ phase2' = phase2
        /\ clicks' = clicks /\ aborted' \in BOOLEAN
    BY <1>0, <1>3 DEF GivesUp, Closes, SingleEnds
  <2>2. main' \in {"single", "single done", "failed"} \/ (main' = "done" /\ Whole)
    BY <1>3 DEF GivesUp, Closes, SingleEnds
  <2>3. TypeOK'
    BY <2>1, <2>2 DEF WorkerInv, TypeOK
  <2>4. HasFlags' /\ AtReceived'
    BY <2>1 DEF WorkerInv, HasFlags, AtReceived, On
  <2>5. Sound'
    BY <2>1, <2>2 DEF WorkerInv, Sound, Whole
  <2> QED
    BY <2>3, <2>4, <2>5 DEF WorkerInv
<1> QED
  BY <1>1, <1>2, <1>3 DEF Poll

LEMMA WorkerStarts == Init => WorkerInv
<1> SUFFICES ASSUME Init PROVE WorkerInv
  OBVIOUS
<1>1. TypeOK
  <2>1. run \in [Runs -> RunType]
    BY NoRunTyped DEF Init
  <2>2. waiters \in Seq(Runs) /\ gate \in {0, 1}
    BY EmptySeq DEF Init
  <2>3. /\ status \in [Parts -> Statuses] /\ wrong \subseteq Parts
        /\ flags \in [Parts -> Runs \cup {None}] /\ last \in [Parts -> Nat]
    BY DEF Init, Statuses
  <2>4. received \in [Parts -> Nat] /\ \A p \in Parts : received[p] <= Chunks[p]
    <3>1. \A p \in Parts : Chunks[p] \in Nat /\ received[p] = 0
      BY Numbers DEF Init
    <3> QED
      BY <3>1 DEF Init
  <2>5. /\ main \in {"opening", "poll", "single", "single done", "done", "failed"}
        /\ special \in BOOLEAN /\ phase2 \in BOOLEAN /\ aborted \in BOOLEAN /\ clicks \in 0 .. MaxClicks
    BY Numbers DEF Init
  <2> QED
    BY <2>1, <2>2, <2>3, <2>4, <2>5 DEF TypeOK, RunType
<1>2. HasFlags /\ AtReceived
  BY NoRunTyped DEF Init, HasFlags, AtReceived, On
<1>3. Sound
  BY DEF Init, Sound
<1> QED
  BY <1>1, <1>2, <1>3 DEF WorkerInv

LEMMA WorkerKeeps ==
    ASSUME WorkerInv, [Next]_vars
    PROVE  WorkerInv'
<1>1. CASE Next
  BY <1>1, RunStepKeeps, ClickKeeps, PollKeeps DEF Next
<1>2. CASE UNCHANGED vars
  <2>1. /\ status' = status /\ received' = received /\ wrong' = wrong /\ run' = run /\ flags' = flags
        /\ last' = last /\ waiters' = waiters /\ gate' = gate /\ main' = main /\ special' = special
        /\ phase2' = phase2 /\ aborted' = aborted /\ clicks' = clicks
    BY <1>2 DEF vars
  <2>2. TypeOK'
    BY <2>1 DEF WorkerInv, TypeOK
  <2>3. HasFlags' /\ AtReceived' /\ Sound'
    BY <2>1 DEF WorkerInv, HasFlags, AtReceived, Sound, On, Whole
  <2> QED
    BY <2>2, <2>3 DEF WorkerInv
<1> QED
  BY <1>1, <1>2

LEMMA WorkerIsWhole == WorkerInv => FileIsWhole
BY DEF WorkerInv, Sound, FileIsWhole, Whole

\* One coroutine at a time works on a part, and the button reaches it.
LEMMA OneAtWork == WorkerInv => OneRunPerPart
<1> SUFFICES ASSUME WorkerInv, NEW p \in Parts
             PROVE Cardinality(Live(p)) <= 1 /\ \A r \in Live(p) : flags[p] = r
  BY DEF OneRunPerPart
<1>1. \A r \in Live(p) : flags[p] = r
  BY DEF Live, WorkerInv, HasFlags
<1>2. Live(p) \subseteq {flags[p]}
  BY <1>1
<1>3. IsFiniteSet({flags[p]}) /\ Cardinality({flags[p]}) = 1
  BY FS_Singleton
<1>4. Cardinality(Live(p)) <= Cardinality({flags[p]})
  BY <1>2, <1>3, FS_Subset
<1> QED
  BY <1>1, <1>3, <1>4

-----------------------------------------------------------------------------
(* The file of the cloud                                                    *)

RunTypeC == [pc : {"off", "load", "stream", "ended", "returned", "then", "rejected"}, at : Nat, aborts : Nat]

LEMMA CloudRunsAre ==
    /\ \A r \in C!Runs : r[1] \in Parts /\ r[2] \in Nat /\ r = <<r[1], r[2]>>
    /\ \A r, s \in C!Runs : r[1] = s[1] /\ ~C!Superseded(r) /\ ~C!Superseded(s) => r = s
<1>1. MaxRefreshes \in Nat
  BY TransfersAssumption
<1>2. \A r \in C!Runs : r[1] \in Parts /\ r[2] \in 1 .. MaxRefreshes + 1 /\ r = <<r[1], r[2]>>
  BY DEF C!Runs
<1>3. \A n \in 1 .. MaxRefreshes + 1 : n \in Nat
  BY <1>1
<1>4. \A m, n \in Nat : m - 1 = n - 1 => m = n
  OBVIOUS
<1>5. \A r, s \in C!Runs : r[1] = s[1] /\ ~C!Superseded(r) /\ ~C!Superseded(s) => r = s
  <2> SUFFICES ASSUME NEW r \in C!Runs, NEW s \in C!Runs, r[1] = s[1], ~C!Superseded(r), ~C!Superseded(s)
               PROVE r = s
    OBVIOUS
  <2>1. r[2] - 1 = s[2] - 1
    BY DEF C!Superseded
  <2>2. r[2] = s[2]
    BY <1>2, <1>3, <1>4, <2>1
  <2> QED
    BY <1>2, <2>2
<1> QED
  BY <1>2, <1>3, <1>5

LEMMA StatesTyped ==
    /\ C!NotStarted \in RunTypeC /\ C!Loading \in RunTypeC /\ C!Loading.pc = "load" /\ C!NotStarted.pc = "off"
    /\ \A pc \in {"off", "load", "stream", "ended", "returned", "then", "rejected"} :
          [C!NotStarted EXCEPT !.pc = pc] \in RunTypeC /\ [C!NotStarted EXCEPT !.pc = pc].pc = pc
    /\ \A n \in Nat : [C!Loading EXCEPT !.aborts = n] \in RunTypeC /\ [C!Loading EXCEPT !.aborts = n].pc = "load"
BY DEF RunTypeC, C!NotStarted, C!Loading

LEMMA CloudFacts ==
    ASSUME CloudInv
    PROVE  /\ c_received \in [Parts -> Nat] /\ c_gen \in [Parts -> Nat] /\ c_run \in [C!Runs -> RunTypeC]
           /\ c_chain \in Seq(Entry) /\ c_wrong \subseteq Parts /\ c_overtaken \subseteq Parts
           /\ \A p \in Parts : c_received[p] \in Nat /\ Chunks[p] \in Nat /\ c_received[p] <= Chunks[p]
           /\ Len(c_chain) \in Nat
           /\ \A i \in 1 .. Len(c_chain) : c_chain[i] \in Entry
BY Numbers, LenProperties, ElementOfSeq DEF CloudInv, CloudTyped, RunTypeC

\* A step that touches neither the chain nor the file: the streams it opens start at
\* the first byte that is missing, with nothing of their part in the chain.
LEMMA QuietKeeps ==
    ASSUME CloudInv,
           c_received' = c_received, c_chain' = c_chain, c_wrong' = c_wrong,
           c_overtaken \subseteq c_overtaken', c_overtaken' \subseteq Parts,
           c_gen' \in [Parts -> Nat], c_run' \in [C!Runs -> RunTypeC],
           c_final' # "no" => \A p \in Parts : c_received[p] = Chunks[p],
           \A r \in C!Runs : r[1] \in Parts \ c_overtaken' /\ c_run'[r].pc = "stream" /\ c_gen'[r[1]] = r[2] - 1 =>
               \/ c_run'[r].at = c_run[r].at /\ C!On(r, "stream") /\ ~C!Superseded(r)
               \/ c_run'[r].at = c_received[r[1]] /\ \A i \in 1 .. Len(c_chain) : ~OfPart(r[1], i)
    PROVE  CloudInv'
<1>1. CloudTyped'
  BY DEF CloudInv, CloudTyped, RunTypeC
<1>2. \A p \in Parts \ c_overtaken' : p \notin c_wrong' /\ InLine(p)'
  <2> SUFFICES ASSUME NEW p \in Parts \ c_overtaken' PROVE p \notin c_wrong' /\ InLine(p)'
    OBVIOUS
  <2>1. p \in Parts \ c_overtaken
    OBVIOUS
  <2>2. p \notin c_wrong /\ InLine(p)
    BY <2>1 DEF CloudInv
  <2> QED
    BY <2>2 DEF InLine, OfPart
<1>3. \A p \in Parts \ c_overtaken' : InFlow(p)'
  <2> SUFFICES ASSUME NEW p \in Parts \ c_overtaken', NEW r \in C!Runs,
                      r[1] = p, c_run'[r].pc = "stream", c_gen'[p] = r[2] - 1
               PROVE  /\ c_received[p] <= c_run'[r].at
                      /\ \A i \in 1 .. Len(c_chain) : OfPart(p, i) => c_chain[i].at < c_run'[r].at
                      /\ \A v \in Nat : c_received[p] <= v /\ v < c_run'[r].at =>
                            \E i \in 1 .. Len(c_chain) : OfPart(p, i) /\ c_chain[i].at = v
    BY DEF InFlow, OfPart, C!On, C!Superseded
  <2>1. CASE c_run'[r].at = c_run[r].at /\ C!On(r, "stream") /\ ~C!Superseded(r)
    <3>1. InFlow(p)
      BY DEF CloudInv
    <3> QED
      BY <2>1, <3>1 DEF InFlow
  <2>2. CASE c_run'[r].at = c_received[p] /\ \A i \in 1 .. Len(c_chain) : ~OfPart(p, i)
    <3>1. c_received[p] \in Nat
      BY CloudFacts
    <3>2. \A v, n \in Nat : n <= n /\ ~(n <= v /\ v < n)
      OBVIOUS
    <3> QED
      BY <2>2, <3>1, <3>2
  <2> QED
    BY <2>1, <2>2
<1>4. \A i \in 1 .. Len(c_chain') : ~c_chain'[i].end => c_chain'[i].at < Chunks[c_chain'[i].r[1]]
  BY DEF CloudInv
<1> QED
  BY <1>1, <1>2, <1>3, <1>4 DEF CloudInv

\* A coroutine goes where it has no stream.
LEMMA LeavesKeeps ==
    ASSUME CloudInv, NEW r \in C!Runs, NEW x \in RunTypeC, x.pc # "stream",
           c_run' = [c_run EXCEPT ![r] = x],
           c_received' = c_received, c_chain' = c_chain, c_wrong' = c_wrong,
           c_overtaken' = c_overtaken, c_gen' = c_gen,
           c_final' = c_final \/ \A p \in Parts : c_received[p] = Chunks[p]
    PROVE  CloudInv'
<1>1. c_run' \in [C!Runs -> RunTypeC] /\ c_run'[r] = x /\ \A s \in C!Runs \ {r} : c_run'[s] = c_run[s]
  BY CloudFacts
<1>2. \A s \in C!Runs : s[1] \in Parts \ c_overtaken' /\ c_run'[s].pc = "stream" /\ c_gen'[s[1]] = s[2] - 1 =>
          c_run'[s].at = c_run[s].at /\ C!On(s, "stream") /\ ~C!Superseded(s)
  BY <1>1 DEF C!On, C!Superseded
<1>3. c_final' # "no" => \A p \in Parts : c_received[p] = Chunks[p]
  BY DEF CloudInv
<1>4. c_gen' \in [Parts -> Nat] /\ c_overtaken' \subseteq Parts
  BY CloudFacts
<1> QED
  BY <1>1, <1>2, <1>3, <1>4, QuietKeeps

LEMMA OpensKeeps ==
    ASSUME CloudInv, NEW r \in C!Runs, C!Opens(r)
    PROVE  CloudInv'
<1> DEFINE p == r[1]
           x == [c_run[r] EXCEPT !.pc = "stream", !.at = c_received[p]]
<1>0. p \in Parts
  BY CloudRunsAre
<1>1. x \in RunTypeC /\ x.pc = "stream" /\ x.at = c_received[p]
  BY <1>0, CloudFacts DEF RunTypeC
<1>2. c_run' = [c_run EXCEPT ![r] = x]
  BY CloudFacts DEF C!Opens, RunTypeC
<1>3. /\ c_received' = c_received /\ c_chain' = c_chain /\ c_wrong' = c_wrong /\ c_gen' = c_gen /\ c_final' = c_final
      /\ ~C!Superseded(r)
      /\ c_overtaken' = IF C!Queued(p) THEN c_overtaken \cup {p} ELSE c_overtaken
  BY DEF C!Opens
<1> HIDE DEF x
<1>4. c_run' \in [C!Runs -> RunTypeC] /\ c_run'[r] = x /\ \A s \in C!Runs \ {r} : c_run'[s] = c_run[s]
  BY <1>1, <1>2, CloudFacts
<1>5. c_overtaken \subseteq c_overtaken' /\ c_overtaken' \subseteq Parts
  BY <1>0, <1>3, CloudFacts
<1>6. p \notin c_overtaken' => \A i \in 1 .. Len(c_chain) : ~OfPart(p, i)
  <2> SUFFICES ASSUME p \notin c_overtaken', NEW i \in 1 .. Len(c_chain), OfPart(p, i) PROVE FALSE
    OBVIOUS
  <2>1. DOMAIN c_chain = 1 .. Len(c_chain)
    BY CloudFacts, LenProperties
  <2>2. C!Queued(p)
    BY <2>1 DEF C!Queued, OfPart
  <2> QED
    BY <1>3, <2>2
<1>7. \A s \in C!Runs : s[1] \in Parts \ c_overtaken' /\ c_run'[s].pc = "stream" /\ c_gen'[s[1]] = s[2] - 1 =>
          \/ c_run'[s].at = c_run[s].at /\ C!On(s, "stream") /\ ~C!Superseded(s)
          \/ c_run'[s].at = c_received[s[1]] /\ \A i \in 1 .. Len(c_chain) : ~OfPart(s[1], i)
  <2> SUFFICES ASSUME NEW s \in C!Runs, s[1] \in Parts \ c_overtaken', c_run'[s].pc = "stream", c_gen'[s[1]] = s[2] - 1
               PROVE \/ c_run'[s].at = c_run[s].at /\ C!On(s, "stream") /\ ~C!Superseded(s)
                     \/ c_run'[s].at = c_received[s[1]] /\ \A i \in 1 .. Len(c_chain) : ~OfPart(s[1], i)
    OBVIOUS
  <2>1. CASE s = r
    BY <1>1, <1>4, <1>6, <2>1
  <2>2. CASE s # r
    BY <1>3, <1>4, <2>2 DEF C!On, C!Superseded
  <2> QED
    BY <2>1, <2>2
<1>8. c_final' # "no" => \A q \in Parts : c_received[q] = Chunks[q]
  BY <1>3 DEF CloudInv
<1>9. c_gen' \in [Parts -> Nat]
  BY <1>3, CloudFacts
<1> QED
  BY <1>3, <1>4, <1>5, <1>7, <1>8, <1>9, QuietKeeps

LEMMA RefreshKeeps ==
    ASSUME CloudInv, NEW p \in Parts, C!Refresh(p)
    PROVE  CloudInv'
<1>1. /\ c_received' = c_received /\ c_chain' = c_chain /\ c_wrong' = c_wrong /\ c_final' = c_final
      /\ c_overtaken' = c_overtaken /\ c_gen' = [c_gen EXCEPT ![p] = @ + 1]
      /\ c_run' = [c_run EXCEPT ![<<p, c_gen[p] + 2>>] = C!Loading]
  BY DEF C!Refresh
<1>2. c_gen[p] \in Nat
  BY CloudFacts
<1>3. c_gen[p] + 1 \in Nat
  BY <1>2
<1>4. c_gen' \in [Parts -> Nat] /\ c_gen'[p] = c_gen[p] + 1 /\ \A q \in Parts \ {p} : c_gen'[q] = c_gen[q]
  BY <1>1, <1>3, CloudFacts
<1>5. c_run' \in [C!Runs -> RunTypeC]
  BY <1>1, CloudFacts, StatesTyped
<1>6. \A s \in C!Runs : s[1] \in Parts \ c_overtaken' /\ c_run'[s].pc = "stream" /\ c_gen'[s[1]] = s[2] - 1 =>
          c_run'[s].at = c_run[s].at /\ C!On(s, "stream") /\ ~C!Superseded(s)
  <2> SUFFICES ASSUME NEW s \in C!Runs, c_run'[s].pc = "stream", c_gen'[s[1]] = s[2] - 1
               PROVE c_run'[s].at = c_run[s].at /\ C!On(s, "stream") /\ ~C!Superseded(s)
    OBVIOUS
  <2>1. s[1] \in Parts /\ s[2] \in Nat /\ s = <<s[1], s[2]>>
    BY CloudRunsAre
  <2>2. s # <<p, c_gen[p] + 2>>
    <3> SUFFICES ASSUME s = <<p, c_gen[p] + 2>> PROVE FALSE
      OBVIOUS
    <3>1. c_run'[s] = C!Loading
      BY <1>1, CloudFacts
    <3> QED
      BY <3>1, StatesTyped
  <2>3. c_run'[s] = c_run[s]
    BY <1>1, <2>2, CloudFacts
  <2>4. s[1] # p
    <3> SUFFICES ASSUME s[1] = p PROVE FALSE
      OBVIOUS
    <3>1. c_gen[p] + 1 = s[2] - 1
      BY <1>4
    <3>2. \A m, n \in Nat : m + 1 = n - 1 => n = m + 2
      OBVIOUS
    <3>3. s[2] = c_gen[p] + 2
      BY <1>2, <2>1, <3>1, <3>2
    <3> QED
      BY <2>1, <2>2, <3>3
  <2> QED
    BY <1>4, <2>1, <2>3, <2>4 DEF C!On, C!Superseded
<1>7. c_final' # "no" => \A q \in Parts : c_received[q] = Chunks[q]
  BY <1>1 DEF CloudInv
<1> QED
  BY <1>1, <1>4, <1>5, <1>6, <1>7, CloudFacts, QuietKeeps

\* What joins the chain is its last entry, what is done leaves at its head.
LEMMA ChainGrows ==
    ASSUME CloudInv, NEW e \in Entry, c_chain' = Append(c_chain, e)
    PROVE  /\ c_chain' \in Seq(Entry) /\ Len(c_chain') = Len(c_chain) + 1 /\ Len(c_chain) \in Nat
           /\ c_chain'[Len(c_chain) + 1] = e
           /\ \A i \in 1 .. Len(c_chain) : c_chain'[i] = c_chain[i]
           /\ \A i \in 1 .. Len(c_chain') : i \in 1 .. Len(c_chain) \/ i = Len(c_chain) + 1
           /\ \A i \in 1 .. Len(c_chain) : i \in 1 .. Len(c_chain') /\ i < Len(c_chain) + 1
           /\ Len(c_chain) + 1 \in 1 .. Len(c_chain')
<1>1. c_chain \in Seq(Entry) /\ Len(c_chain) \in Nat
  BY CloudFacts
<1>2. /\ c_chain' \in Seq(Entry) /\ Len(c_chain') = Len(c_chain) + 1
      /\ c_chain'[Len(c_chain) + 1] = e
      /\ \A i \in 1 .. Len(c_chain) : c_chain'[i] = c_chain[i]
  BY <1>1, AppendProperties
<1>3. \A n \in Nat : /\ \A i \in 1 .. n + 1 : i \in 1 .. n \/ i = n + 1
                     /\ \A i \in 1 .. n : i \in 1 .. n + 1 /\ i < n + 1
                     /\ n + 1 \in 1 .. n + 1
  OBVIOUS
<1> QED
  BY <1>1, <1>2, <1>3

LEMMA ChainMovesUp ==
    ASSUME CloudInv, c_chain # <<>>, c_chain' = Tail(c_chain)
    PROVE  /\ c_chain' \in Seq(Entry) /\ 1 \in 1 .. Len(c_chain) /\ Head(c_chain) = c_chain[1] /\ c_chain[1] \in Entry
           /\ \A i \in 1 .. Len(c_chain') : /\ i \in Nat /\ i + 1 \in 1 .. Len(c_chain) /\ 1 < i + 1
                                           /\ c_chain'[i] = c_chain[i + 1]
           /\ \A i \in 1 .. Len(c_chain) : i # 1 => \E j \in 1 .. Len(c_chain') : i = j + 1
<1>1. c_chain \in Seq(Entry) /\ Len(c_chain) \in Nat
  BY CloudFacts
<1>2. Len(c_chain) # 0
  BY <1>1, EmptySeq, LenProperties
<1>3. /\ c_chain' \in Seq(Entry) /\ Len(c_chain') = Len(c_chain) - 1 /\ Head(c_chain) = c_chain[1]
      /\ \A i \in 1 .. Len(c_chain') : c_chain'[i] = c_chain[i + 1]
  BY <1>1, HeadTailProperties
<1>4. \A n \in Nat : n # 0 => /\ 1 \in 1 .. n
                              /\ \A i \in 1 .. n - 1 : i \in Nat /\ i + 1 \in 1 .. n /\ 1 < i + 1
                              /\ \A i \in 1 .. n : i # 1 => i - 1 \in 1 .. n - 1 /\ i = (i - 1) + 1
  OBVIOUS
<1>5. 1 \in 1 .. Len(c_chain)
  BY <1>1, <1>2, <1>4
<1>6. \A i \in 1 .. Len(c_chain') : i \in Nat /\ i + 1 \in 1 .. Len(c_chain) /\ 1 < i + 1
  BY <1>1, <1>2, <1>3, <1>4
<1>7. \A i \in 1 .. Len(c_chain) : i # 1 => \E j \in 1 .. Len(c_chain') : i = j + 1
  BY <1>1, <1>2, <1>3, <1>4
<1>8. c_chain[1] \in Entry
  BY <1>1, <1>5, ElementOfSeq
<1> QED
  BY <1>3, <1>5, <1>6, <1>7, <1>8

LEMMA DataKeeps ==
    ASSUME CloudInv, NEW r \in C!Runs, C!Data(r)
    PROVE  CloudInv'
<1> DEFINE e == [r |-> r, at |-> c_run[r].at, end |-> FALSE]
           x == [c_run[r] EXCEPT !.at = c_run[r].at + 1]
           n == Len(c_chain)
<1>0. r[1] \in Parts
  BY CloudRunsAre
<1>1. /\ C!On(r, "stream") /\ ~C!Superseded(r) /\ c_run[r].at < Chunks[r[1]]
      /\ c_chain' = Append(c_chain, e) /\ c_run' = [c_run EXCEPT ![r].at = @ + 1]
      /\ c_received' = c_received /\ c_wrong' = c_wrong /\ c_gen' = c_gen /\ c_final' = c_final
      /\ c_overtaken' = c_overtaken
  BY DEF C!Data
<1>2. c_run[r] \in RunTypeC /\ c_run \in [C!Runs -> RunTypeC]
  BY CloudFacts
<1>3. c_run[r].at \in Nat
  BY <1>2 DEF RunTypeC
<1>4. c_run[r].at + 1 \in Nat
  BY <1>3
<1>5. e \in Entry /\ e.end = FALSE /\ e.r = r /\ e.at = c_run[r].at
  BY <1>3 DEF Entry
<1>6. x \in RunTypeC /\ x.pc = c_run[r].pc /\ x.at = c_run[r].at + 1
  BY <1>2, <1>4 DEF RunTypeC
<1>7. c_run' = [c_run EXCEPT ![r] = x]
  BY <1>1
<1> HIDE DEF e, x
<1>8. c_run' \in [C!Runs -> RunTypeC] /\ c_run'[r] = x /\ \A s \in C!Runs \ {r} : c_run'[s] = c_run[s]
  BY <1>2, <1>6, <1>7
<1>9. /\ c_chain' \in Seq(Entry) /\ Len(c_chain') = n + 1 /\ n \in Nat
      /\ c_chain'[n + 1] = e
      /\ \A i \in 1 .. n : c_chain'[i] = c_chain[i]
      /\ \A i \in 1 .. Len(c_chain') : i \in 1 .. n \/ i = n + 1
      /\ \A i \in 1 .. n : i \in 1 .. Len(c_chain') /\ i < n + 1
      /\ n + 1 \in 1 .. Len(c_chain')
  BY <1>1, <1>5, ChainGrows
<1> HIDE DEF n
<1>10. CloudTyped'
  BY <1>1, <1>8, <1>9 DEF CloudInv, CloudTyped, RunTypeC
<1>11. c_final' # "no" => \A p \in Parts : c_received'[p] = Chunks[p]
  BY <1>1 DEF CloudInv
<1>12. \A i \in 1 .. Len(c_chain') : ~c_chain'[i].end => c_chain'[i].at < Chunks[c_chain'[i].r[1]]
  <2> SUFFICES ASSUME NEW i \in 1 .. Len(c_chain'), ~c_chain'[i].end
               PROVE c_chain'[i].at < Chunks[c_chain'[i].r[1]]
    OBVIOUS
  <2>1. CASE i \in 1 .. n
    BY <1>9, <2>1 DEF CloudInv, n
  <2>2. CASE i = n + 1
    BY <1>1, <1>5, <1>9, <2>2
  <2> QED
    BY <1>9, <2>1, <2>2
<1>13. ASSUME NEW p \in Parts \ c_overtaken'
       PROVE  p \notin c_wrong' /\ InLine(p)' /\ InFlow(p)'
  <2>0. /\ p \notin c_wrong /\ InLine(p) /\ InFlow(p)
        /\ c_received[p] \in Nat
    BY <1>1, <1>13, CloudFacts DEF CloudInv
  <2> DEFINE Mine(i) == ~c_chain'[i].end /\ c_chain'[i].r[1] = p
  <2>1. \A i \in 1 .. n : Mine(i) <=> OfPart(p, i)
    BY <1>9 DEF OfPart
  <2>2. Mine(n + 1) <=> r[1] = p
    BY <1>5, <1>9
  <2>3. r[1] = p => /\ c_received[p] <= c_run[r].at
                    /\ \A i \in 1 .. n : OfPart(p, i) => c_chain[i].at < c_run[r].at
                    /\ \A v \in Nat : c_received[p] <= v /\ v < c_run[r].at =>
                          \E i \in 1 .. n : OfPart(p, i) /\ c_chain[i].at = v
    BY <1>1, <2>0 DEF InFlow, n
  <2> HIDE DEF Mine
  <2>4. \A i \in 1 .. Len(c_chain') : Mine(i) => c_received[p] <= c_chain'[i].at
    <3> SUFFICES ASSUME NEW i \in 1 .. Len(c_chain'), Mine(i) PROVE c_received[p] <= c_chain'[i].at
      OBVIOUS
    <3>1. CASE i \in 1 .. n
      BY <1>9, <2>0, <2>1, <3>1 DEF InLine, n
    <3>2. CASE i = n + 1
      BY <1>5, <1>9, <2>2, <2>3, <3>2
    <3> QED
      BY <1>9, <3>1, <3>2
  <2>5. \A i, j \in 1 .. Len(c_chain') : Mine(i) /\ Mine(j) /\ i < j => c_chain'[i].at < c_chain'[j].at
    <3> SUFFICES ASSUME NEW i \in 1 .. Len(c_chain'), NEW j \in 1 .. Len(c_chain'), Mine(i), Mine(j), i < j
                 PROVE c_chain'[i].at < c_chain'[j].at
      OBVIOUS
    <3>1. CASE j \in 1 .. n
      <4>1. i \in 1 .. n
        <5>1. \A k \in Nat : \A a \in 1 .. k : ~(k + 1 < a)
          OBVIOUS
        <5> QED
          BY <1>9, <3>1, <5>1
      <4>2. OfPart(p, i) /\ OfPart(p, j) /\ c_chain'[i] = c_chain[i] /\ c_chain'[j] = c_chain[j]
        BY <1>9, <2>1, <3>1, <4>1
      <4> QED
        BY <2>0, <3>1, <4>1, <4>2 DEF InLine, n
    <3>2. CASE j = n + 1
      <4>1. i \in 1 .. n
        <5>1. \A k \in Nat : ~(k + 1 < k + 1)
          OBVIOUS
        <5> QED
          BY <1>9, <3>2, <5>1
      <4>2. OfPart(p, i) /\ c_chain'[i] = c_chain[i] /\ c_chain'[j] = e /\ r[1] = p
        BY <1>9, <2>1, <2>2, <3>2, <4>1
      <4> QED
        BY <1>5, <2>3, <4>1, <4>2
    <3> QED
      BY <1>9, <3>1, <3>2
  <2>6. \A j \in 1 .. Len(c_chain') : Mine(j) =>
           \A v \in Nat : c_received[p] <= v /\ v < c_chain'[j].at =>
               \E i \in 1 .. Len(c_chain') : i < j /\ Mine(i) /\ c_chain'[i].at = v
    <3> SUFFICES ASSUME NEW j \in 1 .. Len(c_chain'), Mine(j), NEW v \in Nat, c_received[p] <= v, v < c_chain'[j].at
                 PROVE \E i \in 1 .. Len(c_chain') : i < j /\ Mine(i) /\ c_chain'[i].at = v
      OBVIOUS
    <3>1. CASE j \in 1 .. n
      <4>1. OfPart(p, j) /\ c_chain'[j] = c_chain[j]
        BY <1>9, <2>1, <3>1
      <4>2. PICK i \in 1 .. n : i < j /\ OfPart(p, i) /\ c_chain[i].at = v
        BY <2>0, <3>1, <4>1 DEF InLine, n
      <4> QED
        BY <1>9, <2>1, <4>2
    <3>2. CASE j = n + 1
      <4>1. c_chain'[j] = e /\ r[1] = p
        BY <1>9, <2>2, <3>2
      <4>2. PICK i \in 1 .. n : OfPart(p, i) /\ c_chain[i].at = v
        BY <1>5, <2>3, <4>1
      <4> QED
        BY <1>9, <2>1, <3>2, <4>2
    <3> QED
      BY <1>9, <3>1, <3>2
  <2>7. InLine(p)'
    BY <1>1, <2>4, <2>5, <2>6 DEF InLine, OfPart, Mine
  <2>8. ASSUME NEW s \in C!Runs, s[1] = p, c_run'[s].pc = "stream", c_gen'[p] = s[2] - 1
        PROVE  /\ c_received[p] <= c_run'[s].at
               /\ \A i \in 1 .. Len(c_chain') : Mine(i) => c_chain'[i].at < c_run'[s].at
               /\ \A v \in Nat : c_received[p] <= v /\ v < c_run'[s].at =>
                     \E i \in 1 .. Len(c_chain') : Mine(i) /\ c_chain'[i].at = v
    <3>1. CASE s = r
      <4>0. r[1] = p /\ c_run'[s].at = c_run[r].at + 1
        BY <1>6, <1>8, <2>8, <3>1
      <4>1. c_received[p] <= c_run'[s].at
        BY <1>3, <2>0, <2>3, <4>0
      <4>2. ASSUME NEW i \in 1 .. Len(c_chain'), Mine(i) PROVE c_chain'[i].at < c_run'[s].at
        <5>a. \A a, b \in Nat : a < b => a < b + 1
          OBVIOUS
        <5>b. \A b \in Nat : b < b + 1
          OBVIOUS
        <5>1. CASE i \in 1 .. n
          <6>1. OfPart(p, i) /\ c_chain'[i] = c_chain[i] /\ c_chain[i].at \in Nat
            BY <1>9, <2>1, <4>2, <5>1, CloudFacts DEF Entry, n
          <6> QED
            BY <1>3, <2>3, <4>0, <5>1, <5>a, <6>1
        <5>2. CASE i = n + 1
          BY <1>3, <1>5, <1>9, <4>0, <5>2, <5>b
        <5> QED
          BY <1>9, <5>1, <5>2
      <4>3. ASSUME NEW v \in Nat, c_received[p] <= v, v < c_run'[s].at
            PROVE  \E i \in 1 .. Len(c_chain') : Mine(i) /\ c_chain'[i].at = v
        <5>1. v < c_run[r].at \/ v = c_run[r].at
          <6>1. \A a, b \in Nat : a < b + 1 => a < b \/ a = b
            OBVIOUS
          <6> QED
            BY <1>3, <4>0, <4>3, <6>1
        <5>2. CASE v < c_run[r].at
          <6>1. PICK i \in 1 .. n : OfPart(p, i) /\ c_chain[i].at = v
            BY <2>3, <4>0, <4>3, <5>2
          <6> QED
            BY <1>9, <2>1, <6>1
        <5>3. CASE v = c_run[r].at
          BY <1>5, <1>9, <2>2, <4>0, <5>3
        <5> QED
          BY <5>1, <5>2, <5>3
      <4> QED
        BY <4>1, <4>2, <4>3
    <3>2. CASE s # r
      <4>1. c_run'[s] = c_run[s] /\ C!On(s, "stream") /\ ~C!Superseded(s)
        BY <1>1, <1>8, <2>8, <3>2 DEF C!On, C!Superseded
      <4>2. r[1] # p
        BY <1>1, <2>8, <3>2, <4>1, CloudRunsAre
      <4>3. /\ c_received[p] <= c_run[s].at
            /\ \A i \in 1 .. n : OfPart(p, i) => c_chain[i].at < c_run[s].at
            /\ \A v \in Nat : c_received[p] <= v /\ v < c_run[s].at =>
                  \E i \in 1 .. n : OfPart(p, i) /\ c_chain[i].at = v
        BY <2>0, <2>8, <4>1 DEF InFlow, n
      <4>4. \A i \in 1 .. Len(c_chain') : Mine(i) => i \in 1 .. n /\ OfPart(p, i) /\ c_chain'[i] = c_chain[i]
        BY <1>9, <2>1, <2>2, <4>2
      <4>5. \A i \in 1 .. n : OfPart(p, i) => i \in 1 .. Len(c_chain') /\ Mine(i) /\ c_chain'[i] = c_chain[i]
        BY <1>9, <2>1
      <4> QED
        BY <4>1, <4>3, <4>4, <4>5
    <3> QED
      BY <3>1, <3>2
  <2>9. InFlow(p)'
    BY <1>1, <2>8 DEF InFlow, OfPart, Mine, C!On, C!Superseded
  <2> QED
    BY <1>1, <2>0, <2>7, <2>9
<1> QED
  BY <1>10, <1>11, <1>12, <1>13 DEF CloudInv

LEMMA StreamEndsKeeps ==
    ASSUME CloudInv, NEW r \in C!Runs, C!StreamEnds(r)
    PROVE  CloudInv'
<1> DEFINE e == [r |-> r, at |-> c_run[r].at, end |-> TRUE]
           x == [C!NotStarted EXCEPT !.pc = "ended"]
           n == Len(c_chain)
<1>1. /\ c_chain' = Append(c_chain, e) /\ c_run' = [c_run EXCEPT ![r] = x]
      /\ c_received' = c_received /\ c_wrong' = c_wrong /\ c_gen' = c_gen /\ c_final' = c_final
      /\ c_overtaken' = c_overtaken
  BY DEF C!StreamEnds, C!Goto
<1>2. c_run[r].at \in Nat /\ c_run \in [C!Runs -> RunTypeC]
  BY CloudFacts DEF RunTypeC
<1>3. e \in Entry /\ e.end = TRUE
  BY <1>2 DEF Entry
<1>4. x \in RunTypeC /\ x.pc # "stream"
  BY StatesTyped
<1> HIDE DEF e, x
<1>5. c_run' \in [C!Runs -> RunTypeC] /\ c_run'[r] = x /\ \A s \in C!Runs \ {r} : c_run'[s] = c_run[s]
  BY <1>1, <1>2, <1>4
<1>6. /\ c_chain' \in Seq(Entry) /\ Len(c_chain') = n + 1 /\ n \in Nat
      /\ c_chain'[n + 1] = e
      /\ \A i \in 1 .. n : c_chain'[i] = c_chain[i]
      /\ \A i \in 1 .. Len(c_chain') : i \in 1 .. n \/ i = n + 1
      /\ \A i \in 1 .. n : i \in 1 .. Len(c_chain') /\ i < n + 1
  BY <1>1, <1>3, ChainGrows
<1> HIDE DEF n
<1>7. CloudTyped'
  BY <1>1, <1>5, <1>6 DEF CloudInv, CloudTyped, RunTypeC
<1>8. c_final' # "no" => \A p \in Parts : c_received'[p] = Chunks[p]
  BY <1>1 DEF CloudInv
<1>9. \A i \in 1 .. Len(c_chain') : ~c_chain'[i].end => i \in 1 .. n /\ c_chain'[i] = c_chain[i]
  BY <1>3, <1>6
<1>10. \A i \in 1 .. Len(c_chain') : ~c_chain'[i].end => c_chain'[i].at < Chunks[c_chain'[i].r[1]]
  BY <1>9 DEF CloudInv, n
<1>11. ASSUME NEW p \in Parts \ c_overtaken'
       PROVE  p \notin c_wrong' /\ InLine(p)' /\ InFlow(p)'
  <2>0. p \notin c_wrong /\ InLine(p) /\ InFlow(p)
    BY <1>1, <1>11 DEF CloudInv
  <2> DEFINE Mine(i) == ~c_chain'[i].end /\ c_chain'[i].r[1] = p
  <2>1. \A i \in 1 .. Len(c_chain') : Mine(i) => i \in 1 .. n /\ OfPart(p, i) /\ c_chain'[i] = c_chain[i]
    BY <1>9 DEF OfPart
  <2>2. \A i \in 1 .. n : OfPart(p, i) => i \in 1 .. Len(c_chain') /\ Mine(i) /\ c_chain'[i] = c_chain[i]
    BY <1>6 DEF OfPart
  <2> HIDE DEF Mine
  <2>3. /\ \A i \in 1 .. n : OfPart(p, i) => c_received[p] <= c_chain[i].at
        /\ \A i, j \in 1 .. n : OfPart(p, i) /\ OfPart(p, j) /\ i < j => c_chain[i].at < c_chain[j].at
        /\ \A j \in 1 .. n : OfPart(p, j) =>
              \A v \in Nat : c_received[p] <= v /\ v < c_chain[j].at =>
                  \E i \in 1 .. n : i < j /\ OfPart(p, i) /\ c_chain[i].at = v
    BY <2>0 DEF InLine, n
  <2>4. \A i \in 1 .. Len(c_chain') : Mine(i) => c_received[p] <= c_chain'[i].at
    BY <2>1, <2>3
  <2>5. \A i, j \in 1 .. Len(c_chain') : Mine(i) /\ Mine(j) /\ i < j => c_chain'[i].at < c_chain'[j].at
    BY <2>1, <2>3
  <2>6. \A j \in 1 .. Len(c_chain') : Mine(j) =>
           \A v \in Nat : c_received[p] <= v /\ v < c_chain'[j].at =>
               \E i \in 1 .. Len(c_chain') : i < j /\ Mine(i) /\ c_chain'[i].at = v
    <3> SUFFICES ASSUME NEW j \in 1 .. Len(c_chain'), Mine(j), NEW v \in Nat, c_received[p] <= v, v < c_chain'[j].at
                 PROVE \E i \in 1 .. Len(c_chain') : i < j /\ Mine(i) /\ c_chain'[i].at = v
      OBVIOUS
    <3>1. j \in 1 .. n /\ OfPart(p, j) /\ v < c_chain[j].at
      BY <2>1
    <3>2. PICK i \in 1 .. n : i < j /\ OfPart(p, i) /\ c_chain[i].at = v
      BY <2>3, <3>1
    <3> QED
      BY <2>2, <3>2
  <2>7. InLine(p)'
    BY <1>1, <2>4, <2>5, <2>6 DEF InLine, OfPart, Mine
  <2>8. ASSUME NEW s \in C!Runs, s[1] = p, c_run'[s].pc = "stream", c_gen'[p] = s[2] - 1
        PROVE  /\ c_received[p] <= c_run'[s].at
               /\ \A i \in 1 .. Len(c_chain') : Mine(i) => c_chain'[i].at < c_run'[s].at
               /\ \A v \in Nat : c_received[p] <= v /\ v < c_run'[s].at =>
                     \E i \in 1 .. Len(c_chain') : Mine(i) /\ c_chain'[i].at = v
    <3>1. c_run'[s] = c_run[s] /\ C!On(s, "stream") /\ ~C!Superseded(s)
      BY <1>1, <1>4, <1>5, <2>8 DEF C!On, C!Superseded
    <3>2. /\ c_received[p] <= c_run[s].at
          /\ \A i \in 1 .. n : OfPart(p, i) => c_chain[i].at < c_run[s].at
          /\ \A v \in Nat : c_received[p] <= v /\ v < c_run[s].at =>
                \E i \in 1 .. n : OfPart(p, i) /\ c_chain[i].at = v
      BY <2>0, <2>8, <3>1 DEF InFlow, n
    <3> QED
      BY <2>1, <2>2, <3>1, <3>2
  <2>9. InFlow(p)'
    BY <1>1, <2>8 DEF InFlow, OfPart, Mine, C!On, C!Superseded
  <2> QED
    BY <1>1, <2>0, <2>7, <2>9
<1> QED
  BY <1>7, <1>8, <1>10, <1>11 DEF CloudInv

\* The head of the chain is done: what is left of its part begins behind it.
LEMMA HeadLeaves ==
    ASSUME CloudInv, c_chain # <<>>, c_chain' = Tail(c_chain), NEW p \in Parts \ c_overtaken,
           \/ ~OfPart(p, 1) /\ c_received'[p] = c_received[p]
           \/ OfPart(p, 1) /\ c_chain[1].at = c_received[p] /\ c_received'[p] = c_received[p] + 1,
           c_gen' = c_gen,
           \A s \in C!Runs : c_run'[s].pc = "stream" => c_run'[s] = c_run[s]
    PROVE  InLine(p)' /\ InFlow(p)'
<1> DEFINE n == Len(c_chain)
           m == Len(c_chain')
           Mine(i) == ~c_chain'[i].end /\ c_chain'[i].r[1] = p
<1>1. /\ 1 \in 1 .. n /\ c_chain[1] \in Entry
      /\ \A i \in 1 .. m : i \in Nat /\ i + 1 \in 1 .. n /\ 1 < i + 1 /\ c_chain'[i] = c_chain[i + 1]
      /\ \A i \in 1 .. n : i # 1 => \E j \in 1 .. m : i = j + 1
  BY ChainMovesUp
<1>2. InLine(p) /\ InFlow(p) /\ c_received[p] \in Nat
  BY CloudFacts DEF CloudInv
<1>3. \A i \in 1 .. n : c_chain[i].at \in Nat
  BY CloudFacts DEF Entry
<1>4. \A i \in 1 .. m : Mine(i) <=> OfPart(p, i + 1)
  BY <1>1 DEF OfPart
<1>5. /\ \A i \in 1 .. n : OfPart(p, i) => c_received[p] <= c_chain[i].at
      /\ \A i, j \in 1 .. n : OfPart(p, i) /\ OfPart(p, j) /\ i < j => c_chain[i].at < c_chain[j].at
      /\ \A j \in 1 .. n : OfPart(p, j) =>
            \A v \in Nat : c_received[p] <= v /\ v < c_chain[j].at =>
                \E i \in 1 .. n : i < j /\ OfPart(p, i) /\ c_chain[i].at = v
  BY <1>2 DEF InLine
<1>6. \A s \in C!Runs : s[1] = p /\ C!On(s, "stream") /\ ~C!Superseded(s) =>
        /\ c_received[p] <= c_run[s].at
        /\ \A i \in 1 .. n : OfPart(p, i) => c_chain[i].at < c_run[s].at
        /\ \A v \in Nat : c_received[p] <= v /\ v < c_run[s].at =>
              \E i \in 1 .. n : OfPart(p, i) /\ c_chain[i].at = v
  BY <1>2 DEF InFlow
<1> HIDE DEF n, m, Mine
<1>7. \A a, b \in Nat : a < b => a + 1 <= b
  OBVIOUS
<1>8. \A a, b \in Nat : a + 1 <= b => a <= b /\ b # a
  OBVIOUS
<1>9. \A i, j \in Nat : i + 1 < j + 1 <=> i < j
  OBVIOUS
<1>10. \A i \in 1 .. m : Mine(i) => c_received'[p] <= c_chain'[i].at
  <2> SUFFICES ASSUME NEW i \in 1 .. m, Mine(i) PROVE c_received'[p] <= c_chain'[i].at
    OBVIOUS
  <2>1. i + 1 \in 1 .. n /\ OfPart(p, i + 1) /\ c_chain'[i] = c_chain[i + 1] /\ 1 < i + 1
    BY <1>1, <1>4
  <2>2. PICK k \in 1 .. n : k = i + 1
    BY <2>1
  <2>3. OfPart(p, k) /\ c_chain'[i] = c_chain[k] /\ 1 < k /\ c_chain[k].at \in Nat
    BY <1>3, <2>1, <2>2
  <2>4. CASE ~OfPart(p, 1) /\ c_received'[p] = c_received[p]
    BY <1>5, <2>3, <2>4
  <2>5. CASE OfPart(p, 1) /\ c_chain[1].at = c_received[p] /\ c_received'[p] = c_received[p] + 1
    <3>1. c_received[p] < c_chain[k].at
      BY <1>1, <1>5, <2>3, <2>5
    <3> QED
      BY <1>2, <1>7, <2>3, <2>5, <3>1
  <2> QED
    BY <2>4, <2>5
<1>11. \A i, j \in 1 .. m : Mine(i) /\ Mine(j) /\ i < j => c_chain'[i].at < c_chain'[j].at
  <2> SUFFICES ASSUME NEW i \in 1 .. m, NEW j \in 1 .. m, Mine(i), Mine(j), i < j
               PROVE c_chain'[i].at < c_chain'[j].at
    OBVIOUS
  <2>1. /\ i + 1 \in 1 .. n /\ OfPart(p, i + 1) /\ c_chain'[i] = c_chain[i + 1] /\ i \in Nat
        /\ j + 1 \in 1 .. n /\ OfPart(p, j + 1) /\ c_chain'[j] = c_chain[j + 1] /\ j \in Nat
    BY <1>1, <1>4
  <2>2. i + 1 < j + 1
    BY <1>9, <2>1
  <2> QED
    BY <1>5, <2>1, <2>2
<1>12. \A v \in Nat : c_received'[p] <= v =>
          c_received[p] <= v /\ \A i \in 1 .. n : OfPart(p, i) /\ c_chain[i].at = v => i # 1
  BY <1>2, <1>8
<1>13. \A j \in 1 .. m : Mine(j) =>
          \A v \in Nat : c_received'[p] <= v /\ v < c_chain'[j].at =>
              \E i \in 1 .. m : i < j /\ Mine(i) /\ c_chain'[i].at = v
  <2> SUFFICES ASSUME NEW j \in 1 .. m, Mine(j), NEW v \in Nat, c_received'[p] <= v, v < c_chain'[j].at
               PROVE \E i \in 1 .. m : i < j /\ Mine(i) /\ c_chain'[i].at = v
    OBVIOUS
  <2>1. j + 1 \in 1 .. n /\ OfPart(p, j + 1) /\ c_chain'[j] = c_chain[j + 1] /\ j \in Nat
    BY <1>1, <1>4
  <2>2. PICK i \in 1 .. n : i < j + 1 /\ OfPart(p, i) /\ c_chain[i].at = v
    BY <1>5, <1>12, <2>1
  <2>3. PICK k \in 1 .. m : i = k + 1
    BY <1>1, <1>12, <2>2
  <2>4. k \in Nat /\ Mine(k) /\ c_chain'[k].at = v
    BY <1>1, <1>4, <2>2, <2>3
  <2>5. k < j
    BY <1>9, <2>1, <2>2, <2>3, <2>4
  <2> QED
    BY <2>4, <2>5
<1>14. InLine(p)'
  BY <1>10, <1>11, <1>13 DEF InLine, OfPart, Mine, m
<1>15. ASSUME NEW s \in C!Runs, s[1] = p, c_run'[s].pc = "stream", c_gen'[p] = s[2] - 1
       PROVE  /\ c_received'[p] <= c_run'[s].at
              /\ \A i \in 1 .. m : Mine(i) => c_chain'[i].at < c_run'[s].at
              /\ \A v \in Nat : c_received'[p] <= v /\ v < c_run'[s].at =>
                    \E i \in 1 .. m : Mine(i) /\ c_chain'[i].at = v
  <2>1. c_run'[s] = c_run[s] /\ C!On(s, "stream") /\ ~C!Superseded(s)
    BY <1>15 DEF C!On, C!Superseded
  <2>2. /\ c_received[p] <= c_run[s].at
        /\ \A i \in 1 .. n : OfPart(p, i) => c_chain[i].at < c_run[s].at
        /\ \A v \in Nat : c_received[p] <= v /\ v < c_run[s].at =>
              \E i \in 1 .. n : OfPart(p, i) /\ c_chain[i].at = v
    BY <1>6, <1>15, <2>1
  <2>3. c_run[s].at \in Nat
    BY CloudFacts DEF RunTypeC
  <2>4. c_received'[p] <= c_run[s].at
    <3>1. CASE ~OfPart(p, 1) /\ c_received'[p] = c_received[p]
      BY <2>2, <3>1
    <3>2. CASE OfPart(p, 1) /\ c_chain[1].at = c_received[p] /\ c_received'[p] = c_received[p] + 1
      BY <1>1, <1>2, <1>7, <2>2, <2>3, <3>2
    <3> QED
      BY <3>1, <3>2
  <2>5. \A i \in 1 .. m : Mine(i) => c_chain'[i].at < c_run[s].at
    BY <1>1, <1>4, <2>2
  <2>6. ASSUME NEW v \in Nat, c_received'[p] <= v, v < c_run[s].at
        PROVE  \E i \in 1 .. m : Mine(i) /\ c_chain'[i].at = v
    <3>1. PICK i \in 1 .. n : OfPart(p, i) /\ c_chain[i].at = v
      BY <1>12, <2>2, <2>6
    <3>2. PICK k \in 1 .. m : i = k + 1
      BY <1>1, <1>12, <2>6, <3>1
    <3> QED
      BY <1>1, <1>4, <3>1, <3>2
  <2> QED
    BY <2>1, <2>4, <2>5, <2>6
<1>16. InFlow(p)'
  BY <1>15 DEF InFlow, OfPart, Mine, m, C!On, C!Superseded
<1> QED
  BY <1>14, <1>16

LEMMA TailSound ==
    ASSUME CloudInv, c_chain # <<>>, c_chain' = Tail(c_chain)
    PROVE  \A i \in 1 .. Len(c_chain') : ~c_chain'[i].end => c_chain'[i].at < Chunks[c_chain'[i].r[1]]
<1>1. \A i \in 1 .. Len(c_chain) : ~c_chain[i].end => c_chain[i].at < Chunks[c_chain[i].r[1]]
  BY DEF CloudInv
<1>2. \A i \in 1 .. Len(c_chain') : i + 1 \in 1 .. Len(c_chain) /\ c_chain'[i] = c_chain[i + 1]
  BY ChainMovesUp
<1> QED
  BY <1>1, <1>2

LEMMA WrittenKeeps ==
    ASSUME CloudInv, C!Written
    PROVE  CloudInv'
<1>1. /\ c_chain # <<>> /\ c_chain' = Tail(c_chain) /\ ~Head(c_chain).end
      /\ c_gen' = c_gen /\ c_run' = c_run /\ c_overtaken' = c_overtaken /\ c_final' = c_final
  BY DEF C!Written
<1>2. PICK q \in Parts : q = Head(c_chain).r[1]
  BY <1>1, ChainMovesUp, CloudRunsAre DEF Entry
<1>3. /\ c_chain' \in Seq(Entry) /\ 1 \in 1 .. Len(c_chain) /\ Head(c_chain) = c_chain[1] /\ c_chain[1] \in Entry
  BY <1>1, ChainMovesUp
<1>4. /\ c_received \in [Parts -> Nat] /\ c_received[q] \in Nat /\ Chunks[q] \in Nat /\ c_received[q] <= Chunks[q]
      /\ c_wrong \subseteq Parts /\ c_overtaken \subseteq Parts
      /\ \A p \in Parts : c_received[p] \in Nat /\ Chunks[p] \in Nat /\ c_received[p] <= Chunks[p]
  BY CloudFacts
<1>a. \A a, b \in Nat : a + 1 \in Nat /\ (a < b => ~(a >= b) /\ a + 1 <= b /\ a # b) /\ (~(a >= b) => a < b)
  OBVIOUS
<1>5. \/ (c_received[q] >= Chunks[q] \/ c_final # "no") /\ c_received' = c_received /\ c_wrong' = c_wrong
      \/ /\ c_received[q] < Chunks[q]
         /\ c_received' = [c_received EXCEPT ![q] = @ + 1]
         /\ c_wrong' = IF Head(c_chain).at # c_received[q] THEN c_wrong \cup {q} ELSE c_wrong
  BY <1>2, <1>4, <1>a DEF C!Written
<1>6. c_received' \in [Parts -> Nat] /\ \A p \in Parts : c_received'[p] <= Chunks[p]
  <2>1. CASE c_received' = c_received
    BY <1>4, <2>1
  <2>2. CASE c_received[q] < Chunks[q] /\ c_received' = [c_received EXCEPT ![q] = @ + 1]
    BY <1>4, <1>a, <2>2
  <2> QED
    BY <1>5, <2>1, <2>2
<1>7. c_wrong' \subseteq Parts
  BY <1>4, <1>5
<1>8. CloudTyped'
  BY <1>1, <1>3, <1>6, <1>7 DEF CloudInv, CloudTyped
<1>9. c_final' # "no" => \A p \in Parts : c_received'[p] = Chunks[p]
  <2> SUFFICES ASSUME c_final # "no" PROVE \A p \in Parts : c_received'[p] = Chunks[p]
    BY <1>1
  <2>1. \A p \in Parts : c_received[p] = Chunks[p]
    BY DEF CloudInv
  <2>2. ~(c_received[q] < Chunks[q])
    BY <1>4, <1>a, <2>1
  <2> QED
    BY <1>5, <2>1, <2>2
<1>10. ASSUME NEW p \in Parts \ c_overtaken'
       PROVE  p \notin c_wrong' /\ InLine(p)' /\ InFlow(p)'
  <2>0. p \in Parts \ c_overtaken /\ p \notin c_wrong /\ InLine(p) /\ c_received[p] \in Nat
    BY <1>1, <1>4, <1>10 DEF CloudInv
  <2>1. CASE p # q
    <3>1. ~OfPart(p, 1)
      BY <1>2, <1>3, <2>1 DEF OfPart
    <3>2. c_received'[p] = c_received[p] /\ p \notin c_wrong'
      BY <1>4, <1>5, <2>0, <2>1
    <3> QED
      BY <1>1, <2>0, <3>1, <3>2, HeadLeaves
  <2>2. CASE p = q
    <3>1. OfPart(p, 1) /\ c_chain[1].at \in Nat
      BY <1>1, <1>2, <1>3, <2>2 DEF OfPart, Entry
    <3>2. c_received[p] <= c_chain[1].at /\ c_chain[1].at < Chunks[p]
      BY <1>1, <1>2, <1>3, <2>0, <2>2, <3>1 DEF InLine, CloudInv
    <3>3. c_received[p] < Chunks[p]
      <4>1. \A a, b, c \in Nat : a <= b /\ b < c => a < c
        OBVIOUS
      <4> QED
        BY <1>4, <2>2, <3>1, <3>2, <4>1
    <3>4. c_final = "no"
      BY <1>4, <1>a, <2>2, <3>3 DEF CloudInv
    <3>5. /\ c_received' = [c_received EXCEPT ![p] = @ + 1]
          /\ c_wrong' = IF Head(c_chain).at # c_received[p] THEN c_wrong \cup {p} ELSE c_wrong
      BY <1>4, <1>5, <1>a, <2>2, <3>3, <3>4
    <3>6. c_chain[1].at = c_received[p]
      <4>1. ~(c_received[p] < c_chain[1].at)
        <5> SUFFICES ASSUME c_received[p] < c_chain[1].at PROVE FALSE
          OBVIOUS
        <5>1. \A a \in Nat : a <= a
          OBVIOUS
        <5>2. PICK i \in 1 .. Len(c_chain) : i < 1
          BY <1>3, <2>0, <3>1, <5>1 DEF InLine
        <5>3. \A k \in Nat : \A a \in 1 .. k : ~(a < 1)
          OBVIOUS
        <5> QED
          BY <5>2, <5>3, CloudFacts
      <4>2. \A a, b \in Nat : a <= b /\ ~(a < b) => b = a
        OBVIOUS
      <4> QED
        BY <2>0, <3>1, <3>2, <4>1, <4>2
    <3>7. p \notin c_wrong' /\ c_received'[p] = c_received[p] + 1
      BY <1>3, <1>4, <2>0, <2>2, <3>5, <3>6
    <3> QED
      BY <1>1, <2>0, <3>1, <3>6, <3>7, HeadLeaves
  <2> QED
    BY <2>1, <2>2
<1>11. \A i \in 1 .. Len(c_chain') : ~c_chain'[i].end => c_chain'[i].at < Chunks[c_chain'[i].r[1]]
  BY <1>1, TailSound
<1> QED
  BY <1>8, <1>9, <1>10, <1>11 DEF CloudInv

LEMMA EndSeenKeeps ==
    ASSUME CloudInv, C!EndSeen
    PROVE  CloudInv'
<1>1. /\ c_chain # <<>> /\ c_chain' = Tail(c_chain) /\ Head(c_chain).end
      /\ c_gen' = c_gen /\ c_overtaken' = c_overtaken /\ c_final' = c_final
      /\ c_received' = c_received /\ c_wrong' = c_wrong
      /\ C!Goto(Head(c_chain).r, C!Returned(Head(c_chain).r))
  BY DEF C!EndSeen
<1>2. c_chain' \in Seq(Entry) /\ 1 \in 1 .. Len(c_chain) /\ Head(c_chain) = c_chain[1] /\ c_chain[1] \in Entry
  BY <1>1, ChainMovesUp
<1>3. PICK r \in C!Runs : r = Head(c_chain).r
  BY <1>2 DEF Entry
<1>4. PICK pc \in {"returned", "then"} : pc = C!Returned(r)
  BY DEF C!Returned
<1> DEFINE x == [C!NotStarted EXCEPT !.pc = pc]
<1>5. c_run' = [c_run EXCEPT ![r] = x]
  BY <1>1, <1>3, <1>4 DEF C!Goto
<1>6. x \in RunTypeC /\ x.pc # "stream"
  BY StatesTyped
<1> HIDE DEF x
<1>7. c_run' \in [C!Runs -> RunTypeC] /\ c_run'[r] = x /\ \A s \in C!Runs \ {r} : c_run'[s] = c_run[s]
  BY <1>5, <1>6, CloudFacts
<1>8. CloudTyped'
  BY <1>1, <1>2, <1>7 DEF CloudInv, CloudTyped, RunTypeC
<1>9. \A s \in C!Runs : c_run'[s].pc = "stream" => c_run'[s] = c_run[s]
  BY <1>6, <1>7
<1>10. ASSUME NEW p \in Parts \ c_overtaken'
       PROVE  p \notin c_wrong' /\ InLine(p)' /\ InFlow(p)'
  <2>1. p \in Parts \ c_overtaken /\ p \notin c_wrong'
    BY <1>1, <1>10 DEF CloudInv
  <2>2. ~OfPart(p, 1) /\ c_received'[p] = c_received[p]
    BY <1>1, <1>2 DEF OfPart
  <2> QED
    BY <1>1, <1>9, <2>1, <2>2, HeadLeaves
<1>11. \A i \in 1 .. Len(c_chain') : ~c_chain'[i].end => c_chain'[i].at < Chunks[c_chain'[i].r[1]]
  BY <1>1, TailSound
<1>12. c_final' # "no" => \A p \in Parts : c_received'[p] = Chunks[p]
  BY <1>1 DEF CloudInv
<1> QED
  BY <1>8, <1>10, <1>11, <1>12 DEF CloudInv

LEMMA AllBytes ==
    ASSUME CloudInv, C!AllPartsDone
    PROVE  \A p \in Parts : c_received[p] = Chunks[p]
<1> SUFFICES ASSUME NEW p \in Parts PROVE c_received[p] = Chunks[p]
  OBVIOUS
<1>1. c_received[p] \in Nat /\ Chunks[p] \in Nat /\ c_received[p] <= Chunks[p] /\ c_received[p] >= Chunks[p]
  BY CloudFacts DEF C!AllPartsDone
<1>2. \A a, b \in Nat : a <= b /\ a >= b => a = b
  OBVIOUS
<1> QED
  BY <1>1, <1>2

\* The transfer is called complete when every part has all its chunks.
LEMMA EndingKeeps ==
    ASSUME CloudInv, C!Ending
    PROVE  CloudInv'
<1>1. /\ c_received' = c_received /\ c_chain' = c_chain /\ c_wrong' = c_wrong /\ c_overtaken' = c_overtaken
      /\ c_gen' = c_gen /\ c_run' = c_run
  BY DEF C!Ending, C!AllReturned, C!Drained, C!Closed
<1>2. C!AllPartsDone => \A p \in Parts : c_received[p] = Chunks[p]
  BY AllBytes
<1>3. c_final' = c_final \/ \A p \in Parts : c_received[p] = Chunks[p]
  BY <1>2 DEF C!Ending, C!AllReturned, C!Drained, C!Closed, CloudInv
<1>4. c_final' # "no" => \A p \in Parts : c_received[p] = Chunks[p]
  BY <1>3 DEF CloudInv
<1>5. \A s \in C!Runs : s[1] \in Parts \ c_overtaken' /\ c_run'[s].pc = "stream" /\ c_gen'[s[1]] = s[2] - 1 =>
          c_run'[s].at = c_run[s].at /\ C!On(s, "stream") /\ ~C!Superseded(s)
  BY <1>1 DEF C!On, C!Superseded
<1>6. c_gen' \in [Parts -> Nat] /\ c_run' \in [C!Runs -> RunTypeC] /\ c_overtaken' \subseteq Parts
  BY <1>1, CloudFacts
<1> QED
  BY <1>1, <1>4, <1>5, <1>6, QuietKeeps

LEMMA CloudRunStepKeeps ==
    ASSUME CloudInv, NEW r \in C!Runs, C!RunStep(r)
    PROVE  CloudInv'
<1> DEFINE Pcs == {"returned", "then", "off", "rejected"}
           To(pc) == [C!NotStarted EXCEPT !.pc = pc]
<1>1. CASE C!Opens(r)
  BY <1>1, OpensKeeps
<1>2. CASE C!Data(r)
  BY <1>2, DataKeeps
<1>3. CASE C!StreamEnds(r)
  BY <1>3, StreamEndsKeeps
<1>4. CASE C!Aborts(r)
  <2>1. c_run[r].aborts \in Nat
    BY CloudFacts DEF RunTypeC
  <2>2. PICK n \in Nat : n = c_run[r].aborts + 1
    BY <2>1
  <2> DEFINE x == [C!Loading EXCEPT !.aborts = n]
  <2>3. x \in RunTypeC /\ x.pc # "stream"
    BY StatesTyped
  <2>4. /\ c_run' = [c_run EXCEPT ![r] = x]
        /\ c_received' = c_received /\ c_chain' = c_chain /\ c_wrong' = c_wrong /\ c_overtaken' = c_overtaken
        /\ c_gen' = c_gen /\ c_final' = c_final
    BY <1>4, <2>2 DEF C!Aborts
  <2> HIDE DEF x
  <2> QED
    BY <2>3, <2>4, LeavesKeeps
<1>5. CASE C!ReturnsEarly(r) \/ C!Destroyed(r) \/ C!PartFails(r) \/ C!QuotaSpent(r) \/ C!Then(r)
  <2>1. PICK pc \in Pcs : C!Goto(r, pc)
    BY <1>5 DEF C!ReturnsEarly, C!Destroyed, C!PartFails, C!QuotaSpent, C!Then, C!Returned
  <2> DEFINE x == [C!NotStarted EXCEPT !.pc = pc]
  <2>2. x \in RunTypeC /\ x.pc # "stream"
    BY StatesTyped
  <2>3. c_run' = [c_run EXCEPT ![r] = x]
    BY <2>1 DEF C!Goto
  <2>4. /\ c_received' = c_received /\ c_chain' = c_chain /\ c_wrong' = c_wrong /\ c_overtaken' = c_overtaken
        /\ c_gen' = c_gen
    BY <1>5 DEF C!ReturnsEarly, C!Destroyed, C!PartFails, C!QuotaSpent, C!Then
  <2>5. C!AllPartsDone => \A p \in Parts : c_received[p] = Chunks[p]
    BY AllBytes
  <2>6. c_final' = c_final \/ \A p \in Parts : c_received[p] = Chunks[p]
    BY <1>5, <2>5 DEF C!ReturnsEarly, C!Destroyed, C!PartFails, C!QuotaSpent, C!Then
  <2> HIDE DEF x
  <2> QED
    BY <2>2, <2>3, <2>4, <2>6, LeavesKeeps
<1> QED
  BY <1>1, <1>2, <1>3, <1>4, <1>5 DEF C!RunStep

LEMMA CloudStarts == C!Init => CloudInv
<1> SUFFICES ASSUME C!Init PROVE CloudInv
  OBVIOUS
<1>1. /\ c_received = [p \in Parts |-> 0] /\ c_wrong = {} /\ c_overtaken = {} /\ c_gen = [p \in Parts |-> 0]
      /\ c_run = [r \in C!Runs |-> IF r \in C!Initial THEN C!Loading ELSE C!NotStarted]
      /\ c_chain = <<>> /\ c_final = "no"
  BY DEF C!Init
<1>2. c_run \in [C!Runs -> RunTypeC] /\ \A r \in C!Runs : c_run[r].pc # "stream"
  BY <1>1, StatesTyped
<1>3. c_chain \in Seq(Entry) /\ Len(c_chain) = 0 /\ 1 .. 0 = {}
  BY <1>1, EmptySeq
<1>4. c_received \in [Parts -> Nat] /\ c_gen \in [Parts -> Nat] /\ \A p \in Parts : c_received[p] <= Chunks[p]
  <2>1. \A p \in Parts : Chunks[p] \in Nat /\ c_received[p] = 0
    BY <1>1, Numbers
  <2> QED
    BY <1>1, <2>1
<1>5. CloudTyped
  BY <1>1, <1>2, <1>3, <1>4 DEF CloudTyped, RunTypeC
<1>6. \A p \in Parts : InLine(p) /\ InFlow(p)
  BY <1>2, <1>3 DEF InLine, InFlow, C!On
<1> QED
  BY <1>1, <1>3, <1>5, <1>6 DEF CloudInv

LEMMA CloudKeeps ==
    ASSUME CloudInv, [C!Next]_cvars
    PROVE  CloudInv'
<1>1. CASE C!Next
  BY <1>1, CloudRunStepKeeps, WrittenKeeps, EndSeenKeeps, EndingKeeps, RefreshKeeps DEF C!Next
<1>2. CASE UNCHANGED cvars
  <2>1. /\ c_received' = c_received /\ c_chain' = c_chain /\ c_wrong' = c_wrong /\ c_overtaken' = c_overtaken
        /\ c_gen' = c_gen /\ c_run' = c_run /\ c_final' = c_final
    BY <1>2 DEF cvars
  <2>2. c_final' # "no" => \A p \in Parts : c_received[p] = Chunks[p]
    BY <2>1 DEF CloudInv
  <2>3. \A s \in C!Runs : s[1] \in Parts \ c_overtaken' /\ c_run'[s].pc = "stream" /\ c_gen'[s[1]] = s[2] - 1 =>
            c_run'[s].at = c_run[s].at /\ C!On(s, "stream") /\ ~C!Superseded(s)
    BY <2>1 DEF C!On, C!Superseded
  <2>4. c_gen' \in [Parts -> Nat] /\ c_run' \in [C!Runs -> RunTypeC] /\ c_overtaken' \subseteq Parts
    BY <2>1, CloudFacts
  <2> QED
    BY <2>1, <2>2, <2>3, <2>4, QuietKeeps
<1> QED
  BY <1>1, <1>2

LEMMA CloudIsWhole == CloudInv => C!FileIsWholeUnlessOvertaken
BY DEF CloudInv, C!FileIsWholeUnlessOvertaken

-----------------------------------------------------------------------------
(* The two together                                                         *)

LEMMA TransfersKeep == SpecTransfers => [](WorkerInv /\ CloudInv)
<1>1. InitTransfers => WorkerInv /\ CloudInv
  BY WorkerStarts, CloudStarts DEF InitTransfers
<1>2. WorkerInv /\ CloudInv /\ [NextTransfers]_everything => (WorkerInv /\ CloudInv)'
  <2> SUFFICES ASSUME WorkerInv, CloudInv, [NextTransfers]_everything PROVE WorkerInv' /\ CloudInv'
    OBVIOUS
  <2>1. [Next]_vars /\ [C!Next]_cvars
    BY DEF NextTransfers, Worker, Cloud, Of, everything, vars, cvars
  <2> QED
    BY <2>1, WorkerKeeps, CloudKeeps
<1> QED
  BY <1>1, <1>2, PTL DEF SpecTransfers

\* A file that the transfer closes as complete has every chunk at its position:
\* that of a worker always, that of the cloud unless a stream was opened over
\* chunks that waited (downloadWorkerLocalFile, downloadCloudFileToDisk).
THEOREM TransferredFilesAreWhole == SpecTransfers => []FilesAreWhole
<1>1. WorkerInv /\ CloudInv => FilesAreWhole
  BY WorkerIsWhole, CloudIsWhole DEF FilesAreWhole
<1> QED
  BY <1>1, TransfersKeep, PTL

\* However failures, the second phase and clicks come together, one coroutine
\* works on a part of a worker's file and the refresh button reaches it
\* (restartFlags, partControllers).
THEOREM OneWorksOnAPart == SpecTransfers => []OneRunPerPart
<1>1. WorkerInv => OneRunPerPart
  BY OneAtWork
<1> QED
  BY <1>1, TransfersKeep, PTL

=============================================================================

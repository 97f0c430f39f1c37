--------------------------- MODULE WorkerTransfer ---------------------------
(***************************************************************************)
(* A completed file of a worker is saved to the user's disk in parallel    *)
(* parts (downloadWorkerLocalFile): one coroutine per part that requests    *)
(* the rest of its range, writes what arrives, and reconnects when the      *)
(* stream breaks or crawls; the gate that lets one part at a time wait to   *)
(* reconnect; the refresh button; and the loop that polls the parts, runs   *)
(* failed ones a second time, and closes the file.                          *)
(*                                                                         *)
(* An action is what runs between two awaits.  A body ends early only with *)
(* an error: browsers compare its length with Content-Length.  Reading is  *)
(* chunk by chunk; slow and stalled are one reason to reconnect.            *)
(***************************************************************************)
EXTENDS Naturals, FiniteSets, Sequences

CONSTANTS
    Parts,
    Chunks,         \* chunks of each part: the last part is shorter
    MaxAttempts,    \* PART_MAX_ATTEMPTS
    MaxRestarts,    \* MAX_SLOW_RESTARTS
    MaxClicks       \* bound: clicks on refresh buttons

ASSUME WorkerTransferAssumption ==
    /\ Chunks \in [Parts -> Nat \ {0}]
    /\ {MaxAttempts, MaxRestarts, MaxClicks} \subseteq Nat /\ MaxAttempts > 0

\* downloadPart coroutines: two may exist for one part.
Runs == Parts \X {1, 2}

VARIABLES
    status,     \* part.status
    received,   \* part.receivedBytes, in chunks
    wrong,      \* parts with a chunk at a position that is not its own
    run,        \* the coroutines
    flags,      \* restartFlags and partControllers: the run that they belong to, or none
    last,       \* part._lastAutoRestarts
    waiters,    \* reconnectWaiters
    gate,       \* activeReconnects
    main,       \* where the polling loop is
    special,    \* specialError
    phase2,     \* phase2Triggered
    aborted,    \* the controller of the whole transfer
    clicks      \* clicks so far (bound)

vars == <<status, received, wrong, run, flags, last, waiters, gate, main, special, phase2,
          aborted, clicks>>
loop == <<main, special, phase2, aborted>>

-----------------------------------------------------------------------------
NoRun == [pc |-> "off", attempt |-> 0, auto |-> 0, limit |-> 0, requested |-> FALSE,
          at |-> 0, by |-> "loop"]
None == <<>>

On(r, pc) == run[r].pc = pc
Set(r, x) == run' = [run EXCEPT ![r] = x]
Live(p) == {r \in Runs : r[1] = p /\ ~On(r, "off")}

-----------------------------------------------------------------------------
(* downloadPart.                                                           *)

\* Parts start: the flags of a part are those of the run that started last.
\* A part that has all its bytes is completed at once.
Launch(S, auto, by) ==
    LET go == {p \in S : received[p] < Chunks[p]}
        slot(p) == IF On(<<p, 1>>, "off") THEN 1 ELSE 2
    IN  /\ run' = [r \in Runs |->
              IF r[1] \in go /\ r[2] = slot(r[1])
              THEN [pc |-> "fetch", attempt |-> 1, auto |-> auto[r[1]],
                    limit |-> auto[r[1]] + MaxRestarts, requested |-> FALSE,
                    at |-> received[r[1]], by |-> by]
              ELSE run[r]]
        /\ flags' = [p \in Parts |-> IF p \in go THEN <<p, slot(p)>>
                                     ELSE IF p \in S THEN None ELSE flags[p]]
        /\ status' = [p \in Parts |-> IF p \in go THEN "downloading"
                                      ELSE IF p \in S THEN "completed" ELSE status[p]]

\* The catch block: the error is special when it ends the whole transfer.
Fail(r, isSpecial) ==
    LET p == r[1]
    IN  /\ Set(r, NoRun)
        /\ status' = [status EXCEPT ![p] = "failed"]
        /\ last' = [last EXCEPT ![p] = run[r].auto]
        /\ flags' = [flags EXCEPT ![p] = None]
        /\ special' = (special \/ (isSpecial /\ run[r].by = "loop"))

Complete(r) ==
    /\ Set(r, NoRun)
    /\ status' = [status EXCEPT ![r[1]] = "completed"]
    /\ flags' = [flags EXCEPT ![r[1]] = None]
    /\ UNCHANGED <<last, special>>

\* The head of the attempt loop.
Attempt(r) ==
    IF run[r].attempt = MaxAttempts THEN Fail(r, FALSE)
    ELSE IF aborted THEN Fail(r, TRUE)
    ELSE IF received[r[1]] = Chunks[r[1]] THEN Complete(r)
    ELSE /\ Set(r, [run[r] EXCEPT !.pc = "fetch", !.attempt = @ + 1, !.requested = FALSE,
                                  !.at = received[r[1]]])
         /\ flags' = [flags EXCEPT ![r[1]] = r]
         /\ UNCHANGED <<status, last, special>>

\* acquireReconnectSlot: the caller naps, or waits for a slot.
Waits(r, x) ==
    /\ IF gate = 0
       THEN gate' = 1 /\ Set(r, [x EXCEPT !.pc = "nap"]) /\ UNCHANGED waiters
       ELSE waiters' = Append(waiters, r) /\ Set(r, [x EXCEPT !.pc = "queued"]) /\ UNCHANGED gate
    /\ UNCHANGED <<status, flags, last, special>>

\* A reconnect that was asked for does not count as an attempt.
Voluntary(r) == Waits(r, [run[r] EXCEPT !.requested = FALSE, !.attempt = 0])

\* A failure that counts toward the auto budget and the attempts of the part.
Counted(r, how) ==
    LET x == [run[r] EXCEPT !.auto = @ + 1]
    IN  IF x.auto >= x.limit \/ x.attempt = MaxAttempts
        THEN /\ Set(r, NoRun)
             /\ status' = [status EXCEPT ![r[1]] = "failed"]
             /\ last' = [last EXCEPT ![r[1]] = x.auto]
             /\ flags' = [flags EXCEPT ![r[1]] = None]
             /\ UNCHANGED <<special, waiters, gate>>
        ELSE IF how = "gate" THEN Waits(r, x)
        ELSE Set(r, [x EXCEPT !.pc = "sleep"])
             /\ UNCHANGED <<status, flags, last, special, waiters, gate>>

-----------------------------------------------------------------------------
(* The request is answered, fails, or is aborted.                          *)

Answered(r) ==
    /\ On(r, "fetch")
    /\ Set(r, [run[r] EXCEPT !.pc = "stream"])
    /\ UNCHANGED <<status, received, wrong, flags, last, waiters, gate, loop, clicks>>

\* No connection, no answer in time, or a page of the tunnel instead of the file.
Unreachable(r) ==
    /\ On(r, "fetch")
    /\ Counted(r, "gate")
    /\ UNCHANGED <<received, wrong, main, phase2, aborted, clicks>>

\* Any other status.
BadStatus(r) ==
    /\ On(r, "fetch")
    /\ IF run[r].attempt = MaxAttempts THEN Fail(r, FALSE)
       ELSE Set(r, [run[r] EXCEPT !.pc = "sleep"]) /\ UNCHANGED <<status, flags, last, special>>
    /\ UNCHANGED <<received, wrong, waiters, gate, main, phase2, aborted, clicks>>

\* The whole file, or another range than the one that was asked for.
NoRanges(r) ==
    /\ On(r, "fetch")
    /\ Fail(r, TRUE)
    /\ UNCHANGED <<received, wrong, waiters, gate, main, phase2, aborted, clicks>>

\* An aborted request or stream: the transfer is over, or the part reconnects.
AbortSeen(r) ==
    /\ run[r].pc \in {"fetch", "stream"}
    /\ IF aborted THEN Fail(r, TRUE) /\ UNCHANGED <<waiters, gate>>
       ELSE run[r].requested /\ Voluntary(r)
    /\ UNCHANGED <<received, wrong, main, phase2, aborted, clicks>>

\* The body.
ChunkArrives(r) ==
    /\ On(r, "stream") /\ run[r].at < Chunks[r[1]]
    /\ Set(r, [run[r] EXCEPT !.pc = "write"])
    /\ UNCHANGED <<status, received, wrong, flags, last, waiters, gate, loop, clicks>>

\* The chunk is on the disk; a part that crawls reconnects within its budget.
Put(r) ==
    LET p == r[1]
    IN  /\ received' = [received EXCEPT ![p] = @ + 1]
        /\ wrong' = IF run[r].at # received[p] THEN wrong \cup {p} ELSE wrong

Written(r) ==
    /\ On(r, "write")
    /\ Put(r)
    /\ Set(r, [run[r] EXCEPT !.pc = "stream", !.at = @ + 1])
    /\ UNCHANGED <<status, flags, last, waiters, gate, loop, clicks>>

WrittenSlowly(r) ==
    /\ On(r, "write")
    /\ Put(r)
    /\ IF run[r].auto >= run[r].limit
       THEN Counted(r, "sleep")
       ELSE Waits(r, [run[r] EXCEPT !.auto = @ + 1, !.requested = FALSE, !.attempt = 0])
    /\ UNCHANGED <<main, phase2, aborted, clicks>>

\* The stream breaks, or the disk refuses the chunk.
Breaks(r) ==
    /\ run[r].pc \in {"stream", "write"}
    /\ Counted(r, "sleep")
    /\ UNCHANGED <<received, wrong, main, phase2, aborted, clicks>>

\* The end of the body; a click that came too late to abort it still counts.
BodyEnds(r) ==
    /\ On(r, "stream") /\ run[r].at = Chunks[r[1]]
    /\ IF run[r].requested THEN Voluntary(r) ELSE Complete(r) /\ UNCHANGED <<waiters, gate>>
    /\ UNCHANGED <<received, wrong, main, phase2, aborted, clicks>>

SleepEnds(r) ==
    /\ On(r, "sleep")
    /\ Attempt(r)
    /\ UNCHANGED <<received, wrong, waiters, gate, main, phase2, aborted, clicks>>

\* A waiter that was called goes on; the slot was marked free when it was called.
Called(r) ==
    /\ On(r, "queued")
    /\ \A i \in DOMAIN waiters : waiters[i] # r
    /\ gate' = 1
    /\ Set(r, [run[r] EXCEPT !.pc = "nap"])
    /\ UNCHANGED <<status, received, wrong, flags, last, waiters, loop, clicks>>

\* Faulty variant: the slot is handed over only while nobody has it.
NapEndsKeeping(r) ==
    /\ On(r, "nap")
    /\ gate' = 0
    /\ Attempt(r)
    /\ UNCHANGED <<received, wrong, waiters, main, phase2, aborted, clicks>>

NapEnds(r) ==
    /\ On(r, "nap")
    /\ gate' = 0
    /\ waiters' = IF waiters = <<>> THEN waiters ELSE Tail(waiters)
    /\ Attempt(r)
    /\ UNCHANGED <<received, wrong, main, phase2, aborted, clicks>>

-----------------------------------------------------------------------------
(* The refresh button of a part.                                           *)

\* A running part is aborted and gets more budget; a failed one runs again.
Click(p) ==
    /\ clicks < MaxClicks /\ main # "opening"
    /\ clicks' = clicks + 1
    /\ \/ /\ flags[p] # None
          /\ run' = [run EXCEPT ![flags[p]].requested = TRUE,
                                ![flags[p]].limit = run[flags[p]].auto + MaxRestarts]
          /\ UNCHANGED <<status, flags>>
       \/ /\ flags[p] = None /\ status[p] # "completed" /\ main # "done" /\ ~aborted
          /\ Launch({p}, last, "click")
    /\ UNCHANGED <<received, wrong, last, waiters, gate, loop>>

-----------------------------------------------------------------------------
(* The loop that watches over the parts.                                   *)

\* The file is open: every part starts.
Opened ==
    /\ main = "opening"
    /\ main' = "poll"
    /\ Launch(Parts, [p \in Parts |-> 0], "loop")
    /\ UNCHANGED <<received, wrong, last, waiters, gate, special, phase2, aborted, clicks>>

Active == {p \in Parts : status[p] \in {"pending", "downloading"}}
Failed == {p \in Parts : status[p] = "failed"}
Whole == \A p \in Parts : status[p] = "completed"

\* Ranges are not supported: the parts are aborted and one stream fetches it all.
GivesUp ==
    /\ main = "poll" /\ special
    /\ aborted' = TRUE
    /\ main' = "single"
    /\ UNCHANGED <<status, received, wrong, run, flags, last, waiters, gate, special, phase2, clicks>>

Closes ==
    /\ main = "poll" /\ ~special /\ Whole
    /\ main' = "done"
    /\ UNCHANGED <<status, received, wrong, run, flags, last, waiters, gate, special, phase2,
                   aborted, clicks>>

\* Phase 2: the failed parts run a second time, once in a transfer.
SecondPhase ==
    /\ main = "poll" /\ ~special /\ Active = {} /\ Failed # {} /\ ~phase2
    /\ phase2' = TRUE
    /\ Launch(Failed, last, "loop")
    /\ UNCHANGED <<received, wrong, last, waiters, gate, main, special, aborted, clicks>>

SingleEnds ==
    /\ main = "single"
    /\ main' \in {"single done", "failed"}
    /\ UNCHANGED <<status, received, wrong, run, flags, last, waiters, gate, special, phase2,
                   aborted, clicks>>

-----------------------------------------------------------------------------
Init ==
    /\ status = [p \in Parts |-> "pending"]
    /\ received = [p \in Parts |-> 0]
    /\ wrong = {}
    /\ run = [r \in Runs |-> NoRun]
    /\ flags = [p \in Parts |-> None]
    /\ last = [p \in Parts |-> 0]
    /\ waiters = <<>> /\ gate = 0
    /\ main = "opening"
    /\ special = FALSE /\ phase2 = FALSE /\ aborted = FALSE
    /\ clicks = 0

RunStep(r) ==
    \/ Answered(r) \/ Unreachable(r) \/ BadStatus(r) \/ NoRanges(r) \/ AbortSeen(r)
    \/ ChunkArrives(r) \/ Written(r) \/ WrittenSlowly(r) \/ Breaks(r) \/ BodyEnds(r)
    \/ SleepEnds(r) \/ Called(r) \/ NapEnds(r)

Poll == Opened \/ GivesUp \/ Closes \/ SecondPhase \/ SingleEnds

Next == (\E r \in Runs : RunStep(r)) \/ (\E p \in Parts : Click(p)) \/ Poll

Spec == Init /\ [][Next]_vars

\* Requests time out, a body goes on or breaks, timers fire, writes end.
Fairness == WF_vars(Poll) /\ \A r \in Runs : WF_vars(RunStep(r))

-----------------------------------------------------------------------------
Statuses == {"pending", "downloading", "completed", "failed"}

TypeOK ==
    /\ status \in [Parts -> Statuses]
    /\ received \in [Parts -> Nat] /\ \A p \in Parts : received[p] <= Chunks[p]
    /\ wrong \subseteq Parts
    /\ run \in [Runs -> [pc : {"off", "fetch", "stream", "write", "sleep", "queued", "nap"},
                         attempt : 0 .. MaxAttempts, auto : Nat, limit : Nat,
                         requested : BOOLEAN, at : Nat, by : {"loop", "click"}]]
    /\ flags \in [Parts -> Runs \cup {None}]
    /\ last \in [Parts -> Nat]
    /\ waiters \in Seq(Runs) /\ gate \in {0, 1}
    /\ main \in {"opening", "poll", "single", "single done", "done", "failed"}
    /\ special \in BOOLEAN /\ phase2 \in BOOLEAN /\ aborted \in BOOLEAN
    /\ clicks \in 0 .. MaxClicks

\* However failures, the second phase and clicks come together, one coroutine at
\* a time works on a part, and the button reaches it.
OneRunPerPart ==
    \A p \in Parts :
        /\ Cardinality(Live(p)) <= 1
        /\ \A r \in Live(p) : flags[p] = r

\* The file that is closed has every byte of every part at its position.
FileIsWhole ==
    main = "done" => wrong = {} /\ \A p \in Parts : received[p] = Chunks[p]

\* A transfer ends, or idles with failed parts that a click runs again: no part
\* is left at the gate, and no reconnect goes on for ever.
TransferSettles ==
    []<>(\/ main \in {"done", "single done", "failed"}
         \/ main = "poll" /\ phase2 /\ Active = {} /\ Failed # {})
=============================================================================

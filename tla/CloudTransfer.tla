--------------------------- MODULE CloudTransfer ---------------------------
(***************************************************************************)
(* A file of the cloud is saved to the user's disk in parallel parts       *)
(* (downloadCloudFileToDisk): one runPart coroutine per part that opens a   *)
(* MEGA stream at the first byte that is missing, the one chain through     *)
(* which all the chunks are written, the refresh button that supersedes the *)
(* coroutine of a part, and the two ways to the end: all the first           *)
(* coroutines have returned, or a refreshed one has.                        *)
(*                                                                         *)
(* The model begins when the file is open.  An action is what runs between *)
(* two awaits.  The disk does not fail.  A destroyed stream ends or is      *)
(* silent for ever: megajs is external.                                     *)
(***************************************************************************)
EXTENDS Naturals, FiniteSets, Sequences

CONSTANTS
    Parts,
    Chunks,         \* chunks of each part
    MaxAborts,      \* MAX_ABORT_RETRIES
    MaxRefreshes,   \* bound: refreshes in all
    MaxQueued       \* bound: writes and ends of streams in the chain

\* The coroutines of a part in the order they were started: the generation of
\* the n-th is n - 1.
Runs == Parts \X (1 .. MaxRefreshes + 1)
Initial == {r \in Runs : r[2] = 1}

VARIABLES
    status,         \* part.status
    reconnecting,   \* part.reconnecting
    received,       \* part.receivedBytes, in chunks
    wrong,          \* parts with a chunk at a position that is not its own
    gen,            \* partCtl.gen
    run,            \* the coroutines
    chain,          \* writeChain: the writes and ends of streams that wait
    overtaken,      \* parts with a stream opened while writes of it waited (history)
    all,            \* the Promise.all of the first coroutines
    final,          \* finalize: not called, waiting for the chain, closing, closed
    promise         \* the promise of the transfer

vars == <<status, reconnecting, received, wrong, gen, run, chain, overtaken, all, final, promise>>

-----------------------------------------------------------------------------
NotStarted == [pc |-> "off", at |-> 0, aborts |-> 0]
Loading == [pc |-> "load", at |-> 0, aborts |-> 0]

On(r, pc) == run[r].pc = pc
Goto(r, pc) == run' = [run EXCEPT ![r] = [NotStarted EXCEPT !.pc = pc]]
Refreshes == Cardinality({r \in Runs : r[2] <= gen[r[1]]})
HasRoom == Len(chain) < MaxQueued
Superseded(r) == gen[r[1]] # r[2] - 1

\* A coroutine that returns: the first ones are awaited, the others have a then.
Returned(r) == IF r \in Initial THEN "returned" ELSE "then"

AllPartsDone ==
    \A p \in Parts : status[p] = "completed" /\ received[p] >= Chunks[p]

Queued(p) == \E i \in DOMAIN chain : chain[i].r[1] = p /\ ~chain[i].end

-----------------------------------------------------------------------------
(* runPart.                                                                *)

\* Faulty variant: a part is read again from its beginning.
OpensAfresh(r) ==
    /\ On(r, "load") /\ ~Superseded(r)
    /\ run' = [run EXCEPT ![r].pc = "stream", ![r].at = 0]
    /\ UNCHANGED <<status, reconnecting, received, wrong, gen, chain, overtaken, all, final,
                   promise>>

\* The attributes are there: the stream opens at the first byte that is missing.
Opens(r) ==
    LET p == r[1]
    IN  /\ On(r, "load") /\ ~Superseded(r) /\ received[p] < Chunks[p]
        /\ run' = [run EXCEPT ![r].pc = "stream", ![r].at = received[p]]
        /\ overtaken' = IF Queued(p) THEN overtaken \cup {p} ELSE overtaken
        /\ UNCHANGED <<status, reconnecting, received, wrong, gen, chain, all, final, promise>>

\* Nothing is missing, or another coroutine has the part: it just returns.
ReturnsEarly(r) ==
    /\ On(r, "load") /\ (Superseded(r) \/ received[r[1]] >= Chunks[r[1]])
    /\ Goto(r, Returned(r))
    /\ UNCHANGED <<status, reconnecting, received, wrong, gen, chain, overtaken, all, final,
                   promise>>

\* A chunk joins the chain; what a superseded stream still sends is dropped.
Data(r) ==
    LET p == r[1]
    IN  /\ On(r, "stream") /\ ~Superseded(r) /\ run[r].at < Chunks[p] /\ HasRoom
        /\ chain' = Append(chain, [r |-> r, at |-> run[r].at, end |-> FALSE])
        /\ run' = [run EXCEPT ![r].at = @ + 1]
        /\ reconnecting' = [reconnecting EXCEPT ![p] = FALSE]
        /\ UNCHANGED <<status, received, wrong, gen, overtaken, all, final, promise>>

\* The stream has ended; the coroutine goes on when the writes before it are done.
StreamEnds(r) ==
    /\ On(r, "stream") /\ ~Superseded(r) /\ run[r].at = Chunks[r[1]] /\ HasRoom
    /\ chain' = Append(chain, [r |-> r, at |-> run[r].at, end |-> TRUE])
    /\ Goto(r, "ended")
    /\ UNCHANGED <<status, reconnecting, received, wrong, gen, overtaken, all, final, promise>>

\* A destroyed stream reports an error, and its coroutine returns.
Destroyed(r) ==
    /\ On(r, "stream") /\ Superseded(r)
    /\ Goto(r, Returned(r))
    /\ UNCHANGED <<status, reconnecting, received, wrong, gen, chain, overtaken, all, final,
                   promise>>

\* An aborted connection is tried again two seconds later.
Aborts(r) ==
    /\ run[r].pc \in {"load", "stream"} /\ ~Superseded(r)
    /\ run[r].aborts < MaxAborts
    /\ run' = [run EXCEPT ![r] = [Loading EXCEPT !.aborts = run[r].aborts + 1]]
    /\ UNCHANGED <<status, reconnecting, received, wrong, gen, chain, overtaken, all, final,
                   promise>>

\* Any other error is the end of the part.
PartFails(r) ==
    /\ run[r].pc \in {"load", "stream"} /\ ~Superseded(r)
    /\ Goto(r, Returned(r))
    /\ status' = [status EXCEPT ![r[1]] = "failed"]
    /\ reconnecting' = [reconnecting EXCEPT ![r[1]] = FALSE]
    /\ UNCHANGED <<received, wrong, gen, chain, overtaken, all, final, promise>>

\* The quota is spent: the first coroutines end the transfer with it, the
\* rejection of a refreshed one is not looked at.
QuotaSpent(r) ==
    /\ run[r].pc \in {"load", "stream"} /\ ~Superseded(r)
    /\ Goto(r, "rejected")
    /\ IF r \in Initial /\ all = "waiting"
       THEN /\ status' = [p \in Parts |-> IF status[p] = "completed" /\ p # r[1]
                                          THEN "completed" ELSE "failed"]
            /\ all' = "rejected"
            /\ promise' = IF promise = "pending" THEN "rejected" ELSE promise
       ELSE status' = [status EXCEPT ![r[1]] = "failed"] /\ UNCHANGED <<all, promise>>
    /\ reconnecting' = [reconnecting EXCEPT ![r[1]] = FALSE]
    /\ UNCHANGED <<received, wrong, gen, chain, overtaken, final>>

-----------------------------------------------------------------------------
(* The chain of writes.                                                    *)

\* The next chunk goes to the first byte that is missing, unless the part is full.
Written ==
    /\ chain # <<>> /\ ~Head(chain).end
    /\ chain' = Tail(chain)
    /\ LET p == Head(chain).r[1]
       IN  IF received[p] >= Chunks[p] \/ final = "closing" \/ final = "closed"
           THEN UNCHANGED <<received, wrong>>
           ELSE /\ received' = [received EXCEPT ![p] = @ + 1]
                /\ wrong' = IF Head(chain).at # received[p] THEN wrong \cup {p} ELSE wrong
    /\ UNCHANGED <<status, reconnecting, gen, run, overtaken, all, final, promise>>

\* The writes before the end of a stream are done: the part is whole or failed,
\* whoever has it by now.
EndSeen ==
    /\ chain # <<>> /\ Head(chain).end
    /\ chain' = Tail(chain)
    /\ LET r == Head(chain).r
           p == r[1]
           whole == received[p] >= Chunks[p]
       IN  /\ Goto(r, Returned(r))
           /\ status' = [status EXCEPT ![p] = IF whole THEN "completed" ELSE "failed"]
           /\ reconnecting' = IF whole THEN reconnecting ELSE [reconnecting EXCEPT ![p] = FALSE]
    /\ UNCHANGED <<received, wrong, gen, overtaken, all, final, promise>>

-----------------------------------------------------------------------------
(* The refresh button and the end.                                         *)

\* The stream of the part is destroyed and a new coroutine takes over.
Refresh(p) ==
    /\ promise = "pending"
    /\ status[p] # "completed" /\ ~reconnecting[p]
    /\ Refreshes < MaxRefreshes
    /\ gen' = [gen EXCEPT ![p] = @ + 1]
    /\ status' = [status EXCEPT ![p] = "downloading"]
    /\ reconnecting' = [reconnecting EXCEPT ![p] = TRUE]
    /\ run' = [run EXCEPT ![<<p, gen[p] + 2>>] = Loading]
    /\ UNCHANGED <<received, wrong, chain, overtaken, all, final, promise>>

\* All the first coroutines have returned.
AllReturned ==
    /\ all = "waiting"
    /\ \A r \in Initial : On(r, "returned")
    /\ all' = "returned"
    /\ IF AllPartsDone
       THEN IF final = "no"
            THEN final' = "waiting" /\ UNCHANGED promise
            ELSE /\ promise' = IF promise = "pending" THEN "resolved" ELSE promise
                 /\ UNCHANGED final
       ELSE UNCHANGED <<final, promise>>
    /\ UNCHANGED <<status, reconnecting, received, wrong, gen, run, chain, overtaken>>

\* A refreshed coroutine has returned.
Then(r) ==
    /\ On(r, "then")
    /\ Goto(r, "off")
    /\ IF AllPartsDone
       THEN IF final = "no"
            THEN final' = "waiting" /\ UNCHANGED promise
            ELSE /\ promise' = IF promise = "pending" THEN "resolved" ELSE promise
                 /\ UNCHANGED final
       ELSE UNCHANGED <<final, promise>>
    /\ UNCHANGED <<status, reconnecting, received, wrong, gen, chain, overtaken, all>>

\* finalize waits for the chain, then closes the file.
Drained ==
    /\ final = "waiting" /\ chain = <<>>
    /\ final' = "closing"
    /\ UNCHANGED <<status, reconnecting, received, wrong, gen, run, chain, overtaken, all, promise>>

Closed ==
    /\ final = "closing"
    /\ final' = "closed"
    /\ promise' = IF promise = "pending" THEN "resolved" ELSE promise
    /\ UNCHANGED <<status, reconnecting, received, wrong, gen, run, chain, overtaken, all>>

-----------------------------------------------------------------------------
Init ==
    /\ status = [p \in Parts |-> "downloading"]
    /\ reconnecting = [p \in Parts |-> FALSE]
    /\ received = [p \in Parts |-> 0]
    /\ wrong = {} /\ overtaken = {}
    /\ gen = [p \in Parts |-> 0]
    /\ run = [r \in Runs |-> IF r \in Initial THEN Loading ELSE NotStarted]
    /\ chain = <<>>
    /\ all = "waiting" /\ final = "no" /\ promise = "pending"

RunStep(r) ==
    \/ Opens(r) \/ ReturnsEarly(r) \/ Data(r) \/ StreamEnds(r) \/ Destroyed(r)
    \/ Aborts(r) \/ PartFails(r) \/ QuotaSpent(r) \/ Then(r)

Ending == AllReturned \/ Drained \/ Closed

Next ==
    \/ \E r \in Runs : RunStep(r)
    \/ Written \/ EndSeen \/ Ending
    \/ \E p \in Parts : Refresh(p)

Spec == Init /\ [][Next]_vars

-----------------------------------------------------------------------------
TypeOK ==
    /\ status \in [Parts -> {"downloading", "completed", "failed"}]
    /\ reconnecting \in [Parts -> BOOLEAN]
    /\ received \in [Parts -> Nat] /\ \A p \in Parts : received[p] <= Chunks[p]
    /\ wrong \subseteq Parts /\ overtaken \subseteq Parts
    /\ gen \in [Parts -> 0 .. MaxRefreshes]
    /\ run \in [Runs -> [pc : {"off", "load", "stream", "ended", "returned", "then", "rejected"},
                         at : Nat, aborts : 0 .. MaxAborts]]
    /\ chain \in Seq([r : Runs, at : Nat, end : BOOLEAN])
    /\ all \in {"waiting", "returned", "rejected"}
    /\ final \in {"no", "waiting", "closing", "closed"}
    /\ promise \in {"pending", "resolved", "rejected"}

\* The file that is closed has every byte of every part at its position.
FileIsWhole ==
    final = "closed" => \A p \in Parts : received[p] = Chunks[p] /\ p \notin wrong

\* The same, if no stream was opened while chunks of its part waited to be
\* written: those chunks move the position that the new stream was opened for.
FileIsWholeUnlessOvertaken ==
    final = "closed" => \A p \in Parts \ overtaken : received[p] = Chunks[p] /\ p \notin wrong

\* A part that was refreshed when all its bytes were there, before its end was
\* seen: it stays as it is, and its button is disabled.
Stranded(p) ==
    /\ status[p] = "downloading" /\ received[p] = Chunks[p]
    /\ \A r \in Runs : r[1] = p => run[r].pc \in {"off", "returned", "rejected"}

\* A transfer ends, or shows a failed part that can be refreshed.
TransferSettles ==
    []<>(promise # "pending" \/ \E p \in Parts : status[p] = "failed" \/ Stranded(p))
=============================================================================

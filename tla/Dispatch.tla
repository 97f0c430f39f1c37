------------------------------ MODULE Dispatch ------------------------------
(***************************************************************************)
(* How a pending download of a worker gets started: the dispatcher of the  *)
(* browsers' SharedWorkers (sync-worker.js), the dispatch route of the     *)
(* backend with one action per database statement, the trigger request,    *)
(* the runs of the workers with their status reports, heartbeats, and the  *)
(* recovery of a server backend that starts.                               *)
(*                                                                         *)
(* Time is abstracted to what the thresholds tell apart: whether the last  *)
(* heartbeat of a worker is older than 20 s and whether the last update of *)
(* a row is older than 90 s.  "uploading" is not distinguished from        *)
(* "downloading": dispatch treats them alike.  The threads behind a run    *)
(* are those of WorkerSlot.                                                *)
(***************************************************************************)
EXTENDS Naturals, FiniteSets

CONSTANTS
    Rows,           \* the download rows are 1 .. Rows, oldest first
    Workers,
    Assigned,       \* workerId of each row
    Dispatchers,    \* SharedWorkers that are open, one per browser
    Limit,          \* pending rows that dispatch reads (20)
    MaxTriggers,    \* bound: trigger requests of one row under way
    LateRows        \* bound: rows that may have one late status report

Downloads == 1 .. Rows

ASSUME DispatchAssumption ==
    /\ Rows \in Nat /\ Limit \in Nat /\ MaxTriggers \in Nat
    /\ LateRows \subseteq Downloads
    /\ Assigned \in [Downloads -> Workers]

VARIABLES
    row,        \* status column of file_downloads
    old,        \* rows whose updatedAt is older than STUCK_THRESHOLD_MS
    online,     \* workers whose lastHeartbeat is within ONLINE_THRESHOLD_MS
    up,         \* workers whose process is alive
    run,        \* what the worker's run of the row is doing
    stray,      \* status requests that timed out but may still be applied
    triggers,   \* trigger requests under way
    disp        \* the dispatch request of each SharedWorker

vars == <<row, old, online, up, run, stray, triggers, disp>>

RowStatus == {"pending", "downloading", "completed", "failed"}
RunState == {"idle", "announce", "transfer", "sayCompleted", "sayFailed"}
Report == [id : Downloads, status : RowStatus \ {"pending"}]

\* rows: what the request holds of its last reading; busy: busyWorkerIds.
Idle == [pc |-> "idle", rows |-> {}, busy |-> {}]
Request == [pc : {"idle", "seen", "mark", "busy", "choose"},
            rows : SUBSET Downloads, busy : SUBSET Workers]

Reports(d) ==
    CASE run[d] = "announce" -> "downloading"
      [] run[d] = "sayCompleted" -> "completed"
      [] run[d] = "sayFailed" -> "failed"
AfterReport(d) == IF run[d] = "announce" THEN "transfer" ELSE "idle"
Reporting(d) == run[d] \in {"announce", "sayCompleted", "sayFailed"}

\* Every write of a row sets updatedAt.
SetRow(d, status) ==
    /\ row' = [row EXCEPT ![d] = status]
    /\ old' = old \ {d}

Pending == {d \in Downloads : row[d] = "pending"}
Active == {d \in Downloads : row[d] = "downloading"}

\* ORDER BY created_at LIMIT: the n oldest of a set of rows.
Oldest(rows, n) == {d \in rows : Cardinality({e \in rows : e < d}) < n}

-----------------------------------------------------------------------------
(* Faulty variants of the actions below.  No run uses them as they stand: put *)
(* in the place of the action they make a property fail.                      *)

\* Online workers' rows are marked instead of the others.
ReadHeartbeatsSwapped(b) ==
    /\ disp[b].pc = "seen"
    /\ disp' = [disp EXCEPT ![b].pc = "mark",
                   ![b].rows = {d \in @ : Assigned[d] \in online}]
    /\ UNCHANGED <<row, old, online, up, run, stray, triggers>>

\* A worker that has any row beyond pending counts as busy.
ReadBusyAnyRow(b) ==
    /\ disp[b].pc = "busy"
    /\ disp' = [disp EXCEPT ![b].pc = "choose",
                   ![b].busy = {Assigned[d] : d \in Downloads \ Pending}]
    /\ UNCHANGED <<row, old, online, up, run, stray, triggers>>

-----------------------------------------------------------------------------
(* POST /api/worker/dispatch *)

\* The dispatcher of a SharedWorker starts a request; the rows in progress
\* are read.  dispatchInProgress keeps a second one of the same browser out.
\* The heartbeats matter only when one of the rows is old.
ReadActive(b) ==
    /\ disp[b].pc = "idle"
    /\ disp' = [disp EXCEPT ![b] =
                   [pc |-> IF Active \cap old = {} THEN "mark" ELSE "seen",
                    rows |-> Active \cap old, busy |-> {}]]
    /\ UNCHANGED <<row, old, online, up, run, stray, triggers>>

\* The heartbeats are read: rows of workers that are not online are stuck.
ReadHeartbeats(b) ==
    /\ disp[b].pc = "seen"
    /\ disp' = [disp EXCEPT ![b].pc = "mark",
                   ![b].rows = {d \in @ : Assigned[d] \notin online}]
    /\ UNCHANGED <<row, old, online, up, run, stray, triggers>>

\* One stuck row is written, whatever it holds by now.
MarkStuck(b, d) ==
    /\ disp[b].pc = "mark"
    /\ d \in disp[b].rows
    /\ SetRow(d, "failed")
    /\ disp' = [disp EXCEPT ![b].rows = @ \ {d}]
    /\ UNCHANGED <<online, up, run, stray, triggers>>

\* The oldest pending rows are read; without any the answer is "none".
ReadPending(b) ==
    /\ disp[b].pc = "mark"
    /\ disp[b].rows = {}
    /\ disp' = [disp EXCEPT ![b] =
                   IF Pending = {} THEN Idle
                   ELSE [pc |-> "busy", rows |-> Oldest(Pending, Limit), busy |-> {}]]
    /\ UNCHANGED <<row, old, online, up, run, stray, triggers>>

\* The rows in progress are read again, for the workers they occupy.
ReadBusy(b) ==
    /\ disp[b].pc = "busy"
    /\ disp' = [disp EXCEPT ![b].pc = "choose",
                   ![b].busy = {Assigned[d] : d \in Active}]
    /\ UNCHANGED <<row, old, online, up, run, stray, triggers>>

\* Rows whose worker is online and not busy, as this request sees it.
Available(b) ==
    {d \in disp[b].rows : Assigned[d] \notin disp[b].busy /\ Assigned[d] \in online}

\* The workers are read and the oldest available row is answered; the browser
\* posts the trigger to the worker and does not wait for it before the next
\* dispatch.
Choose(b, d) ==
    /\ disp[b].pc = "choose"
    /\ d \in Available(b)
    /\ \A e \in Available(b) : d <= e
    /\ triggers[d] < MaxTriggers
    /\ triggers' = [triggers EXCEPT ![d] = @ + 1]
    /\ disp' = [disp EXCEPT ![b] = Idle]
    /\ UNCHANGED <<row, old, online, up, run, stray>>

\* No destination is available.
ChooseNone(b) ==
    /\ disp[b].pc = "choose"
    /\ Available(b) = {}
    /\ disp' = [disp EXCEPT ![b] = Idle]
    /\ UNCHANGED <<row, old, online, up, run, stray, triggers>>

\* The session token of the oldest available row's worker has expired and the
\* rotation fails: the row is passed over.
SkipUnreachable(b, d) ==
    /\ disp[b].pc = "choose"
    /\ d \in Available(b)
    /\ \A e \in Available(b) : d <= e
    /\ disp' = [disp EXCEPT ![b].rows = @ \ {d}]
    /\ UNCHANGED <<row, old, online, up, run, stray, triggers>>

-----------------------------------------------------------------------------
(* The trigger and the run *)

\* The worker accepts the trigger.  It does not know which ids it has finished.
Accept(d) ==
    /\ triggers[d] > 0
    /\ Assigned[d] \in up
    /\ run[d] = "idle"
    /\ triggers' = [triggers EXCEPT ![d] = @ - 1]
    /\ run' = [run EXCEPT ![d] = "announce"]
    /\ UNCHANGED <<row, old, online, up, stray, disp>>

\* The trigger is lost, rejected (401, 5xx), or refused by a busy worker.
TriggerFails(d) ==
    /\ triggers[d] > 0
    /\ triggers' = [triggers EXCEPT ![d] = @ - 1]
    /\ UNCHANGED <<row, old, online, up, run, stray, disp>>

\* POST /api/worker/status-update, applied and answered.
ReportApplied(d) ==
    /\ Reporting(d)
    /\ SetRow(d, Reports(d))
    /\ run' = [run EXCEPT ![d] = AfterReport(d)]
    /\ UNCHANGED <<online, up, stray, triggers, disp>>

\* The worker stops waiting for the answer: the request is still on its way,
\* and _post sends another one.
ReportTimesOut(d) ==
    /\ Reporting(d)
    /\ d \in LateRows
    /\ \A r \in stray : r.id # d
    /\ stray' = stray \cup {[id |-> d, status |-> Reports(d)]}
    /\ UNCHANGED <<row, old, online, up, run, triggers, disp>>

\* Every attempt failed; the run goes on.
ReportGivenUp(d) ==
    /\ Reporting(d)
    /\ run' = [run EXCEPT ![d] = AfterReport(d)]
    /\ UNCHANGED <<row, old, online, up, stray, triggers, disp>>

\* A report whose sender no longer waits is applied, or is lost after all.
StrayArrives(r) ==
    /\ r \in stray
    /\ \/ SetRow(r.id, r.status)
       \/ UNCHANGED <<row, old>>
    /\ stray' = stray \ {r}
    /\ UNCHANGED <<online, up, run, triggers, disp>>

TransferSucceeds(d) ==
    /\ run[d] = "transfer"
    /\ run' = [run EXCEPT ![d] = "sayCompleted"]
    /\ UNCHANGED <<row, old, online, up, stray, triggers, disp>>

TransferFails(d) ==
    /\ run[d] = "transfer"
    /\ run' = [run EXCEPT ![d] = "sayFailed"]
    /\ UNCHANGED <<row, old, online, up, stray, triggers, disp>>

-----------------------------------------------------------------------------
(* Workers and time *)

\* The process ends: its runs are gone, its rows keep their status.
Crash(w) ==
    /\ w \in up
    /\ up' = up \ {w}
    /\ run' = [d \in Downloads |-> IF Assigned[d] = w THEN "idle" ELSE run[d]]
    /\ UNCHANGED <<row, old, online, stray, triggers, disp>>

\* A new process registers, which counts as a heartbeat.
Boot(w) ==
    /\ w \notin up
    /\ up' = up \cup {w}
    /\ online' = online \cup {w}
    /\ UNCHANGED <<row, old, run, stray, triggers, disp>>

Heartbeat(w) ==
    /\ w \in up
    /\ online' = online \cup {w}
    /\ UNCHANGED <<row, old, up, run, stray, triggers, disp>>

\* No heartbeat arrives for a while: the worker is down or its requests are
\* delayed by the retries of _post.
HeartbeatAges(w) ==
    /\ online' = online \ {w}
    /\ UNCHANGED <<row, old, up, run, stray, triggers, disp>>

\* Nothing writes the row for the length of STUCK_THRESHOLD_MS: a transfer
\* does not.  The age of a row that is not in progress is not looked at.
RowAges(d) ==
    /\ row[d] = "downloading"
    /\ old' = old \cup {d}
    /\ UNCHANGED <<row, online, up, run, stray, triggers, disp>>

\* A server backend starts and marks the rows in "downloading" as left over from
\* its last life, whoever downloads them; those in "uploading" it leaves.
BackendStarts(rows) ==
    /\ rows \subseteq Active
    /\ rows # {}
    /\ row' = [d \in Downloads |-> IF d \in rows THEN "failed" ELSE row[d]]
    /\ old' = old \ rows
    /\ UNCHANGED <<online, up, run, stray, triggers, disp>>

-----------------------------------------------------------------------------
Init ==
    /\ row = [d \in Downloads |-> "pending"]
    /\ old = {}
    /\ online = Workers
    /\ up = Workers
    /\ run = [d \in Downloads |-> "idle"]
    /\ stray = {}
    /\ triggers = [d \in Downloads |-> 0]
    /\ disp = [b \in Dispatchers |-> Idle]

RouteStep(b) ==
    \/ ReadActive(b) \/ ReadHeartbeats(b) \/ ReadPending(b) \/ ReadBusy(b)
    \/ ChooseNone(b)
    \/ \E d \in Downloads : MarkStuck(b, d)

RunStep(d) == ReportApplied(d) \/ ReportGivenUp(d) \/ TransferSucceeds(d) \/ TransferFails(d)

Next ==
    \/ \E b \in Dispatchers :
          RouteStep(b) \/ \E d \in Downloads : Choose(b, d) \/ SkipUnreachable(b, d)
    \/ \E d \in Downloads :
          Accept(d) \/ TriggerFails(d) \/ RunStep(d) \/ ReportTimesOut(d) \/ RowAges(d)
    \/ \E r \in stray : StrayArrives(r)
    \/ \E rows \in SUBSET Active : BackendStarts(rows)
    \/ \E w \in Workers : Crash(w) \/ Boot(w) \/ Heartbeat(w) \/ HeartbeatAges(w)

Spec == Init /\ [][Next]_vars

\* The dispatcher runs after every sync cycle and every step of the route ends.
\* An answer is not passed over for ever, a trigger is not lost for ever, and
\* neither is a report: each is tried again and again.  Time passes for rows
\* and for workers that are down.
Fairness ==
    /\ \A b \in Dispatchers :
          WF_vars(RouteStep(b)) /\ \A d \in Downloads : SF_vars(Choose(b, d))
    /\ \A d \in Downloads :
          /\ SF_vars(Accept(d))
          /\ WF_vars(RunStep(d))
          /\ SF_vars(ReportApplied(d))
          /\ WF_vars(RowAges(d))
    /\ WF_vars(\E r \in stray : StrayArrives(r))
    /\ \A w \in Workers : WF_vars(w \notin up /\ HeartbeatAges(w))

FairSpec == Spec /\ Fairness

-----------------------------------------------------------------------------
(* Correctness *)

TypeOK ==
    /\ row \in [Downloads -> RowStatus]
    /\ old \subseteq Downloads
    /\ online \subseteq Workers
    /\ up \subseteq Workers
    /\ run \in [Downloads -> RunState]
    /\ stray \subseteq Report
    /\ triggers \in [Downloads -> 0 .. MaxTriggers]
    /\ disp \in [Dispatchers -> Request]

\* A row in progress that no run and no request on its way will ever write.
Orphan(d) ==
    /\ row[d] = "downloading"
    /\ run[d] = "idle"
    /\ \A r \in stray : r.id # d

\* A row is not pending for ever while its worker is up and online: dispatch is
\* repeated until the worker has reported it (dispatch/route.ts:179-186).  The
\* exception is a worker that an orphaned row keeps busy for dispatch.
PendingStarts ==
    \A d \in Downloads :
        []<>(\/ row[d] # "pending"
             \/ Assigned[d] \notin up
             \/ Assigned[d] \notin online
             \/ \E e \in Downloads : Assigned[e] = Assigned[d] /\ Orphan(e))

\* A row whose run died with its worker is marked failed unless the worker
\* comes back (dispatch/route.ts:40-85).
OrphanIsMarked ==
    \A d \in Downloads :
        Orphan(d) /\ Assigned[d] \notin up ~> ~Orphan(d) \/ Assigned[d] \in up

\* A server backend that starts marks rows that "were in-flight when Express last
\* stopped" (express-backend/src/index.js:33-34): no run of a worker is at them.
StartMarksStale ==
    [][\A rows \in SUBSET Active :
          BackendStarts(rows) => \A d \in rows : run[d] = "idle"]_vars

\* sync-worker.js:703-704: the dispatcher is a single instance, "so there's no
\* risk of two tabs double-triggering the same download".
NoDoubleTrigger == \A d \in Downloads : triggers[d] <= 1

\* dispatch/route.ts:41-42: a row is marked under "Conditions:
\* status=downloading/uploading AND assigned worker has been offline".
MarkHitsActiveRow ==
    [][\A b \in Dispatchers, d \in Downloads :
          MarkStuck(b, d) => row[d] = "downloading"]_vars

\* dispatch/route.ts:134: "Find the first pending download with an available
\* destination": when there is one, the rows that are read contain one.
AvailableIsRead ==
    \A b \in Dispatchers :
        LET Free(rows) == {d \in rows : Assigned[d] \in online /\
                              \A e \in Active : Assigned[e] # Assigned[d]}
        IN  disp[b].pc = "busy" /\ Free(Pending) # {} => Free(disp[b].rows) # {}
=============================================================================

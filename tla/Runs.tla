-------------------------------- MODULE Runs --------------------------------
(***************************************************************************)
(* What the workers promise the backend about download runs: a run of an   *)
(* id is exclusive, and a row is completed only after its payload has been *)
(* delivered, although a report may arrive long after the run that made it *)
(* and after the backend's own mark.                                       *)
(***************************************************************************)
EXTENDS Naturals

CONSTANTS
    Downloads,      \* ids of download rows
    MayBeEmpty      \* ids that may complete without a payload

VARIABLES
    running,    \* ids with a run in progress
    delivered,  \* ids whose payload is published or uploaded
    row,        \* status column of file_downloads
    late        \* writes of rows that are still on their way

runsVars == <<running, delivered, row, late>>

Status == {"pending", "downloading", "uploading", "completed", "failed"}

\* A run of the id begins; never while another one exists.
Start(d) ==
    /\ d \notin running
    /\ running' = running \cup {d}
    /\ UNCHANGED <<delivered, row, late>>

\* The payload reaches its destination.
Deliver(d) ==
    /\ d \in running
    /\ delivered' = delivered \cup {d}
    /\ UNCHANGED <<running, row, late>>

\* What a run may report: a status other than pending, and completed only of
\* what is delivered.
MayReport(d, status) ==
    /\ d \in running
    /\ status = "completed" => d \in delivered \cup MayBeEmpty

\* A status report of the run is applied ...
SetRow(d, status) ==
    /\ MayReport(d, status)
    /\ row' = [row EXCEPT ![d] = status]
    /\ UNCHANGED <<running, delivered, late>>

\* ... or stays on its way, while the run goes on or ends.
Delay(d, status) ==
    /\ MayReport(d, status)
    /\ late' = late \cup {[id |-> d, status |-> status]}
    /\ UNCHANGED <<running, delivered, row>>

\* The backend sees the row in progress and is going to mark it failed.
Doubt(d) ==
    /\ row[d] \in {"downloading", "uploading"}
    /\ late' = late \cup {[id |-> d, status |-> "failed"]}
    /\ UNCHANGED <<running, delivered, row>>

\* What was on its way is written over whatever the row holds, or is lost.
Arrives(w) ==
    /\ row' = row \/ row' = [row EXCEPT ![w.id] = w.status]
    /\ late' = late \ {w}
    /\ UNCHANGED <<running, delivered>>

End(d) ==
    /\ d \in running
    /\ running' = running \ {d}
    /\ UNCHANGED <<delivered, row, late>>

\* The process dies with all its runs.
Crash ==
    /\ running' = {}
    /\ UNCHANGED <<delivered, row, late>>

RunsInit ==
    /\ running = {}
    /\ delivered = {}
    /\ row = [d \in Downloads |-> "pending"]
    /\ late = {}

RunsNext ==
    \/ \E d \in Downloads : Start(d) \/ Deliver(d) \/ End(d) \/ Doubt(d)
    \/ \E d \in Downloads, status \in Status \ {"pending"} :
          SetRow(d, status) \/ Delay(d, status)
    \/ \E w \in late : Arrives(w)
    \/ Crash

RunsSpec == RunsInit /\ [][RunsNext]_runsVars
=============================================================================

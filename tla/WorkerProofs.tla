---------------------------- MODULE WorkerProofs ----------------------------
(***************************************************************************)
(* Proofs about workers, for any numbers of ids, threads, tunnels and      *)
(* rows.  WorkerSlot: the exclusiveness of a run, the ownership of its     *)
(* staging directory, and the refinement of Runs.  Tunnel: no tunnel is    *)
(* left that nobody will stop.  Dispatch: what it reads is enough, and     *)
(* what frees a row.                                                       *)
(***************************************************************************)
EXTENDS WorkerSlot, Tunnel, WellFoundedInduction, FiniteSetTheorems, TLAPS

Acts(t) ==
    \/ ClaimRun(t) \/ RefuseDuplicate(t) \/ Stage(t) \/ StageFailed(t)
    \/ FillSlot(t) \/ Aria2Found(t) \/ Aria2Missing(t) \/ Abandon(t)
    \/ Fetch(t) \/ Chunk(t) \/ NoticeCancel(t) \/ TransferDone(t)
    \/ TransferError(t) \/ Publish(t) \/ StartUpload(t) \/ UploadChunk(t)
    \/ UploadDone(t) \/ UploadFailed(t) \/ PostApplied(t)
    \/ PostTimesOut(t) \/ PostLost(t) \/ PostRejected(t)
    \/ Cleanup(t) \/ Release(t) \/ Finish(t)

\* A step of the program is one of the named actions.
LEMMA StepCases ==
    ASSUME [Next]_vars
    PROVE  \/ \E d \in Downloads, t \in Threads : Trigger(d, t)
           \/ \E d \in Downloads : Cancel(d)
           \/ \E t \in Threads : Acts(t)
           \/ \E d \in Downloads : BackendMarks(d)
           \/ \E w \in writes : WriteArrives(w)
           \/ Restart
           \/ UNCHANGED vars
  BY DEF Next, ThreadStep, AdvanceStep, Acts

-----------------------------------------------------------------------------
(* Types *)

\* A thread that is alive works for an id; one that reports has a report.
IdInv ==
    \A t \in Threads :
        /\ thread[t].pc # "idle" => thread[t].id \in Downloads
        /\ thread[t].pc = "post" =>
              /\ thread[t].say \in Status \ {"pending"}
              /\ thread[t].then \in {"aria2", "fetch", "upload", "abandon", "cleanup"}

TypeInv == TypeOK /\ IdInv

\* What Go does to the thread table.
LEMMA GoEffect ==
    ASSUME TypeOK, NEW t \in Threads, NEW pc \in Pcs, Go(t, pc)
    PROVE  /\ thread' \in [Threads -> Thread]
           /\ thread'[t] = [thread[t] EXCEPT !.pc = pc]
           /\ thread'[t].pc = pc
           /\ thread'[t].id = thread[t].id
           /\ thread'[t].say = thread[t].say
           /\ thread'[t].then = thread[t].then
           /\ \A u \in Threads : u # t => thread'[u] = thread[u]
<1>1. [thread[t] EXCEPT !.pc = pc] \in Thread
  BY DEF TypeOK, Thread
<1>2. QED
  BY <1>1 DEF TypeOK, Go, Thread

\* What Report does to it.
LEMMA ReportEffect ==
    ASSUME TypeOK, NEW t \in Threads, NEW s \in Status, NEW pc \in Pcs,
           Report(t, s, pc)
    PROVE  /\ thread' \in [Threads -> Thread]
           /\ thread'[t].pc = "post"
           /\ thread'[t].id = thread[t].id
           /\ thread'[t].say = s
           /\ thread'[t].then = pc
           /\ \A u \in Threads : u # t => thread'[u] = thread[u]
<1>1. "post" \in Pcs
  BY DEF Pcs
<1>2. thread[t] \in Thread
  BY DEF TypeOK
<1>3. [thread[t] EXCEPT !.pc = "post", !.say = s, !.then = pc] \in Thread
  BY <1>1, <1>2 DEF Thread
<1>4. QED
  BY <1>3 DEF TypeOK, Report, Thread

\* Writing the status key keeps the type of the slot.
LEMMA SetStatusTyped ==
    ASSUME TypeOK, NEW s \in TaskStatus, SetStatus(s)
    PROVE  task' \in [id : Downloads \cup {None}, status : TaskStatus]
  BY DEF TypeOK, SetStatus

\* The phases and statuses the actions use belong to their types.
LEMMA Literals ==
    /\ EmptyTask \in [id : Downloads \cup {None}, status : TaskStatus]
    /\ IdleThread \in Thread
    /\ {"claim", "stage", "fill", "aria2", "fetch", "transfer", "deliver",
        "upload", "abandon", "cleanup", "release", "finish"} \subseteq Pcs
    /\ {"downloading", "uploading", "completed", "failed"} \subseteq Status
    /\ Status \subseteq TaskStatus
    /\ "progress" \in TaskStatus
  BY DEF EmptyTask, IdleThread, Thread, Pcs, Status, TaskStatus

\* A thread that goes on keeps its types and its id.
LEMMA GoTyped ==
    ASSUME TypeOK, IdInv, NEW t \in Threads, thread[t].pc # "idle",
           NEW pc \in Pcs \ {"post"}, Go(t, pc)
    PROVE  thread' \in [Threads -> Thread] /\ IdInv'
<1>1. /\ thread' \in [Threads -> Thread]
      /\ thread'[t].pc = pc
      /\ thread'[t].id = thread[t].id
      /\ \A u \in Threads : u # t => thread'[u] = thread[u]
  BY GoEffect
<1>2. thread[t].id \in Downloads
  BY DEF IdInv
<1>3. IdInv'
  BY <1>1, <1>2 DEF IdInv
<1>4. QED
  BY <1>1, <1>3

\* So does one that starts a report.
LEMMA ReportTyped ==
    ASSUME TypeOK, IdInv, NEW t \in Threads, thread[t].pc # "idle",
           NEW s \in Status \ {"pending"},
           NEW pc \in {"aria2", "fetch", "upload", "abandon", "cleanup"},
           Report(t, s, pc)
    PROVE  thread' \in [Threads -> Thread] /\ IdInv'
<1>1. pc \in Pcs
  BY DEF Pcs
<1>2. /\ thread' \in [Threads -> Thread]
      /\ thread'[t].pc = "post"
      /\ thread'[t].id = thread[t].id
      /\ thread'[t].say = s
      /\ thread'[t].then = pc
      /\ \A u \in Threads : u # t => thread'[u] = thread[u]
  BY <1>1, ReportEffect
<1>3. thread[t].id \in Downloads
  BY DEF IdInv
<1>4. IdInv'
  BY <1>2, <1>3 DEF IdInv
<1>5. QED
  BY <1>2, <1>4

\* A report is over: the thread goes on where it was told to.
LEMMA PostGoesOn ==
    ASSUME TypeOK, IdInv, NEW t \in Threads, At(t, "post"), Go(t, thread[t].then)
    PROVE  /\ thread[t].then \in {"aria2", "fetch", "upload", "abandon", "cleanup"}
           /\ thread'[t].pc = thread[t].then
           /\ thread'[t].id = thread[t].id
           /\ \A u \in Threads : u # t => thread'[u] = thread[u]
<1>1. thread[t].then \in {"aria2", "fetch", "upload", "abandon", "cleanup"}
  BY DEF At, IdInv
<1>2. thread[t].then \in Pcs
  BY <1>1 DEF Pcs
<1>3. QED
  BY <1>1, <1>2, GoEffect

\* Types are preserved by each kind of step.
LEMMA TypePreserved ==
    ASSUME TypeInv, [Next]_vars
    PROVE  TypeInv'
<1> USE Literals DEF TypeInv
<1>1. ASSUME NEW d \in Downloads, NEW t \in Threads, Trigger(d, t)
      PROVE  TypeInv'
  <2>1. [pc |-> "claim", id |-> d, say |-> None, then |-> "idle"] \in Thread
    BY DEF Thread, Pcs
  <2>2. QED
    BY <1>1, <2>1 DEF TypeOK, IdInv, Trigger
<1>2. ASSUME NEW d \in Downloads, Cancel(d)
      PROVE  TypeInv'
  BY <1>2 DEF TypeOK, IdInv, Cancel
<1>3. ASSUME NEW t \in Threads, Acts(t)
      PROVE  TypeInv'
  <2>1. CASE ClaimRun(t)
    <3> DEFINE next == IF IsTorrent(t) THEN "fill" ELSE "stage"
    <3>1. next \in {"fill", "stage"} /\ next \in Pcs
      BY Literals
    <3>2. /\ thread' \in [Threads -> Thread]
          /\ thread'[t].pc = next
          /\ thread'[t].id = thread[t].id
          /\ \A u \in Threads : u # t => thread'[u] = thread[u]
      BY <2>1, <3>1, GoEffect DEF ClaimRun
    <3>3. thread[t].id \in Downloads
      BY <2>1 DEF ClaimRun, At, IdInv
    <3>4. TypeOK'
      BY <2>1, <3>2, <3>3 DEF ClaimRun, TypeOK
    <3>5. IdInv'
      BY <2>1, <3>1, <3>2 DEF ClaimRun, IdInv, At
    <3>6. QED
      BY <3>4, <3>5
  <2>2. CASE RefuseDuplicate(t)
    BY <2>2, GoTyped DEF RefuseDuplicate, TypeOK, At
  <2>3. CASE Stage(t)
    BY <2>3, GoTyped DEF Stage, TypeOK, At
  <2>4. CASE StageFailed(t)
    BY <2>4, GoTyped DEF StageFailed, TypeOK, At
  <2>5. CASE FillSlot(t)
    <3> DEFINE next == IF IsTorrent(t) THEN "aria2" ELSE "fetch"
    <3>1. Report(t, "downloading", next) /\ thread[t].pc # "idle" /\ TypeOK /\ IdInv
      BY <2>5 DEF FillSlot, At
    <3>2. next \in {"aria2", "fetch"} /\ "downloading" \in Status \ {"pending"}
      BY DEF Status
    <3> HIDE DEF next
    <3>3. thread' \in [Threads -> Thread] /\ IdInv'
      BY <3>1, <3>2, ReportTyped
    <3>4. thread[t].id \in Downloads
      BY <3>1 DEF IdInv
    <3>5. QED
      BY <2>5, <3>3, <3>4 DEF FillSlot, TypeOK
  <2>6. CASE Aria2Found(t)
    BY <2>6, GoTyped DEF Aria2Found, TypeOK, At
  <2>7. CASE Aria2Missing(t)
    BY <2>7, ReportTyped, SetStatusTyped DEF Aria2Missing, TypeOK, At
  <2>8. CASE Abandon(t)
    BY <2>8, GoTyped DEF Abandon, TypeOK, At
  <2>9. CASE Fetch(t)
    BY <2>9, GoTyped DEF Fetch, TypeOK, At
  <2>10. CASE Chunk(t)
    BY <2>10 DEF Chunk, TypeOK, IdInv, At
  <2>11. CASE NoticeCancel(t)
    BY <2>11, ReportTyped, SetStatusTyped DEF NoticeCancel, TypeOK, At
  <2>12. CASE TransferDone(t)
    BY <2>12, GoTyped DEF TransferDone, TypeOK, At
  <2>13. CASE TransferError(t)
    <3>1. Report(t, "failed", "cleanup") /\ thread[t].pc # "idle" /\ TypeOK /\ IdInv
      BY <2>13 DEF TransferError, At
    <3>2. "failed" \in Status \ {"pending"}
      BY DEF Status
    <3>3. thread' \in [Threads -> Thread] /\ IdInv'
      BY <3>1, <3>2, ReportTyped
    <3>4. thread[t].id \in Downloads
      BY <3>1 DEF IdInv
    <3>5. QED
      BY <2>13, <3>3, <3>4, SetStatusTyped DEF TransferError, TypeOK
  <2>14. CASE Publish(t)
    <3>1. Report(t, "completed", "cleanup") /\ thread[t].pc # "idle" /\ TypeOK /\ IdInv
      BY <2>14 DEF Publish, At
    <3>2. "completed" \in Status \ {"pending"}
      BY DEF Status
    <3>3. thread' \in [Threads -> Thread] /\ IdInv'
      BY <3>1, <3>2, ReportTyped
    <3>4. thread[t].id \in Downloads
      BY <3>1 DEF IdInv
    <3>5. QED
      BY <2>14, <3>3, <3>4, SetStatusTyped DEF Publish, TypeOK
  <2>15. CASE StartUpload(t)
    BY <2>15, ReportTyped, SetStatusTyped DEF StartUpload, TypeOK, At
  <2>16. CASE UploadChunk(t)
    BY <2>16, SetStatusTyped DEF UploadChunk, TypeOK, IdInv, At
  <2>17. CASE UploadDone(t)
    <3>1. Report(t, "completed", "cleanup") /\ thread[t].pc # "idle" /\ TypeOK /\ IdInv
      BY <2>17 DEF UploadDone, At
    <3>2. "completed" \in Status \ {"pending"}
      BY DEF Status
    <3>3. thread' \in [Threads -> Thread] /\ IdInv'
      BY <3>1, <3>2, ReportTyped
    <3>4. thread[t].id \in Downloads
      BY <3>1 DEF IdInv
    <3>5. QED
      BY <2>17, <3>3, <3>4, SetStatusTyped DEF UploadDone, TypeOK
  <2>18. CASE UploadFailed(t)
    BY <2>18, ReportTyped, SetStatusTyped DEF UploadFailed, TypeOK, At
  <2>19. CASE PostApplied(t)
    <3>1. thread[t].then \in {"aria2", "fetch", "upload", "abandon", "cleanup"}
      BY <2>19 DEF PostApplied, At, IdInv
    <3>2. thread[t].id \in Downloads /\ thread[t].say \in Status
      BY <2>19 DEF PostApplied, At, IdInv
    <3>3. thread[t].then \in Pcs
      BY <3>1, Literals
    <3>4. /\ thread' \in [Threads -> Thread]
          /\ thread'[t].pc = thread[t].then
          /\ thread'[t].id = thread[t].id
          /\ \A u \in Threads : u # t => thread'[u] = thread[u]
      BY <2>19, <3>3, GoEffect DEF PostApplied
    <3>5. TypeOK'
      BY <2>19, <3>2, <3>4 DEF PostApplied, TypeOK
    <3>6. IdInv'
      BY <3>1, <3>2, <3>4 DEF IdInv
    <3>7. QED
      BY <3>5, <3>6
  <2>20. CASE PostTimesOut(t)
    <3>1. thread[t].id \in Downloads /\ thread[t].say \in Status
      BY <2>20 DEF PostTimesOut, At, IdInv
    <3>2. [id |-> thread[t].id, status |-> thread[t].say] \in Write
      BY <3>1 DEF Write
    <3>3. QED
      BY <2>20, <3>2 DEF PostTimesOut, TypeOK, IdInv
  <2>21. CASE PostLost(t)
    <3>1. thread[t].then \in {"aria2", "fetch", "upload", "abandon", "cleanup"}
      BY <2>21 DEF PostLost, At, IdInv
    <3>2. thread[t].id \in Downloads /\ thread[t].say \in Status
      BY <2>21 DEF PostLost, At, IdInv
    <3>3. thread[t].then \in Pcs
      BY <3>1, Literals
    <3>4. /\ thread' \in [Threads -> Thread]
          /\ thread'[t].pc = thread[t].then
          /\ thread'[t].id = thread[t].id
          /\ \A u \in Threads : u # t => thread'[u] = thread[u]
      BY <2>21, <3>3, GoEffect DEF PostLost
    <3>5. TypeOK'
      BY <2>21, <3>2, <3>4 DEF PostLost, TypeOK
    <3>6. IdInv'
      BY <3>1, <3>2, <3>4 DEF IdInv
    <3>7. QED
      BY <3>5, <3>6
  <2>22. CASE PostRejected(t)
    <3> DEFINE next == IF thread[t].then \in Unguarded THEN "release" ELSE "cleanup"
    <3>1. next \in {"release", "cleanup"} /\ next \in Pcs
      BY Literals
    <3>2. /\ thread' \in [Threads -> Thread]
          /\ thread'[t].pc = next
          /\ thread'[t].id = thread[t].id
          /\ \A u \in Threads : u # t => thread'[u] = thread[u]
      BY <2>22, <3>1, GoEffect DEF PostRejected
    <3>3. TypeOK'
      BY <2>22, <3>2 DEF PostRejected, TypeOK
    <3>4. IdInv'
      BY <2>22, <3>1, <3>2 DEF PostRejected, IdInv, At
    <3>5. QED
      BY <3>3, <3>4
  <2>23. CASE Cleanup(t)
    BY <2>23, GoTyped DEF Cleanup, TypeOK, At
  <2>24. CASE Release(t)
    BY <2>24, GoTyped DEF Release, TypeOK, At
  <2>25. CASE Finish(t)
    <3>1. thread' \in [Threads -> Thread]
      BY <2>25 DEF Finish, TypeOK
    <3>2. task' \in [id : Downloads \cup {None}, status : TaskStatus]
      BY <2>25 DEF Finish, TypeOK
    <3>3. IdInv'
      BY <2>25 DEF Finish, TypeOK, IdInv, IdleThread
    <3>4. QED
      BY <2>25, <3>1, <3>2, <3>3 DEF Finish, TypeOK
  <2>26. QED
    BY <1>3, <2>1, <2>2, <2>3, <2>4, <2>5, <2>6, <2>7, <2>8, <2>9, <2>10, 
       <2>11, <2>12, <2>13, <2>14, <2>15, <2>16, <2>17, <2>18, <2>19, 
       <2>20, <2>21, <2>22, <2>23, <2>24, <2>25 DEF Acts
<1>4. CASE Restart
  BY <1>4 DEF TypeOK, IdInv, Restart, IdleThread
<1>5. CASE UNCHANGED vars
  BY <1>5 DEF TypeOK, IdInv, vars
<1>6. ASSUME NEW d \in Downloads, BackendMarks(d)
      PROVE  TypeInv'
  <2>1. [id |-> d, status |-> "failed"] \in Write
    BY DEF Write, Status
  <2>2. QED
    BY <1>6, <2>1 DEF BackendMarks, TypeOK, IdInv
<1>7. ASSUME NEW w \in writes, WriteArrives(w)
      PROVE  TypeInv'
  <2>1. w.id \in Downloads /\ w.status \in Status
    BY DEF TypeOK, Write
  <2>2. row' \in [Downloads -> Status]
    BY <1>7, <2>1 DEF WriteArrives, TypeOK
  <2>3. QED
    BY <1>7, <2>2 DEF WriteArrives, TypeOK, IdInv
<1>8. QED
  BY <1>1, <1>2, <1>3, <1>4, <1>5, <1>6, <1>7, StepCases

-----------------------------------------------------------------------------
(* The backend's writes leave the worker alone. *)
LEMMA BackendWrites ==
    ASSUME \/ \E d \in Downloads : BackendMarks(d)
           \/ \E w \in writes : WriteArrives(w)
    PROVE  UNCHANGED <<task, cancel, active, thread, staged, delivered, stopping>>
  BY DEF BackendMarks, WriteArrives

-----------------------------------------------------------------------------
(* The in-flight set *)

\* An id is in the set exactly while a run of it exists, and that run is the
\* only one.
ClaimInv ==
    /\ \A d \in active : \E t \in Threads : HasClaim(t) /\ thread[t].id = d
    /\ \A t \in Threads : HasClaim(t) => thread[t].id \in active
    /\ OneRunPerDownload

\* Holding a claim, said by exclusion.
LEMMA HasClaimExcludes ==
    ASSUME TypeOK, NEW t \in Threads
    PROVE  HasClaim(t) <=> thread[t].pc \notin {"idle", "claim", "finish"}
  BY DEF TypeOK, Thread, HasClaim

\* A step that neither adds nor drops a claim keeps the invariant.
LEMMA SameClaims ==
    ASSUME ClaimInv, active' = active,
           \A t \in Threads : HasClaim(t)' <=> HasClaim(t),
           \A t \in Threads : HasClaim(t) => thread'[t].id = thread[t].id
    PROVE  ClaimInv'
  BY DEF ClaimInv, OneRunPerDownload

\* A thread that holds its claim before and after the step.
LEMMA StaysInRun ==
    ASSUME TypeOK, TypeOK', ClaimInv, active' = active, NEW t \in Threads,
           thread[t].pc \notin {"idle", "claim", "finish"},
           thread'[t].pc \notin {"idle", "claim", "finish"},
           thread'[t].id = thread[t].id,
           \A u \in Threads : u # t => thread'[u] = thread[u]
    PROVE  ClaimInv'
<1>1. \A u \in Threads : HasClaim(u)' <=> HasClaim(u)
  BY DEF HasClaim, TypeOK, Thread
<1>2. QED
  BY <1>1, SameClaims

\* A thread that holds no claim before and after the step.
LEMMA StaysOutOfRun ==
    ASSUME ClaimInv, active' = active, NEW t \in Threads,
           thread[t].pc \in {"idle", "claim", "finish"},
           thread'[t].pc \in {"idle", "claim", "finish"},
           \A u \in Threads : u # t => thread'[u] = thread[u]
    PROVE  ClaimInv'
<1>1. \A u \in Threads : HasClaim(u)' <=> HasClaim(u)
  BY DEF HasClaim
<1>2. ~HasClaim(t)
  BY DEF HasClaim
<1>3. QED
  BY <1>1, <1>2, SameClaims

\* Every step keeps the in-flight set equal to the ids that have a run.
LEMMA ClaimPreserved ==
    ASSUME TypeInv, TypeInv', ClaimInv, [Next]_vars
    PROVE  ClaimInv'
<1> USE Literals DEF TypeInv
<1>1. ASSUME NEW d \in Downloads, NEW t \in Threads, Trigger(d, t)
      PROVE  ClaimInv'
  BY <1>1, StaysOutOfRun DEF Trigger, At, TypeOK
<1>2. ASSUME NEW d \in Downloads, Cancel(d)
      PROVE  ClaimInv'
  BY <1>2 DEF Cancel, ClaimInv, OneRunPerDownload, HasClaim
<1>3. ASSUME NEW t \in Threads, Acts(t)
      PROVE  ClaimInv'
  <2>1. CASE ClaimRun(t)
    <3> DEFINE next == IF IsTorrent(t) THEN "fill" ELSE "stage"
    <3>1. next \in {"fill", "stage"} /\ next \in Pcs
      BY Literals
    <3>2. /\ thread'[t].pc = next
          /\ thread'[t].id = thread[t].id
          /\ \A u \in Threads : u # t => thread'[u] = thread[u]
      BY <2>1, <3>1, GoEffect DEF ClaimRun
    <3>3. HasClaim(t)' /\ ~HasClaim(t)
      BY <2>1, <3>1, <3>2 DEF ClaimRun, HasClaim, At
    <3>4. \A u \in Threads : u # t => (HasClaim(u)' <=> HasClaim(u))
      BY <3>2 DEF HasClaim
    <3>5. active' = active \cup {thread[t].id} /\ thread[t].id \notin active
      BY <2>1 DEF ClaimRun
    <3>6. QED
      BY <3>2, <3>3, <3>4, <3>5 DEF ClaimInv, OneRunPerDownload
  <2>2. CASE RefuseDuplicate(t)
    BY <2>2, GoEffect, StaysOutOfRun DEF RefuseDuplicate, At
  <2>3. CASE Stage(t)
    <3> DEFINE next == IF IsTorrent(t) THEN "transfer" ELSE "fill"
    <3>1. next \in {"transfer", "fill"} /\ next \in Pcs
      BY Literals
    <3>2. QED
      BY <2>3, <3>1, GoEffect, StaysInRun DEF Stage, At
  <2>4. CASE StageFailed(t)
    BY <2>4, GoEffect, StaysInRun DEF StageFailed, At
  <2>5. CASE FillSlot(t)
    <3> DEFINE next == IF IsTorrent(t) THEN "aria2" ELSE "fetch"
    <3>1. next \in Pcs
      BY Literals
    <3>2. QED
      BY <2>5, <3>1, ReportEffect, StaysInRun DEF FillSlot, At
  <2>6. CASE Aria2Found(t)
    BY <2>6, GoEffect, StaysInRun DEF Aria2Found, At
  <2>7. CASE Aria2Missing(t)
    BY <2>7, ReportEffect, StaysInRun DEF Aria2Missing, At
  <2>8. CASE Abandon(t)
    BY <2>8, GoEffect, StaysInRun DEF Abandon, At
  <2>9. CASE Fetch(t)
    BY <2>9, GoEffect, StaysInRun DEF Fetch, At
  <2>10. CASE Chunk(t)
    BY <2>10, SameClaims DEF Chunk, HasClaim
  <2>11. CASE NoticeCancel(t)
    BY <2>11, ReportEffect, StaysInRun DEF NoticeCancel, At
  <2>12. CASE TransferDone(t)
    BY <2>12, GoEffect, StaysInRun DEF TransferDone, At
  <2>13. CASE TransferError(t)
    BY <2>13, ReportEffect, StaysInRun DEF TransferError, At
  <2>14. CASE Publish(t)
    BY <2>14, ReportEffect, StaysInRun DEF Publish, At
  <2>15. CASE StartUpload(t)
    BY <2>15, ReportEffect, StaysInRun DEF StartUpload, At
  <2>16. CASE UploadChunk(t)
    BY <2>16, SameClaims DEF UploadChunk, HasClaim
  <2>17. CASE UploadDone(t)
    BY <2>17, ReportEffect, StaysInRun DEF UploadDone, At
  <2>18. CASE UploadFailed(t)
    BY <2>18, ReportEffect, StaysInRun DEF UploadFailed, At
  <2>19. CASE PostApplied(t)
    <3>1. /\ thread[t].then \in {"aria2", "fetch", "upload", "abandon", "cleanup"}
          /\ thread'[t].pc = thread[t].then
          /\ thread'[t].id = thread[t].id
          /\ \A u \in Threads : u # t => thread'[u] = thread[u]
      BY <2>19, PostGoesOn DEF PostApplied
    <3>2. QED
      BY <2>19, <3>1, StaysInRun DEF PostApplied, At
  <2>20. CASE PostTimesOut(t)
    BY <2>20, SameClaims DEF PostTimesOut, HasClaim
  <2>21. CASE PostLost(t)
    <3>1. /\ thread[t].then \in {"aria2", "fetch", "upload", "abandon", "cleanup"}
          /\ thread'[t].pc = thread[t].then
          /\ thread'[t].id = thread[t].id
          /\ \A u \in Threads : u # t => thread'[u] = thread[u]
      BY <2>21, PostGoesOn DEF PostLost
    <3>2. QED
      BY <2>21, <3>1, StaysInRun DEF PostLost, At
  <2>22. CASE PostRejected(t)
    <3> DEFINE next == IF thread[t].then \in Unguarded THEN "release" ELSE "cleanup"
    <3>1. next \in {"release", "cleanup"} /\ next \in Pcs
      BY Literals
    <3>2. QED
      BY <2>22, <3>1, GoEffect, StaysInRun DEF PostRejected, At
  <2>23. CASE Cleanup(t)
    BY <2>23, GoEffect, StaysInRun DEF Cleanup, At
  <2>24. CASE Release(t)
    <3>1. /\ thread'[t].pc = "finish"
          /\ \A u \in Threads : u # t => thread'[u] = thread[u]
      BY <2>24, GoEffect DEF Release
    <3>2. HasClaim(t) /\ ~HasClaim(t)'
      BY <2>24, <3>1, HasClaimExcludes DEF Release, HasClaim, At
    <3>3. \A u \in Threads : u # t => (HasClaim(u)' <=> HasClaim(u))
      BY <3>1 DEF HasClaim
    <3>4. active' = active \ {thread[t].id}
      BY <2>24 DEF Release
    <3>5. QED
      BY <3>1, <3>2, <3>3, <3>4 DEF ClaimInv, OneRunPerDownload
  <2>25. CASE Finish(t)
    BY <2>25, StaysOutOfRun DEF Finish, At, IdleThread, TypeOK
  <2>26. QED
    BY <1>3, <2>1, <2>2, <2>3, <2>4, <2>5, <2>6, <2>7, <2>8, <2>9, <2>10, 
       <2>11, <2>12, <2>13, <2>14, <2>15, <2>16, <2>17, <2>18, <2>19, 
       <2>20, <2>21, <2>22, <2>23, <2>24, <2>25 DEF Acts
<1>4. CASE Restart
  BY <1>4 DEF Restart, ClaimInv, OneRunPerDownload, HasClaim, IdleThread
<1>5. CASE UNCHANGED vars
  BY <1>5 DEF vars, ClaimInv, OneRunPerDownload, HasClaim
<1>6. CASE \/ \E d \in Downloads : BackendMarks(d)
           \/ \E w \in writes : WriteArrives(w)
  BY <1>6, BackendWrites DEF ClaimInv, OneRunPerDownload, HasClaim
<1>7. QED
  BY <1>1, <1>2, <1>3, <1>4, <1>5, <1>6, StepCases

-----------------------------------------------------------------------------
(* The phases of the two kinds of run *)

Exempt == IF Location = "mega" THEN Torrents ELSE {}

\* Which phases a run of either kind goes through, and what a report in
\* transit may say.
PhaseOk(t) ==
    /\ thread[t].pc \in {"aria2", "abandon"} => IsTorrent(t)
    /\ thread[t].pc = "fetch" => ~IsTorrent(t)
    /\ thread[t].pc = "upload" => Location = "mega"
    /\ thread[t].pc = "post" =>
          /\ thread[t].then \in {"aria2", "abandon"} => IsTorrent(t)
          /\ thread[t].then = "fetch" => ~IsTorrent(t)
          /\ thread[t].then = "upload" => Location = "mega"
          /\ thread[t].say = "completed" => thread[t].id \in delivered \cup Exempt

PhaseInv == \A t \in Threads : PhaseOk(t)

\* Only the thread that moves has to be looked at.
LEMMA PhaseOfMover ==
    ASSUME PhaseInv, NEW t \in Threads, delivered \subseteq delivered', PhaseOk(t)',
           \A u \in Threads : u # t => thread'[u] = thread[u]
    PROVE  PhaseInv'
<1> SUFFICES ASSUME NEW u \in Threads, u # t PROVE PhaseOk(u)'
  BY DEF PhaseInv
<1>1. thread'[u] = thread[u] /\ PhaseOk(u)
  BY DEF PhaseInv
<1>2. QED
  BY <1>1 DEF PhaseOk, IsTorrent

\* Most phases are open to both kinds.
LEMMA PlainPhase ==
    ASSUME NEW t \in Threads,
           thread'[t].pc \notin {"aria2", "abandon", "fetch", "upload", "post"}
    PROVE  PhaseOk(t)'
  BY DEF PhaseOk

\* A thread that goes on from a phase to a plain one.
LEMMA GoPlain ==
    ASSUME TypeOK, PhaseInv, NEW t \in Threads, delivered' = delivered,
           NEW pc \in Pcs \ {"aria2", "abandon", "fetch", "upload", "post"}, Go(t, pc)
    PROVE  PhaseInv'
<1>1. thread'[t].pc = pc /\ \A u \in Threads : u # t => thread'[u] = thread[u]
  BY GoEffect
<1>2. PhaseOk(t)'
  BY <1>1, PlainPhase
<1>3. QED
  BY <1>1, <1>2, PhaseOfMover

\* A report of a failure, after which the run is cleaned up.
LEMMA FailurePhase ==
    ASSUME NEW t \in Threads, thread'[t].pc = "post", thread'[t].say = "failed",
           thread'[t].then = "cleanup"
    PROVE  PhaseOk(t)'
  BY DEF PhaseOk

\* Every step keeps what a thread's phase says about the kind of its payload.
LEMMA PhasePreserved ==
    ASSUME TypeInv, TypeInv', PhaseInv, [Next]_vars
    PROVE  PhaseInv'
<1> USE Literals DEF TypeInv
<1>1. ASSUME NEW d \in Downloads, NEW t \in Threads, Trigger(d, t)
      PROVE  PhaseInv'
  BY <1>1, PhaseOfMover, PlainPhase DEF Trigger, TypeOK
<1>2. ASSUME NEW d \in Downloads, Cancel(d)
      PROVE  PhaseInv'
  BY <1>2 DEF Cancel, PhaseInv, PhaseOk, IsTorrent
<1>3. ASSUME NEW t \in Threads, Acts(t)
      PROVE  PhaseInv'
  <2>0. PhaseOk(t)
    BY DEF PhaseInv
  <2>1. CASE ClaimRun(t)
    <3> DEFINE next == IF IsTorrent(t) THEN "fill" ELSE "stage"
    <3>1. next \in {"fill", "stage"} /\ next \in Pcs
      BY Literals
    <3>2. PhaseOk(t)'
      BY <2>1, <3>1, GoEffect DEF ClaimRun, PhaseOk
    <3>3. QED
      BY <2>1, <3>1, <3>2, GoEffect, PhaseOfMover DEF ClaimRun
  <2>2. CASE RefuseDuplicate(t)
    BY <2>2, GoPlain DEF RefuseDuplicate
  <2>3. CASE Stage(t)
    <3> DEFINE next == IF IsTorrent(t) THEN "transfer" ELSE "fill"
    <3>1. next \in {"transfer", "fill"} /\ next \in Pcs
      BY Literals
    <3>2. PhaseOk(t)'
      BY <2>3, <3>1, GoEffect DEF Stage, PhaseOk
    <3>3. QED
      BY <2>3, <3>1, <3>2, GoEffect, PhaseOfMover DEF Stage
  <2>4. CASE StageFailed(t)
    BY <2>4, GoPlain DEF StageFailed
  <2>5. CASE FillSlot(t)
    <3> DEFINE next == IF IsTorrent(t) THEN "aria2" ELSE "fetch"
    <3>1. next \in {"aria2", "fetch"} /\ next \in Pcs
      BY Literals
    <3>2. PhaseOk(t)'
      BY <2>5, <3>1, ReportEffect DEF FillSlot, PhaseOk, IsTorrent
    <3>3. QED
      BY <2>5, <3>1, <3>2, ReportEffect, PhaseOfMover DEF FillSlot
  <2>6. CASE Aria2Found(t)
    BY <2>6, GoPlain DEF Aria2Found
  <2>7. CASE Aria2Missing(t)
    <3>1. PhaseOk(t)'
      BY <2>7, <2>0, ReportEffect DEF Aria2Missing, At, PhaseOk, IsTorrent
    <3>2. QED
      BY <2>7, <3>1, ReportEffect, PhaseOfMover DEF Aria2Missing
  <2>8. CASE Abandon(t)
    BY <2>8, GoPlain DEF Abandon
  <2>9. CASE Fetch(t)
    BY <2>9, GoPlain DEF Fetch
  <2>10. CASE Chunk(t)
    BY <2>10 DEF Chunk, PhaseInv, PhaseOk, IsTorrent
  <2>11. CASE NoticeCancel(t)
    BY <2>11, ReportEffect, FailurePhase, PhaseOfMover DEF NoticeCancel
  <2>12. CASE TransferDone(t)
    BY <2>12, GoPlain DEF TransferDone
  <2>13. CASE TransferError(t)
    BY <2>13, ReportEffect, FailurePhase, PhaseOfMover DEF TransferError
  <2>14. CASE Publish(t)
    <3>1. PhaseOk(t)'
      BY <2>14, ReportEffect DEF Publish, PhaseOk
    <3>2. QED
      BY <2>14, <3>1, ReportEffect, PhaseOfMover DEF Publish
  <2>15. CASE StartUpload(t)
    <3>1. PhaseOk(t)'
      BY <2>15, <2>0, ReportEffect DEF StartUpload, At, PhaseOk, IsTorrent
    <3>2. QED
      BY <2>15, <3>1, ReportEffect, PhaseOfMover DEF StartUpload
  <2>16. CASE UploadChunk(t)
    BY <2>16 DEF UploadChunk, PhaseInv, PhaseOk, IsTorrent
  <2>17. CASE UploadDone(t)
    <3>1. delivered \subseteq delivered' /\ thread[t].id \in delivered' \cup Exempt
      BY <2>17, <2>0 DEF UploadDone, PhaseOk, IsTorrent, At, Exempt
    <3>2. PhaseOk(t)'
      BY <2>17, <3>1, ReportEffect DEF UploadDone, PhaseOk
    <3>3. QED
      BY <2>17, <3>1, <3>2, ReportEffect, PhaseOfMover DEF UploadDone
  <2>18. CASE UploadFailed(t)
    BY <2>18, ReportEffect, FailurePhase, PhaseOfMover DEF UploadFailed
  <2>19. CASE PostApplied(t)
    <3>1. /\ thread[t].then \in {"aria2", "fetch", "upload", "abandon", "cleanup"}
          /\ thread'[t].pc = thread[t].then
          /\ thread'[t].id = thread[t].id
          /\ \A u \in Threads : u # t => thread'[u] = thread[u]
      BY <2>19, PostGoesOn DEF PostApplied
    <3>2. PhaseOk(t)'
      BY <2>19, <2>0, <3>1 DEF PostApplied, At, PhaseOk, IsTorrent
    <3>3. QED
      BY <2>19, <3>1, <3>2, PhaseOfMover DEF PostApplied
  <2>20. CASE PostTimesOut(t)
    BY <2>20 DEF PostTimesOut, PhaseInv, PhaseOk, IsTorrent
  <2>21. CASE PostLost(t)
    <3>1. /\ thread[t].then \in {"aria2", "fetch", "upload", "abandon", "cleanup"}
          /\ thread'[t].pc = thread[t].then
          /\ thread'[t].id = thread[t].id
          /\ \A u \in Threads : u # t => thread'[u] = thread[u]
      BY <2>21, PostGoesOn DEF PostLost
    <3>2. PhaseOk(t)'
      BY <2>21, <2>0, <3>1 DEF PostLost, At, PhaseOk, IsTorrent
    <3>3. QED
      BY <2>21, <3>1, <3>2, PhaseOfMover DEF PostLost
  <2>22. CASE PostRejected(t)
    <3> DEFINE next == IF thread[t].then \in Unguarded THEN "release" ELSE "cleanup"
    <3>1. next \in {"release", "cleanup"} /\ next \in Pcs
      BY Literals
    <3>2. PhaseOk(t)'
      BY <2>22, <3>1, GoEffect DEF PostRejected, PhaseOk
    <3>3. QED
      BY <2>22, <3>1, <3>2, GoEffect, PhaseOfMover DEF PostRejected
  <2>23. CASE Cleanup(t)
    BY <2>23, GoPlain DEF Cleanup
  <2>24. CASE Release(t)
    BY <2>24, GoPlain DEF Release
  <2>25. CASE Finish(t)
    BY <2>25, PlainPhase, PhaseOfMover DEF Finish, TypeOK, IdleThread
  <2>26. QED
    BY <1>3, <2>1, <2>2, <2>3, <2>4, <2>5, <2>6, <2>7, <2>8, <2>9, <2>10, 
       <2>11, <2>12, <2>13, <2>14, <2>15, <2>16, <2>17, <2>18, <2>19, 
       <2>20, <2>21, <2>22, <2>23, <2>24, <2>25 DEF Acts
<1>4. CASE Restart
  BY <1>4 DEF Restart, PhaseInv, PhaseOk, IdleThread
<1>5. CASE UNCHANGED vars
  BY <1>5 DEF vars, PhaseInv, PhaseOk, IsTorrent
<1>6. CASE \/ \E d \in Downloads : BackendMarks(d)
           \/ \E w \in writes : WriteArrives(w)
  BY <1>6, BackendWrites DEF PhaseInv, PhaseOk, IsTorrent
<1>7. QED
  BY <1>1, <1>2, <1>3, <1>4, <1>5, <1>6, StepCases

-----------------------------------------------------------------------------
(* The staging directory *)

OwnsStaging(t) == UsesStaging(t) => staged[thread[t].id] = t

\* A thread with a staging directory holds the claim of its id.
LEMMA StagingNeedsClaim ==
    ASSUME TypeInv, NEW t \in Threads, UsesStaging(t)
    PROVE  HasClaim(t) /\ thread[t].id \in Downloads
  BY DEF TypeInv, TypeOK, IdInv, UsesStaging, HasClaim, At, Pcs

\* The other threads keep their directories: their ids are different.
LEMMA OthersKeepStaging ==
    ASSUME TypeInv, ClaimInv, StagingIsOwn, NEW t \in Threads, HasClaim(t),
           NEW x \in Threads \cup {None}, thread[t].id \in Downloads,
           staged' = [staged EXCEPT ![thread[t].id] = x],
           \A u \in Threads : u # t => thread'[u] = thread[u],
           OwnsStaging(t)'
    PROVE  StagingIsOwn'
<1> SUFFICES ASSUME NEW u \in Threads, u # t, UsesStaging(u)'
             PROVE  staged'[thread'[u].id] = u
  BY DEF StagingIsOwn, OwnsStaging
<1>1. thread'[u] = thread[u]
  OBVIOUS
<1>2. UsesStaging(u)
  BY <1>1 DEF UsesStaging, At, IsTorrent
<1>3. HasClaim(u) /\ thread[u].id \in Downloads
  BY <1>2, StagingNeedsClaim
<1>4. thread[u].id # thread[t].id
  BY <1>3 DEF ClaimInv, OneRunPerDownload
<1>5. staged[thread[u].id] = u
  BY <1>2 DEF StagingIsOwn
<1>6. QED
  BY <1>1, <1>3, <1>4, <1>5 DEF TypeInv, TypeOK

\* A step that leaves the directories alone and takes up none.
LEMMA NoNewStaging ==
    ASSUME StagingIsOwn, staged' = staged, NEW t \in Threads,
           \A u \in Threads : u # t => thread'[u] = thread[u],
           UsesStaging(t)' => UsesStaging(t) /\ thread'[t].id = thread[t].id
    PROVE  StagingIsOwn'
<1>1. \A u \in Threads : u # t => (UsesStaging(u)' <=> UsesStaging(u))
  BY DEF UsesStaging, At, IsTorrent
<1>2. QED
  BY <1>1 DEF StagingIsOwn

\* Every step leaves each run in the directory it made itself.
LEMMA StagingPreserved ==
    ASSUME TypeInv, ClaimInv, PhaseInv, StagingIsOwn, [Next]_vars
    PROVE  StagingIsOwn'
<1> USE Literals DEF TypeInv
<1>1. ASSUME NEW d \in Downloads, NEW t \in Threads, Trigger(d, t)
      PROVE  StagingIsOwn'
  <2>1. ~UsesStaging(t)'
    BY <1>1 DEF Trigger, UsesStaging, At, TypeOK
  <2>2. QED
    BY <1>1, <2>1, NoNewStaging DEF Trigger, TypeOK
<1>2. ASSUME NEW d \in Downloads, Cancel(d)
      PROVE  StagingIsOwn'
  BY <1>2 DEF Cancel, StagingIsOwn, UsesStaging, At, IsTorrent
<1>3. ASSUME NEW t \in Threads, Acts(t)
      PROVE  StagingIsOwn'
  <2>0. PhaseOk(t)
    BY DEF PhaseInv
  <2>1. CASE ClaimRun(t)
    <3> DEFINE next == IF IsTorrent(t) THEN "fill" ELSE "stage"
    <3>1. next \in {"fill", "stage"} /\ next \in Pcs
      BY Literals
    <3>2. /\ thread'[t].pc = next
          /\ thread'[t].id = thread[t].id
          /\ \A u \in Threads : u # t => thread'[u] = thread[u]
      BY <2>1, <3>1, GoEffect DEF ClaimRun
    <3>3. UsesStaging(t)' => UsesStaging(t)
      BY <3>1, <3>2 DEF UsesStaging, At, IsTorrent
    <3>4. QED
      BY <2>1, <3>2, <3>3, NoNewStaging DEF ClaimRun
  <2>2. CASE RefuseDuplicate(t)
    <3>1. UsesStaging(t)' => UsesStaging(t)
      BY <2>2, <2>0, GoEffect DEF RefuseDuplicate, UsesStaging, At, IsTorrent, PhaseOk
    <3>2. QED
      BY <2>2, <3>1, GoEffect, NoNewStaging DEF RefuseDuplicate
  <2>3. CASE Stage(t)
    <3> DEFINE next == IF IsTorrent(t) THEN "transfer" ELSE "fill"
    <3>1. next \in Pcs
      BY Literals
    <3>2. /\ thread[t].pc = "stage"
          /\ thread'[t].id = thread[t].id
          /\ \A u \in Threads : u # t => thread'[u] = thread[u]
      BY <2>3, <3>1, GoEffect DEF Stage, At
    <3>3. HasClaim(t) /\ thread[t].id \in Downloads
      BY <3>2 DEF HasClaim, IdInv, Pcs
    <3>4. staged' = [staged EXCEPT ![thread[t].id] = t]
      BY <2>3 DEF Stage
    <3>5. OwnsStaging(t)'
      BY <3>2, <3>3, <3>4 DEF OwnsStaging, TypeOK
    <3>6. QED
      BY <3>2, <3>3, <3>4, <3>5, OthersKeepStaging
  <2>4. CASE StageFailed(t)
    <3>1. /\ thread[t].pc = "stage"
          /\ thread'[t].pc = "release"
          /\ \A u \in Threads : u # t => thread'[u] = thread[u]
      BY <2>4, GoEffect DEF StageFailed, At
    <3>2. HasClaim(t) /\ thread[t].id \in Downloads
      BY <3>1 DEF HasClaim, IdInv, Pcs
    <3>3. OwnsStaging(t)'
      BY <3>1 DEF OwnsStaging, UsesStaging, At
    <3>4. staged' = [staged EXCEPT ![thread[t].id] = None]
      BY <2>4 DEF StageFailed
    <3>5. QED
      BY <3>1, <3>2, <3>3, <3>4, OthersKeepStaging
  <2>5. CASE FillSlot(t)
    <3> DEFINE next == IF IsTorrent(t) THEN "aria2" ELSE "fetch"
    <3>1. next \in {"aria2", "fetch"} /\ next \in Pcs
      BY Literals
    <3>2. UsesStaging(t)' => UsesStaging(t)
      BY <2>5, <2>0, <3>1, ReportEffect DEF FillSlot, UsesStaging, At, IsTorrent, PhaseOk
    <3>3. QED
      BY <2>5, <3>1, <3>2, ReportEffect, NoNewStaging DEF FillSlot
  <2>6. CASE Aria2Found(t)
    <3>1. UsesStaging(t)' => UsesStaging(t)
      BY <2>6, <2>0, GoEffect DEF Aria2Found, UsesStaging, At, IsTorrent, PhaseOk
    <3>2. QED
      BY <2>6, <3>1, GoEffect, NoNewStaging DEF Aria2Found
  <2>7. CASE Aria2Missing(t)
    <3>1. UsesStaging(t)' => UsesStaging(t)
      BY <2>7, <2>0, ReportEffect DEF Aria2Missing, UsesStaging, At, IsTorrent, PhaseOk
    <3>2. QED
      BY <2>7, <3>1, ReportEffect, NoNewStaging DEF Aria2Missing
  <2>8. CASE Abandon(t)
    <3>1. UsesStaging(t)' => UsesStaging(t)
      BY <2>8, <2>0, GoEffect DEF Abandon, UsesStaging, At, IsTorrent, PhaseOk
    <3>2. QED
      BY <2>8, <3>1, GoEffect, NoNewStaging DEF Abandon
  <2>9. CASE Fetch(t)
    <3>1. UsesStaging(t)' => UsesStaging(t)
      BY <2>9, <2>0, GoEffect DEF Fetch, UsesStaging, At, IsTorrent, PhaseOk
    <3>2. QED
      BY <2>9, <3>1, GoEffect, NoNewStaging DEF Fetch
  <2>10. CASE Chunk(t)
    BY <2>10 DEF Chunk, StagingIsOwn, UsesStaging, At, IsTorrent
  <2>11. CASE NoticeCancel(t)
    <3>1. UsesStaging(t)' => UsesStaging(t)
      BY <2>11, <2>0, ReportEffect DEF NoticeCancel, UsesStaging, At, IsTorrent, PhaseOk
    <3>2. QED
      BY <2>11, <3>1, ReportEffect, NoNewStaging DEF NoticeCancel
  <2>12. CASE TransferDone(t)
    <3>1. UsesStaging(t)' => UsesStaging(t)
      BY <2>12, <2>0, GoEffect DEF TransferDone, UsesStaging, At, IsTorrent, PhaseOk
    <3>2. QED
      BY <2>12, <3>1, GoEffect, NoNewStaging DEF TransferDone
  <2>13. CASE TransferError(t)
    <3>1. UsesStaging(t)' => UsesStaging(t)
      BY <2>13, <2>0, ReportEffect DEF TransferError, UsesStaging, At, IsTorrent, PhaseOk
    <3>2. QED
      BY <2>13, <3>1, ReportEffect, NoNewStaging DEF TransferError
  <2>14. CASE Publish(t)
    <3>1. UsesStaging(t)' => UsesStaging(t)
      BY <2>14, <2>0, ReportEffect DEF Publish, UsesStaging, At, IsTorrent, PhaseOk
    <3>2. QED
      BY <2>14, <3>1, ReportEffect, NoNewStaging DEF Publish
  <2>15. CASE StartUpload(t)
    <3>1. UsesStaging(t)' => UsesStaging(t)
      BY <2>15, <2>0, ReportEffect DEF StartUpload, UsesStaging, At, IsTorrent, PhaseOk
    <3>2. QED
      BY <2>15, <3>1, ReportEffect, NoNewStaging DEF StartUpload
  <2>16. CASE UploadChunk(t)
    BY <2>16 DEF UploadChunk, StagingIsOwn, UsesStaging, At, IsTorrent
  <2>17. CASE UploadDone(t)
    <3>1. UsesStaging(t)' => UsesStaging(t)
      BY <2>17, <2>0, ReportEffect DEF UploadDone, UsesStaging, At, IsTorrent, PhaseOk
    <3>2. QED
      BY <2>17, <3>1, ReportEffect, NoNewStaging DEF UploadDone
  <2>18. CASE UploadFailed(t)
    <3>1. UsesStaging(t)' => UsesStaging(t)
      BY <2>18, <2>0, ReportEffect DEF UploadFailed, UsesStaging, At, IsTorrent, PhaseOk
    <3>2. QED
      BY <2>18, <3>1, ReportEffect, NoNewStaging DEF UploadFailed
  <2>19. CASE PostApplied(t)
    <3>1. /\ thread[t].then \in {"aria2", "fetch", "upload", "abandon", "cleanup"}
          /\ thread'[t].pc = thread[t].then
          /\ thread'[t].id = thread[t].id
          /\ \A u \in Threads : u # t => thread'[u] = thread[u]
      BY <2>19, PostGoesOn DEF PostApplied
    <3>2. UsesStaging(t)' => UsesStaging(t)
      BY <2>19, <2>0, <3>1 DEF PostApplied, UsesStaging, At, IsTorrent, PhaseOk
    <3>3. QED
      BY <2>19, <3>1, <3>2, NoNewStaging DEF PostApplied
  <2>20. CASE PostTimesOut(t)
    BY <2>20 DEF PostTimesOut, StagingIsOwn, UsesStaging, At, IsTorrent
  <2>21. CASE PostLost(t)
    <3>1. /\ thread[t].then \in {"aria2", "fetch", "upload", "abandon", "cleanup"}
          /\ thread'[t].pc = thread[t].then
          /\ thread'[t].id = thread[t].id
          /\ \A u \in Threads : u # t => thread'[u] = thread[u]
      BY <2>21, PostGoesOn DEF PostLost
    <3>2. UsesStaging(t)' => UsesStaging(t)
      BY <2>21, <2>0, <3>1 DEF PostLost, UsesStaging, At, IsTorrent, PhaseOk
    <3>3. QED
      BY <2>21, <3>1, <3>2, NoNewStaging DEF PostLost
  <2>22. CASE PostRejected(t)
    <3> DEFINE next == IF thread[t].then \in Unguarded THEN "release" ELSE "cleanup"
    <3>1. next \in {"release", "cleanup"} /\ next \in Pcs
      BY Literals
    <3>2. UsesStaging(t)' => UsesStaging(t)
      BY <2>22, <2>0, <3>1, GoEffect DEF PostRejected, UsesStaging, At, Unguarded, IsTorrent, PhaseOk
    <3>3. QED
      BY <2>22, <3>1, <3>2, GoEffect, NoNewStaging DEF PostRejected
  <2>23. CASE Cleanup(t)
    <3>1. /\ thread[t].pc = "cleanup"
          /\ thread'[t].pc = "release"
          /\ \A u \in Threads : u # t => thread'[u] = thread[u]
      BY <2>23, GoEffect DEF Cleanup, At
    <3>2. HasClaim(t) /\ thread[t].id \in Downloads
      BY <3>1 DEF HasClaim, IdInv, Pcs
    <3>3. OwnsStaging(t)'
      BY <3>1 DEF OwnsStaging, UsesStaging, At
    <3>4. staged' = [staged EXCEPT ![thread[t].id] = None]
      BY <2>23 DEF Cleanup
    <3>5. QED
      BY <3>1, <3>2, <3>3, <3>4, OthersKeepStaging
  <2>24. CASE Release(t)
    <3>1. UsesStaging(t)' => UsesStaging(t)
      BY <2>24, <2>0, GoEffect DEF Release, UsesStaging, At, IsTorrent, PhaseOk
    <3>2. QED
      BY <2>24, <3>1, GoEffect, NoNewStaging DEF Release
  <2>25. CASE Finish(t)
    <3>1. ~UsesStaging(t)'
      BY <2>25 DEF Finish, TypeOK, UsesStaging, At, IdleThread
    <3>2. QED
      BY <2>25, <3>1, NoNewStaging DEF Finish, TypeOK
  <2>26. QED
    BY <1>3, <2>1, <2>2, <2>3, <2>4, <2>5, <2>6, <2>7, <2>8, <2>9, <2>10, 
       <2>11, <2>12, <2>13, <2>14, <2>15, <2>16, <2>17, <2>18, <2>19, 
       <2>20, <2>21, <2>22, <2>23, <2>24, <2>25 DEF Acts
<1>4. CASE Restart
  BY <1>4 DEF Restart, StagingIsOwn, UsesStaging, At, IdleThread
<1>5. CASE UNCHANGED vars
  BY <1>5 DEF vars, StagingIsOwn, UsesStaging, At, IsTorrent
<1>6. CASE \/ \E d \in Downloads : BackendMarks(d)
           \/ \E w \in writes : WriteArrives(w)
  BY <1>6, BackendWrites DEF StagingIsOwn, UsesStaging, At, IsTorrent
<1>7. QED
  BY <1>1, <1>2, <1>3, <1>4, <1>5, <1>6, StepCases

-----------------------------------------------------------------------------
(* The slot *)

\* A thread that still has to leave its finally blocks.
OwesSlot(t) == WillClear(t) \/ thread[t].pc \in {"release", "finish"}

\* A thread that may have written a status key after its slot was emptied.
WroteStatus(t) ==
    \/ thread[t].pc \in {"transfer", "deliver", "upload", "abandon", "cleanup"}
    \/ At(t, "post") /\ thread[t].then \in {"upload", "abandon", "cleanup"}

\* The strengthening of SlotHasOwner: a slot with an id belongs to a thread of
\* that id, a slot without one to a thread that wrote into the empty dict.
SlotInv ==
    Busy /\ ~stopping =>
        IF task.id = None
        THEN \E t \in Threads : WroteStatus(t)
        ELSE \E t \in Threads : OwesSlot(t) /\ thread[t].id = task.id

\* A step that keeps the id of the slot and the debts of the mover.
LEMMA SlotOfMover ==
    ASSUME SlotInv, NEW t \in Threads, stopping' = stopping,
           \A u \in Threads : u # t => thread'[u] = thread[u],
           thread'[t].id = thread[t].id, task'.id = task.id,
           task' = task \/ WroteStatus(t)',
           OwesSlot(t) => OwesSlot(t)', WroteStatus(t) => WroteStatus(t)'
    PROVE  SlotInv'
<1>1. \A u \in Threads : OwesSlot(u) => OwesSlot(u)'
  BY DEF OwesSlot, WillClear, At, IsTorrent
<1>2. \A u \in Threads : WroteStatus(u) => WroteStatus(u)'
  BY DEF WroteStatus, At
<1>3. \A u \in Threads : thread'[u].id = thread[u].id
  OBVIOUS
<1>4. CASE task' = task
  BY <1>1, <1>2, <1>3, <1>4 DEF SlotInv, Busy
<1>5. CASE WroteStatus(t)' /\ task.id = None
  BY <1>5 DEF SlotInv
<1>6. CASE WroteStatus(t)' /\ task.id # None
  BY <1>1, <1>3, <1>6 DEF SlotInv, Busy, EmptyTask
<1>7. QED
  BY <1>4, <1>5, <1>6

\* Writing the status key keeps the id.
LEMMA SetStatusKeepsId ==
    ASSUME TypeOK, NEW s \in TaskStatus, SetStatus(s)
    PROVE  task'.id = task.id
  BY DEF TypeOK, SetStatus

\* An empty slot needs no owner.
LEMMA EmptySlot ==
    ASSUME task' = EmptyTask
    PROVE  SlotInv'
  BY DEF SlotInv, Busy

\* Every step leaves a taken slot with a thread that will empty it.
LEMMA SlotPreserved ==
    ASSUME TypeInv, PhaseInv, SlotInv, [Next]_vars
    PROVE  SlotInv'
<1> USE Literals DEF TypeInv
<1>1. ASSUME NEW d \in Downloads, NEW t \in Threads, Trigger(d, t)
      PROVE  SlotInv'
  <2>1. task' = EmptyTask
    BY <1>1 DEF Trigger, Busy
  <2>2. QED
    BY <2>1, EmptySlot
<1>2. ASSUME NEW d \in Downloads, Cancel(d)
      PROVE  SlotInv'
  BY <1>2 DEF Cancel, SlotInv, Busy, WroteStatus, OwesSlot, WillClear, At, IsTorrent
<1>3. ASSUME NEW t \in Threads, Acts(t)
      PROVE  SlotInv'
  <2>0. PhaseOk(t)
    BY DEF PhaseInv
  <2>1. CASE ClaimRun(t)
    <3> DEFINE next == IF IsTorrent(t) THEN "fill" ELSE "stage"
    <3>1. next \in {"fill", "stage"} /\ next \in Pcs
      BY Literals
    <3>2. /\ OwesSlot(t) => OwesSlot(t)'
          /\ WroteStatus(t) => WroteStatus(t)'
      BY <2>1, <3>1, GoEffect DEF ClaimRun, OwesSlot, WroteStatus, WillClear, At, IsTorrent, PhaseOk
    <3>3. QED
      BY <2>1, <3>1, <3>2, GoEffect, SlotOfMover DEF ClaimRun
  <2>2. CASE RefuseDuplicate(t)
    <3>1. /\ OwesSlot(t) => OwesSlot(t)'
          /\ WroteStatus(t) => WroteStatus(t)'
      BY <2>2, <2>0, GoEffect DEF RefuseDuplicate, OwesSlot, WroteStatus, WillClear, At, IsTorrent, PhaseOk
    <3>2. QED
      BY <2>2, <3>1, GoEffect, SlotOfMover DEF RefuseDuplicate
  <2>3. CASE Stage(t)
    <3> DEFINE next == IF IsTorrent(t) THEN "transfer" ELSE "fill"
    <3>1. next \in {"transfer", "fill"} /\ next \in Pcs
      BY Literals
    <3>2. /\ OwesSlot(t) => OwesSlot(t)'
          /\ WroteStatus(t) => WroteStatus(t)'
      BY <2>3, <3>1, GoEffect DEF Stage, OwesSlot, WroteStatus, WillClear, At, IsTorrent, PhaseOk
    <3>3. QED
      BY <2>3, <3>1, <3>2, GoEffect, SlotOfMover DEF Stage
  <2>4. CASE StageFailed(t)
    <3>1. /\ OwesSlot(t) => OwesSlot(t)'
          /\ WroteStatus(t) => WroteStatus(t)'
      BY <2>4, <2>0, GoEffect DEF StageFailed, OwesSlot, WroteStatus, WillClear, At, IsTorrent, PhaseOk
    <3>2. QED
      BY <2>4, <3>1, GoEffect, SlotOfMover DEF StageFailed
  <2>5. CASE FillSlot(t)
    <3>1. thread'[t].pc = "post" /\ thread'[t].id = thread[t].id
      <4> DEFINE next == IF IsTorrent(t) THEN "aria2" ELSE "fetch"
      <4>1. next \in Pcs
        BY Literals
      <4>2. QED
        BY <2>5, <4>1, ReportEffect DEF FillSlot
    <3>2. OwesSlot(t)'
      BY <3>1 DEF OwesSlot, WillClear
    <3>3. thread[t].id \in Downloads
      BY <2>5 DEF FillSlot, At, IdInv
    <3>4. task'.id = thread'[t].id /\ task'.id # None
      BY <2>5, <3>1, <3>3, WorkerSlotAssumption DEF FillSlot
    <3>5. QED
      BY <3>2, <3>4 DEF SlotInv
  <2>6. CASE Aria2Found(t)
    <3>1. /\ OwesSlot(t) => OwesSlot(t)'
          /\ WroteStatus(t) => WroteStatus(t)'
      BY <2>6, <2>0, GoEffect DEF Aria2Found, OwesSlot, WroteStatus, WillClear, At, IsTorrent, PhaseOk
    <3>2. QED
      BY <2>6, <3>1, GoEffect, SlotOfMover DEF Aria2Found
  <2>7. CASE Aria2Missing(t)
    <3>1. WroteStatus(t)' /\ OwesSlot(t)'
      BY <2>7, ReportEffect DEF Aria2Missing, OwesSlot, WroteStatus, WillClear, At
    <3>2. task'.id = task.id
      BY <2>7, SetStatusKeepsId DEF Aria2Missing
    <3>3. QED
      BY <2>7, <3>1, <3>2, ReportEffect, SlotOfMover DEF Aria2Missing
  <2>8. CASE Abandon(t)
    BY <2>8, EmptySlot DEF Abandon
  <2>9. CASE Fetch(t)
    <3>1. /\ OwesSlot(t) => OwesSlot(t)'
          /\ WroteStatus(t) => WroteStatus(t)'
      BY <2>9, <2>0, GoEffect DEF Fetch, OwesSlot, WroteStatus, WillClear, At, IsTorrent, PhaseOk
    <3>2. QED
      BY <2>9, <3>1, GoEffect, SlotOfMover DEF Fetch
  <2>10. CASE Chunk(t)
    <3>1. WroteStatus(t)' /\ thread' = thread
      BY <2>10 DEF Chunk, WroteStatus, At
    <3>2. task'.id = task.id
      BY <2>10 DEF Chunk, TypeOK
    <3>3. QED
      BY <2>10, <3>1, <3>2, SlotOfMover DEF Chunk, OwesSlot, WillClear, At, IsTorrent
  <2>11. CASE NoticeCancel(t)
    <3>1. WroteStatus(t)' /\ OwesSlot(t)'
      BY <2>11, ReportEffect DEF NoticeCancel, OwesSlot, WroteStatus, WillClear, At
    <3>2. task'.id = task.id
      BY <2>11, SetStatusKeepsId DEF NoticeCancel
    <3>3. QED
      BY <2>11, <3>1, <3>2, ReportEffect, SlotOfMover DEF NoticeCancel
  <2>12. CASE TransferDone(t)
    <3>1. /\ OwesSlot(t) => OwesSlot(t)'
          /\ WroteStatus(t) => WroteStatus(t)'
      BY <2>12, <2>0, GoEffect DEF TransferDone, OwesSlot, WroteStatus, WillClear, At, IsTorrent, PhaseOk
    <3>2. QED
      BY <2>12, <3>1, GoEffect, SlotOfMover DEF TransferDone
  <2>13. CASE TransferError(t)
    <3>1. WroteStatus(t)' /\ OwesSlot(t)'
      BY <2>13, ReportEffect DEF TransferError, OwesSlot, WroteStatus, WillClear, At
    <3>2. task'.id = task.id
      BY <2>13, SetStatusKeepsId DEF TransferError
    <3>3. QED
      BY <2>13, <3>1, <3>2, ReportEffect, SlotOfMover DEF TransferError
  <2>14. CASE Publish(t)
    <3>1. WroteStatus(t)' /\ OwesSlot(t)'
      BY <2>14, ReportEffect DEF Publish, OwesSlot, WroteStatus, WillClear, At
    <3>2. task'.id = task.id
      BY <2>14, SetStatusKeepsId DEF Publish
    <3>3. QED
      BY <2>14, <3>1, <3>2, ReportEffect, SlotOfMover DEF Publish
  <2>15. CASE StartUpload(t)
    <3>1. WroteStatus(t)' /\ OwesSlot(t)'
      BY <2>15, ReportEffect DEF StartUpload, OwesSlot, WroteStatus, WillClear, At
    <3>2. task'.id = task.id
      BY <2>15, SetStatusKeepsId DEF StartUpload
    <3>3. QED
      BY <2>15, <3>1, <3>2, ReportEffect, SlotOfMover DEF StartUpload
  <2>16. CASE UploadChunk(t)
    <3>1. WroteStatus(t)' /\ thread' = thread
      BY <2>16 DEF UploadChunk, WroteStatus, At
    <3>2. task'.id = task.id
      BY <2>16, SetStatusKeepsId DEF UploadChunk
    <3>3. QED
      BY <2>16, <3>1, <3>2, SlotOfMover DEF UploadChunk, OwesSlot, WillClear, At, IsTorrent
  <2>17. CASE UploadDone(t)
    <3>1. WroteStatus(t)' /\ OwesSlot(t)'
      BY <2>17, ReportEffect DEF UploadDone, OwesSlot, WroteStatus, WillClear, At
    <3>2. task'.id = task.id
      BY <2>17, SetStatusKeepsId DEF UploadDone
    <3>3. QED
      BY <2>17, <3>1, <3>2, ReportEffect, SlotOfMover DEF UploadDone
  <2>18. CASE UploadFailed(t)
    <3>1. WroteStatus(t)' /\ OwesSlot(t)'
      BY <2>18, ReportEffect DEF UploadFailed, OwesSlot, WroteStatus, WillClear, At
    <3>2. task'.id = task.id
      BY <2>18, SetStatusKeepsId DEF UploadFailed
    <3>3. QED
      BY <2>18, <3>1, <3>2, ReportEffect, SlotOfMover DEF UploadFailed
  <2>19. CASE PostApplied(t)
    <3>1. /\ thread[t].then \in {"aria2", "fetch", "upload", "abandon", "cleanup"}
          /\ thread'[t].pc = thread[t].then
          /\ thread'[t].id = thread[t].id
          /\ \A u \in Threads : u # t => thread'[u] = thread[u]
      BY <2>19, PostGoesOn DEF PostApplied
    <3>2. /\ OwesSlot(t)'
          /\ WroteStatus(t) => WroteStatus(t)'
      BY <2>19, <3>1 DEF PostApplied, OwesSlot, WroteStatus, WillClear, At, IsTorrent, PhaseOk
    <3>3. QED
      BY <2>19, <3>1, <3>2, SlotOfMover DEF PostApplied
  <2>20. CASE PostTimesOut(t)
    BY <2>20 DEF PostTimesOut, SlotInv, Busy, OwesSlot, WroteStatus, WillClear, At, IsTorrent
  <2>21. CASE PostLost(t)
    <3>1. /\ thread[t].then \in {"aria2", "fetch", "upload", "abandon", "cleanup"}
          /\ thread'[t].pc = thread[t].then
          /\ thread'[t].id = thread[t].id
          /\ \A u \in Threads : u # t => thread'[u] = thread[u]
      BY <2>21, PostGoesOn DEF PostLost
    <3>2. /\ OwesSlot(t)'
          /\ WroteStatus(t) => WroteStatus(t)'
      BY <2>21, <3>1 DEF PostLost, OwesSlot, WroteStatus, WillClear, At, IsTorrent, PhaseOk
    <3>3. QED
      BY <2>21, <3>1, <3>2, SlotOfMover DEF PostLost
  <2>22. CASE PostRejected(t)
    BY <2>22 DEF PostRejected, SlotInv
  <2>23. CASE Cleanup(t)
    BY <2>23, EmptySlot DEF Cleanup
  <2>24. CASE Release(t)
    <3>1. /\ OwesSlot(t) => OwesSlot(t)'
          /\ WroteStatus(t) => WroteStatus(t)'
      BY <2>24, <2>0, GoEffect DEF Release, OwesSlot, WroteStatus, WillClear, At, IsTorrent, PhaseOk
    <3>2. QED
      BY <2>24, <3>1, GoEffect, SlotOfMover DEF Release
  <2>25. CASE Finish(t)
    <3>1. CASE task.id = thread[t].id
      BY <2>25, <3>1, EmptySlot DEF Finish
    <3>2. CASE task.id # thread[t].id
      <4>1. task' = task /\ stopping' = stopping
        BY <2>25, <3>2 DEF Finish
      <4>2. \A u \in Threads : u # t => thread'[u] = thread[u]
        BY <2>25 DEF Finish, TypeOK
      <4>3. ~WroteStatus(t)
        BY <2>25 DEF Finish, WroteStatus, At
      <4>4. \A u \in Threads : WroteStatus(u) => WroteStatus(u)'
        BY <4>2, <4>3 DEF WroteStatus, At
      <4>5. \A u \in Threads : u # t /\ OwesSlot(u) => OwesSlot(u)'
        BY <4>2 DEF OwesSlot, WillClear, At, IsTorrent
      <4>6. QED
        BY <3>2, <4>1, <4>2, <4>4, <4>5 DEF SlotInv, Busy
    <3>3. QED
      BY <3>1, <3>2
  <2>26. QED
    BY <1>3, <2>1, <2>2, <2>3, <2>4, <2>5, <2>6, <2>7, <2>8, <2>9, <2>10, 
       <2>11, <2>12, <2>13, <2>14, <2>15, <2>16, <2>17, <2>18, <2>19, 
       <2>20, <2>21, <2>22, <2>23, <2>24, <2>25 DEF Acts
<1>4. CASE Restart
  BY <1>4, EmptySlot DEF Restart
<1>5. CASE UNCHANGED vars
  BY <1>5 DEF vars, SlotInv, Busy, OwesSlot, WroteStatus, WillClear, At, IsTorrent
<1>6. CASE \/ \E d \in Downloads : BackendMarks(d)
           \/ \E w \in writes : WriteArrives(w)
  BY <1>6, BackendWrites DEF SlotInv, Busy, OwesSlot, WroteStatus, WillClear, At, IsTorrent
<1>7. QED
  BY <1>1, <1>2, <1>3, <1>4, <1>5, <1>6, StepCases

-----------------------------------------------------------------------------
(* The reports *)

\* What may be written to a row: a status other than pending, and completed
\* only of what is delivered.
MayWrite(d, status) ==
    /\ status # "pending"
    /\ status = "completed" => d \in delivered \cup Exempt

\* A write under way was true when it was made and stays true.
WritesOk == \A w \in writes : MayWrite(w.id, w.status)

\* The report of a thread may be written.
LEMMA ReportMayBeWritten ==
    ASSUME TypeInv, PhaseInv, NEW t \in Threads, At(t, "post")
    PROVE  MayWrite(thread[t].id, thread[t].say)
  BY DEF TypeInv, IdInv, PhaseInv, PhaseOk, MayWrite, At

\* What may be written keeps the rows right.
LEMMA WriteKeeps ==
    ASSUME TypeInv, CompletedIsDelivered, delivered' = delivered,
           NEW d \in Downloads, NEW status \in Status, MayWrite(d, status),
           row' = [row EXCEPT ![d] = status]
    PROVE  CompletedIsDelivered'
  BY DEF CompletedIsDelivered, MayWrite, Exempt, TypeInv, TypeOK

\* A row changes only by a report of a thread or a write under way.
LEMMA CompletedPreserved ==
    ASSUME TypeInv, PhaseInv, CompletedIsDelivered, WritesOk, [Next]_vars
    PROVE  (CompletedIsDelivered /\ WritesOk)'
<1>1. ASSUME NEW t \in Threads, PostApplied(t)
      PROVE  (CompletedIsDelivered /\ WritesOk)'
  <2>1. /\ row' = [row EXCEPT ![thread[t].id] = thread[t].say]
        /\ delivered' = delivered /\ writes' = writes
        /\ At(t, "post")
    BY <1>1 DEF PostApplied
  <2>2. thread[t].id \in Downloads /\ thread[t].say \in Status
    BY <2>1 DEF TypeInv, IdInv, At
  <2>3. QED
    BY <2>1, <2>2, ReportMayBeWritten, WriteKeeps DEF WritesOk, MayWrite
<1>2. ASSUME NEW t \in Threads, PostTimesOut(t)
      PROVE  (CompletedIsDelivered /\ WritesOk)'
  <2>1. MayWrite(thread[t].id, thread[t].say)
    BY <1>2, ReportMayBeWritten DEF PostTimesOut
  <2>2. QED
    BY <1>2, <2>1 DEF PostTimesOut, CompletedIsDelivered, WritesOk, MayWrite
<1>3. ASSUME NEW d \in Downloads, BackendMarks(d)
      PROVE  (CompletedIsDelivered /\ WritesOk)'
  BY <1>3 DEF BackendMarks, CompletedIsDelivered, WritesOk, MayWrite
<1>4. ASSUME NEW w \in writes, WriteArrives(w)
      PROVE  (CompletedIsDelivered /\ WritesOk)'
  <2>1. w.id \in Downloads /\ w.status \in Status /\ MayWrite(w.id, w.status)
    BY DEF TypeInv, TypeOK, Write, WritesOk
  <2>2. CompletedIsDelivered'
    BY <1>4, <2>1, WriteKeeps DEF WriteArrives, CompletedIsDelivered
  <2>3. QED
    BY <1>4, <2>2 DEF WriteArrives, WritesOk, MayWrite
<1>5. ASSUME UNCHANGED <<row, writes>>, delivered \subseteq delivered'
      PROVE  (CompletedIsDelivered /\ WritesOk)'
  BY <1>5 DEF CompletedIsDelivered, WritesOk, MayWrite
<1>6. ASSUME NEW t \in Threads, Acts(t), ~PostApplied(t), ~PostTimesOut(t)
      PROVE  UNCHANGED <<row, writes>> /\ delivered \subseteq delivered'
  BY <1>6 DEF Acts, ClaimRun, RefuseDuplicate, Stage, StageFailed, FillSlot,
      Aria2Found, Aria2Missing, Abandon, Fetch, Chunk, NoticeCancel,
      TransferDone, TransferError, Publish, StartUpload, UploadChunk,
      UploadDone, UploadFailed, PostLost, PostRejected, Cleanup, Release, Finish
<1>7. ASSUME \/ \E d \in Downloads, t \in Threads : Trigger(d, t)
             \/ \E d \in Downloads : Cancel(d)
             \/ Restart
             \/ UNCHANGED vars
      PROVE  UNCHANGED <<row, writes>> /\ delivered' = delivered
  BY <1>7 DEF Trigger, Cancel, Restart, vars
<1>8. QED
  BY <1>1, <1>2, <1>3, <1>4, <1>5, <1>6, <1>7, StepCases

-----------------------------------------------------------------------------
(* The inductive invariant *)

Inv == TypeInv /\ ClaimInv /\ PhaseInv /\ StagingIsOwn /\ SlotInv
           /\ CompletedIsDelivered /\ WritesOk

\* The first state satisfies the invariant.
LEMMA InitInv ==
    ASSUME Init
    PROVE  Inv
<1> USE Literals
<1>1. TypeInv
  BY DEF Init, TypeInv, TypeOK, IdInv, IdleThread, Status
<1>2. ClaimInv
  BY DEF Init, ClaimInv, OneRunPerDownload, HasClaim, IdleThread
<1>3. PhaseInv
  BY DEF Init, PhaseInv, PhaseOk, IdleThread
<1>4. StagingIsOwn
  BY DEF Init, StagingIsOwn, UsesStaging, At, IdleThread
<1>5. SlotInv
  BY DEF Init, SlotInv, Busy
<1>6. CompletedIsDelivered /\ WritesOk
  BY DEF Init, CompletedIsDelivered, WritesOk
<1>7. QED
  BY <1>1, <1>2, <1>3, <1>4, <1>5, <1>6 DEF Inv

\* Every step of the worker keeps the invariant.
LEMMA NextInv ==
    ASSUME Inv, [Next]_vars
    PROVE  Inv'
<1>1. TypeInv'
  BY TypePreserved DEF Inv
<1>2. ClaimInv'
  BY <1>1, ClaimPreserved DEF Inv
<1>3. PhaseInv'
  BY <1>1, PhasePreserved DEF Inv
<1>4. StagingIsOwn'
  BY <1>1, StagingPreserved DEF Inv
<1>5. SlotInv'
  BY <1>1, SlotPreserved DEF Inv
<1>6. (CompletedIsDelivered /\ WritesOk)'
  BY CompletedPreserved DEF Inv
<1>7. QED
  BY <1>1, <1>2, <1>3, <1>4, <1>5, <1>6 DEF Inv

\* The conjunction holds in every state the worker reaches.
THEOREM Inductive == Spec => []Inv
  BY InitInv, NextInv, PTL DEF Spec

\* What the invariant says of the set and of the slot.
LEMMA ClaimsMatch ==
    ASSUME TypeInv, ClaimInv
    PROVE  InFlightSetExact
<1>1. active \subseteq {thread[t].id : t \in {u \in Threads : HasClaim(u)}}
  BY DEF ClaimInv
<1>2. \A t \in {u \in Threads : HasClaim(u)} : thread[t].id \in active
  BY DEF ClaimInv
<1>3. QED
  BY <1>1, <1>2 DEF InFlightSetExact

\* The strengthened slot invariant gives the property the runs check.
LEMMA SlotIsOwned ==
    ASSUME TypeInv, PhaseInv, SlotInv
    PROVE  SlotHasOwner
<1>1. ASSUME NEW t \in Threads, WroteStatus(t)
      PROVE  WillClear(t)
  BY <1>1 DEF WroteStatus, WillClear, At
<1>2. QED
  BY <1>1 DEF SlotInv, SlotHasOwner, OwesSlot

\* Every variable keeps its type, whatever races, fails or restarts.
THEOREM TypeCorrect == Spec => []TypeOK
<1>1. Inv => TypeOK
  BY DEF Inv, TypeInv
<1>2. QED
  BY <1>1, Inductive, PTL

\* For any number of threads and start requests, two runs of one id never
\* exist together (downloader.py:31-49).
THEOREM RunsAreExclusive == Spec => []OneRunPerDownload
<1>1. Inv => OneRunPerDownload
  BY DEF Inv, ClaimInv
<1>2. QED
  BY <1>1, Inductive, PTL

\* The in-flight set is exactly the set of ids with a run (downloader.py:31-49).
THEOREM InFlightIsExact == Spec => []InFlightSetExact
<1>1. Inv => InFlightSetExact
  BY ClaimsMatch DEF Inv
<1>2. QED
  BY <1>1, Inductive, PTL

\* A run only reads and delivers what it staged itself, after any restart
\* (downloader.py:66-72, 242-248).
THEOREM StagingIsNeverShared == Spec => []StagingIsOwn
<1>1. Inv => StagingIsOwn
  BY DEF Inv
<1>2. QED
  BY <1>1, Inductive, PTL

\* A taken slot always has a thread that will empty it (server.py:885-891).
THEOREM SlotIsNeverLatched == Spec => []SlotHasOwner
<1>1. Inv => SlotHasOwner
  BY SlotIsOwned DEF Inv
<1>2. QED
  BY <1>1, Inductive, PTL

\* A row shows "completed" only after the delivery, whatever reports are lost,
\* repeated or late (api.py:22-47, downloader.py:221-234, 572-588).
THEOREM CompletedMeansDelivered == Spec => []CompletedIsDelivered
<1>1. Inv => CompletedIsDelivered
  BY DEF Inv
<1>2. QED
  BY <1>1, Inductive, PTL

-----------------------------------------------------------------------------
(* Refinement *)

\* The first state is a first state of Runs.
LEMMA InitRefines ==
    ASSUME Init
    PROVE  R!RunsInit
  BY DEF Init, R!RunsInit

\* Every step of the worker is a step of Runs or changes nothing of it.
LEMMA StepRefines ==
    ASSUME Inv, [Next]_vars
    PROVE  [R!RunsNext]_(R!runsVars)
<1> USE DEF Inv, TypeInv
<1>1. ASSUME NEW t \in Threads, Acts(t)
      PROVE  [R!RunsNext]_(R!runsVars)
  <2>1. CASE ClaimRun(t)
    <3>1. thread[t].id \in Downloads
      BY <2>1 DEF ClaimRun, At, IdInv
    <3>2. R!Start(thread[t].id)
      BY <2>1 DEF ClaimRun, R!Start
    <3>3. QED
      BY <3>1, <3>2 DEF R!RunsNext
  <2>2. CASE \/ TransferError(t) \/ Publish(t) \/ UploadDone(t)
    <3>1. HasClaim(t) /\ thread[t].id \in Downloads
      BY <2>2 DEF TransferError, Publish, UploadDone, At, IdInv, HasClaim, Pcs
    <3>2. thread[t].id \in active
      BY <3>1 DEF ClaimInv
    <3>3. \/ delivered' = delivered
          \/ delivered' = delivered \cup {thread[t].id}
      BY <2>2 DEF TransferError, Publish, UploadDone
    <3>4. UNCHANGED <<active, row, writes>>
      BY <2>2 DEF TransferError, Publish, UploadDone
    <3>5. CASE delivered' = delivered \cup {thread[t].id}
      <4>1. R!Deliver(thread[t].id)
        BY <3>2, <3>4, <3>5 DEF R!Deliver
      <4>2. QED
        BY <3>1, <4>1 DEF R!RunsNext
    <3>6. CASE delivered' = delivered
      BY <3>4, <3>6 DEF R!runsVars
    <3>7. QED
      BY <3>3, <3>5, <3>6
  <2>3. CASE PostApplied(t) \/ PostTimesOut(t)
    <3>1. /\ thread[t].pc = "post"
          /\ UNCHANGED <<active, delivered>>
      BY <2>3 DEF PostApplied, PostTimesOut, At
    <3>2. /\ thread[t].id \in Downloads
          /\ thread[t].say \in Status \ {"pending"}
      BY <3>1 DEF IdInv
    <3>3. thread[t].id \in active
      BY <3>1 DEF ClaimInv, HasClaim, Pcs
    <3>4. thread[t].say = "completed" => thread[t].id \in delivered \cup Exempt
      BY <3>1 DEF PhaseInv, PhaseOk
    <3>5. R!MayReport(thread[t].id, thread[t].say)
      BY <3>3, <3>4 DEF R!MayReport, Exempt
    <3>6. thread[t].say \in R!Status \ {"pending"}
      BY <3>2 DEF Status, R!Status
    <3>7. R!SetRow(thread[t].id, thread[t].say) \/ R!Delay(thread[t].id, thread[t].say)
      BY <2>3, <3>1, <3>5 DEF PostApplied, PostTimesOut, R!SetRow, R!Delay
    <3>8. QED
      BY <3>2, <3>6, <3>7 DEF R!RunsNext
  <2>4. CASE Release(t)
    <3>1. thread[t].id \in Downloads /\ HasClaim(t)
      BY <2>4 DEF Release, At, IdInv, HasClaim, Pcs
    <3>2. R!End(thread[t].id)
      BY <2>4, <3>1 DEF Release, ClaimInv, R!End
    <3>3. QED
      BY <3>1, <3>2 DEF R!RunsNext
  <2>5. CASE /\ ~ClaimRun(t) /\ ~TransferError(t) /\ ~Publish(t)
             /\ ~UploadDone(t) /\ ~PostApplied(t) /\ ~PostTimesOut(t)
             /\ ~Release(t)
    <3>1. UNCHANGED <<active, delivered, row, writes>>
      BY <1>1, <2>5 DEF Acts, RefuseDuplicate, Stage, StageFailed, FillSlot,
          Aria2Found, Aria2Missing, Abandon, Fetch, Chunk, NoticeCancel,
          TransferDone, StartUpload, UploadChunk, UploadFailed, PostLost,
          PostRejected, Cleanup, Finish
    <3>2. QED
      BY <3>1 DEF R!runsVars
  <2>6. QED
    BY <2>1, <2>2, <2>3, <2>4, <2>5
<1>2. CASE Restart
  BY <1>2 DEF Restart, R!Crash, R!RunsNext
<1>3. CASE \/ \E d \in Downloads, t \in Threads : Trigger(d, t)
           \/ \E d \in Downloads : Cancel(d)
           \/ UNCHANGED vars
  BY <1>3 DEF Trigger, Cancel, vars, R!runsVars
<1>4. ASSUME NEW d \in Downloads, BackendMarks(d)
      PROVE  [R!RunsNext]_(R!runsVars)
  <2>1. R!Doubt(d)
    BY <1>4 DEF BackendMarks, R!Doubt
  <2>2. QED
    BY <2>1 DEF R!RunsNext
<1>5. ASSUME NEW w \in writes, WriteArrives(w)
      PROVE  [R!RunsNext]_(R!runsVars)
  <2>1. R!Arrives(w)
    BY <1>5 DEF WriteArrives, R!Arrives
  <2>2. QED
    BY <2>1 DEF R!RunsNext
<1>6. QED
  BY <1>1, <1>2, <1>3, <1>4, <1>5, StepCases

\* The worker implements the abstract runs: a claim is an exclusive run, and
\* with reports that arrive late, even after the run or the process, and with
\* the backend's marks between them, "completed" is only ever written of what
\* is delivered (downloader.py:31-49, 175-248, 359-596; api.py:22-47).
THEOREM WorkerImplementsRuns == Spec => ImplementsRuns
<1>1. Init => R!RunsInit
  BY InitRefines
<1>2. Inv /\ [Next]_vars => [R!RunsNext]_(R!runsVars)
  BY StepRefines
<1>3. QED
  BY <1>1, <1>2, Inductive, PTL DEF Spec, ImplementsRuns, R!RunsSpec

-----------------------------------------------------------------------------
(* The tunnel                                                               *)

LEMMA LeastUrl ==
    ASSUME NEW S, S \subseteq Nat, S # {}
    PROVE  \E u \in S : \A v \in S : u <= v
<1> DEFINE Less == OpToRel(<, Nat)
<1>1. IsWellFoundedOn(Less, Nat)
  BY NatLessThanWellFounded
<1>2. \A x, y \in Nat : x < y => <<x, y>> \in Less
  BY DEF OpToRel
<1> HIDE DEF Less
<1>3. \E x \in S : \A y \in S : ~ (<<y, x>> \in Less)
  BY <1>1, WFMin
<1>4. PICK u \in S : \A v \in S : ~ (<<v, u>> \in Less)
  BY <1>3
<1>5. \A v \in S : ~(v < u)
  BY <1>2, <1>4
<1> QED
  BY <1>5

\* The URL a process is given is in use nowhere, and not 0.
LEMMA UrlIsFresh ==
    ASSUME Urls \ UsedUrls # {}
    PROVE  FreshUrl \in Urls \ UsedUrls /\ FreshUrl \in AnyUrl /\ FreshUrl # 0
<1>1. Urls \subseteq Nat /\ Urls \subseteq AnyUrl /\ 0 \notin Urls
  BY TunnelAssumption DEF Urls, AnyUrl
<1>2. \E u \in Urls \ UsedUrls : \A v \in Urls \ UsedUrls : u <= v
  BY <1>1, LeastUrl
<1>3. FreshUrl \in Urls \ UsedUrls
  BY <1>2 DEF FreshUrl
<1> QED
  BY <1>1, <1>3

\* A tunnel that is started is up; another is what it was, or ended.
LEMMA Spawned ==
    ASSUME tun \in [Tunnels -> Tunnel], exits \in 0 .. MaxExits,
           NEW t \in Tunnels, NEW d \in {"off", "launches"}, tun[t].posted = 0, Spawn(t, d)
    PROVE  /\ exits' \in 0 .. MaxExits /\ tun' \in [Tunnels -> Tunnel]
           /\ tun'[t].dog = d /\ tun'[t].posted = 0
           /\ \A u \in Tunnels \ {t} :
                 /\ tun'[u].dog = tun[u].dog /\ tun'[u].url = tun[u].url /\ tun'[u].posted = tun[u].posted
                 /\ tun'[u].proc = tun[u].proc \/ (tun[u].proc = "up" /\ tun'[u].proc = "dead")
<1>0. MaxExits \in Nat
  BY TunnelAssumption
<1>1. exits' \in 0 .. MaxExits
  BY <1>0 DEF Spawn, Evicts
<1> DEFINE n(u) == IF u = t THEN [tun[t] EXCEPT !.proc = "up", !.dog = d]
                   ELSE IF Evicts(t) /\ tun[u].proc = "up" THEN [tun[u] EXCEPT !.proc = "dead"]
                   ELSE tun[u]
<1>2. tun' = [u \in Tunnels |-> n(u)]
  BY DEF Spawn
<1>3. ASSUME NEW u \in Tunnels
      PROVE  /\ n(u) \in Tunnel
             /\ u = t => n(u).dog = d /\ n(u).posted = 0
             /\ u # t => /\ n(u).dog = tun[u].dog /\ n(u).url = tun[u].url /\ n(u).posted = tun[u].posted
                         /\ n(u).proc = tun[u].proc \/ (tun[u].proc = "up" /\ n(u).proc = "dead")
  <2>1. tun[u] \in Tunnel
    OBVIOUS
  <2>2. CASE u = t
    BY <2>1, <2>2 DEF Tunnel
  <2>3. CASE u # t /\ Evicts(t) /\ tun[u].proc = "up"
    BY <2>1, <2>3 DEF Tunnel
  <2>4. CASE u # t /\ ~(Evicts(t) /\ tun[u].proc = "up")
    BY <2>1, <2>4
  <2> QED
    BY <2>2, <2>3, <2>4
<1> HIDE DEF n
<1> QED
  BY <1>1, <1>2, <1>3

-----------------------------------------------------------------------------
(* No stray tunnel: who holds what                                          *)

\* What the swap holds at each of its steps: nothing; the new tunnel; the new one, adopted,
\* and the old one, which it stops.
SwapHolds ==
    /\ swap.pc \in {"off", "fetch"} => swap.new = NoTunnel /\ swap.old = NoTunnel
    /\ swap.pc \in {"launch", "ready", "go"} => swap.new \in Tunnels \ {current} /\ swap.old = NoTunnel
    /\ swap.pc = "launch" => tun[swap.new].dog = "off"
    /\ swap.pc \in {"adopted", "post"} =>
          /\ swap.new \in Tunnels \ {swap.old} /\ current \in {swap.new, NoTunnel}
          /\ main = "runs" => current = swap.new
    /\ swap.pc = "post" /\ swap.old # NoTunnel => tun[swap.old].proc = "none" \/ swap.old \in revived

\* Not only a tunnel that is up: one whose process has ended is started again.
AllHeld ==
    main = "runs" =>
        \A t \in Tunnels : tun[t].proc # "none" => t \in {current, swap.new, swap.old} \cup revived

\* A watchdog that was given a URL still has it, unless its tunnel was stopped.
UrlTold ==
    \A t \in Tunnels : tun[t].dog = "told" =>
        tun[t].url # 0 \/ (t # current /\ ~(swap.pc \in {"ready", "go"} /\ t = swap.new))

TunnelInv == TunnelTypeOK /\ SwapHolds /\ AllHeld /\ UrlTold

\* A watchdog's step, or the end of a process, changes one tunnel and neither starts nor
\* stops it.
LEMMA OneTunnelChanges ==
    ASSUME TunnelInv, NEW t \in Tunnels, NEW n \in Tunnel, tun' = [tun EXCEPT ![t] = n],
           n.dog = "posts" <=> n.posted # 0,
           n.proc # "none" => tun[t].proc # "none",
           n.dog = "told" => n.url # 0 \/ (tun[t].dog = "told" /\ n.url = tun[t].url),
           tun[t].dog = "off" => n.dog = "off",
           rowUrl' \in AnyUrl, exits' \in 0 .. MaxExits,
           UNCHANGED <<env, current, worker, main, dashboard, revived>>
    PROVE  TunnelInv'
<1>0. /\ tun \in [Tunnels -> Tunnel] /\ tun' \in [Tunnels -> Tunnel] /\ tun'[t] = n
      /\ \A u \in Tunnels \ {t} : tun'[u] = tun[u]
      /\ NoTunnel \notin Tunnels
  BY TunnelAssumption DEF TunnelInv, TunnelTypeOK
<1>1. UNCHANGED <<env, current, swap, applied, failed, beat, main, asked, nonces, edit, revived>>
  BY DEF worker, dashboard
<1>2. TunnelTypeOK'
  BY <1>0, <1>1 DEF TunnelInv, TunnelTypeOK
<1>3. SwapHolds'
  <2>1. swap \in Swap
    BY DEF TunnelInv, TunnelTypeOK
  <2>2. swap.pc = "launch" => tun'[swap.new].dog = "off"
    BY <1>0 DEF TunnelInv, SwapHolds
  <2>3. swap.pc = "post" /\ swap.old # NoTunnel => tun'[swap.old].proc = "none" \/ swap.old \in revived
    BY <1>0, <2>1 DEF TunnelInv, SwapHolds, Swap
  <2> QED
    BY <1>1, <2>2, <2>3 DEF TunnelInv, SwapHolds
<1>4. AllHeld'
  BY <1>0, <1>1 DEF TunnelInv, AllHeld
<1>5. UrlTold'
  BY <1>0, <1>1 DEF TunnelInv, UrlTold
<1> QED
  BY <1>2, <1>3, <1>4, <1>5 DEF TunnelInv

LEMMA OneTunnelKeeps ==
    ASSUME TunnelInv, NEW t \in Tunnels,
           \/ ProcessExits(t) \/ Notices(t) \/ GetsUrl(t) \/ GetsNoUrl(t) \/ Handles(t)
           \/ Registers(t) \/ RegistrationFails(t)
    PROVE  TunnelInv'
<1>0. /\ tun \in [Tunnels -> Tunnel] /\ tun[t] \in Tunnel /\ exits \in 0 .. MaxExits /\ rowUrl \in AnyUrl
      /\ tun[t].dog = "posts" <=> tun[t].posted # 0
      /\ 0 \in AnyUrl /\ MaxExits \in Nat
  BY TunnelAssumption DEF TunnelInv, TunnelTypeOK, AnyUrl
<1>1. CASE ProcessExits(t)
  <2> DEFINE n == [tun[t] EXCEPT !.proc = "dead"]
  <2>1. n \in Tunnel /\ n.dog = tun[t].dog /\ n.url = tun[t].url /\ n.posted = tun[t].posted
    BY <1>0 DEF Tunnel
  <2>2. tun' = [tun EXCEPT ![t] = n] /\ exits' \in 0 .. MaxExits
    BY <1>0, <1>1 DEF ProcessExits
  <2> HIDE DEF n
  <2> QED
    BY <1>0, <1>1, <2>1, <2>2, OneTunnelChanges, ZenonT(60) DEF ProcessExits
<1>2. CASE Notices(t)
  <2> DEFINE n == IF tun[t].proc = "none" THEN [tun[t] EXCEPT !.dog = "off"]
                  ELSE [tun[t] EXCEPT !.dog = "sleeps", !.url = 0]
  <2>1. n \in Tunnel /\ n.dog \in {"off", "sleeps"} /\ n.posted = tun[t].posted /\ n.proc = tun[t].proc
    BY <1>0 DEF Tunnel
  <2>2. tun' = [tun EXCEPT ![t] = n] /\ tun[t].dog = "waits"
    BY <1>0, <1>2 DEF Notices
  <2> HIDE DEF n
  <2> QED
    BY <1>0, <1>2, <2>1, <2>2, OneTunnelChanges DEF Notices
<1>3. CASE GetsUrl(t)
  <2> DEFINE n == [tun[t] EXCEPT !.url = FreshUrl, !.dog = "told"]
  <2>1. FreshUrl \in AnyUrl /\ FreshUrl # 0
    BY <1>3, UrlIsFresh DEF GetsUrl
  <2>2. n \in Tunnel /\ n.dog = "told" /\ n.url # 0 /\ n.posted = 0 /\ n.proc = tun[t].proc
    BY <1>0, <1>3, <2>1 DEF Tunnel, GetsUrl
  <2>3. tun' = [tun EXCEPT ![t] = n] /\ tun[t].dog = "launches"
    BY <1>0, <1>3 DEF GetsUrl
  <2> HIDE DEF n
  <2> QED
    BY <1>0, <1>3, <2>2, <2>3, OneTunnelChanges DEF GetsUrl
<1>4. CASE GetsNoUrl(t)
  <2> DEFINE n == [tun[t] EXCEPT !.dog = "waits", !.proc = IF tun[t].proc = "up" THEN "dead" ELSE tun[t].proc]
  <2>1. n \in Tunnel /\ n.dog = "waits" /\ n.posted = 0 /\ (n.proc # "none" => tun[t].proc # "none")
    BY <1>0, <1>4 DEF Tunnel, GetsNoUrl
  <2>2. tun' = [tun EXCEPT ![t] = n] /\ tun[t].dog = "launches"
    BY <1>0, <1>4 DEF GetsNoUrl
  <2> HIDE DEF n
  <2> QED
    BY <1>0, <1>4, <2>1, <2>2, OneTunnelChanges DEF GetsNoUrl
<1>5. CASE Handles(t)
  <2> DEFINE n == IF current = t THEN [tun[t] EXCEPT !.dog = "posts", !.posted = tun[t].url]
                  ELSE [tun[t] EXCEPT !.dog = "waits"]
  <2>1. current = t => tun[t].url # 0
    BY <1>5 DEF Handles, TunnelInv, UrlTold
  <2>2. tun[t].dog = "told" /\ tun[t].posted = 0
    BY <1>0, <1>5 DEF Handles
  <2>3. n \in Tunnel /\ n.dog \in {"posts", "waits"} /\ (n.dog = "posts" <=> n.posted # 0) /\ n.proc = tun[t].proc
    BY <1>0, <2>1, <2>2 DEF Tunnel
  <2>4. tun' = [tun EXCEPT ![t] = n]
    BY <1>0, <1>5 DEF Handles
  <2> HIDE DEF n
  <2> QED
    BY <1>0, <1>5, <2>2, <2>3, <2>4, OneTunnelChanges DEF Handles
<1>6. CASE Registers(t) \/ RegistrationFails(t)
  <2> DEFINE n == [tun[t] EXCEPT !.dog = "waits", !.posted = 0]
  <2>1. n \in Tunnel /\ n.dog = "waits" /\ n.posted = 0 /\ n.proc = tun[t].proc
    BY <1>0 DEF Tunnel
  <2>2. tun' = [tun EXCEPT ![t] = n] /\ tun[t].dog = "posts" /\ rowUrl' \in AnyUrl
        /\ UNCHANGED <<env, current, worker, main, dashboard, revived, exits>>
    BY <1>0, <1>6 DEF Registers, RegistrationFails, Tunnel
  <2> HIDE DEF n
  <2> QED
    BY <1>0, <2>1, <2>2, OneTunnelChanges
<1> QED
  BY <1>1, <1>2, <1>3, <1>4, <1>5, <1>6

\* After its sleep a watchdog starts its tunnel, stopped or not.
LEMMA RelaunchKeeps ==
    ASSUME TunnelInv, NEW t \in Tunnels, Relaunches(t)
    PROVE  TunnelInv'
<1>0. /\ tun \in [Tunnels -> Tunnel] /\ exits \in 0 .. MaxExits /\ tun[t].dog = "sleeps" /\ tun[t].posted = 0
      /\ swap \in Swap /\ NoTunnel \notin Tunnels
  BY TunnelAssumption DEF TunnelInv, TunnelTypeOK, Relaunches
<1>1. /\ exits' \in 0 .. MaxExits /\ tun' \in [Tunnels -> Tunnel]
      /\ tun'[t].dog = "launches" /\ tun'[t].posted = 0
      /\ \A u \in Tunnels \ {t} :
            /\ tun'[u].dog = tun[u].dog /\ tun'[u].url = tun[u].url /\ tun'[u].posted = tun[u].posted
            /\ tun'[u].proc = tun[u].proc \/ (tun[u].proc = "up" /\ tun'[u].proc = "dead")
  BY <1>0, Spawned DEF Relaunches
<1>2. UNCHANGED <<env, current, swap, applied, failed, beat, main, rowUrl, asked, nonces, edit>>
  BY DEF Relaunches, worker, dashboard
<1>3. IF tun[t].proc = "none" THEN revived' = revived \cup {t} ELSE revived' = revived
  BY Zenon DEF Relaunches
<1>4. TunnelTypeOK'
  BY <1>0, <1>1, <1>2, <1>3 DEF TunnelInv, TunnelTypeOK
<1>5. SwapHolds'
  <2>1. swap.pc = "launch" => tun'[swap.new].dog = "off"
    BY <1>0, <1>1 DEF TunnelInv, SwapHolds
  <2>2. swap.pc = "post" /\ swap.old # NoTunnel => tun'[swap.old].proc = "none" \/ swap.old \in revived'
    <3> SUFFICES ASSUME swap.pc = "post", swap.old # NoTunnel
                 PROVE  tun'[swap.old].proc = "none" \/ swap.old \in revived'
      OBVIOUS
    <3>1. swap.old \in Tunnels /\ (tun[swap.old].proc = "none" \/ swap.old \in revived)
      BY <1>0 DEF TunnelInv, SwapHolds, Swap
    <3> QED
      BY <1>1, <1>3, <3>1
  <2> QED
    BY <1>2, <2>1, <2>2 DEF TunnelInv, SwapHolds
<1>6. AllHeld'
  BY <1>1, <1>2, <1>3 DEF TunnelInv, AllHeld
<1>7. UrlTold'
  BY <1>1, <1>2 DEF TunnelInv, UrlTold
<1> QED
  BY <1>4, <1>5, <1>6, <1>7 DEF TunnelInv

LEMMA StoppedIs ==
    ASSUME tun \in [Tunnels -> Tunnel], NEW t \in Tunnels
    PROVE  /\ Stopped(t) \in [Tunnels -> Tunnel]
           /\ Stopped(t)[t].proc = "none" /\ Stopped(t)[t].dog = tun[t].dog /\ Stopped(t)[t].posted = tun[t].posted
           /\ \A u \in Tunnels \ {t} : Stopped(t)[u] = tun[u]
<1> DEFINE n == [tun[t] EXCEPT !.proc = "none", !.url = 0]
<1>1. n \in Tunnel /\ n.proc = "none" /\ n.dog = tun[t].dog /\ n.posted = tun[t].posted
  <2>1. tun[t] \in Tunnel /\ 0 \in AnyUrl
    BY TunnelAssumption DEF AnyUrl
  <2> QED
    BY <2>1 DEF Tunnel
<1>2. Stopped(t) = [tun EXCEPT ![t] = n]
  BY DEF Stopped
<1> HIDE DEF n
<1> QED
  BY <1>1, <1>2

\* What the types say of the tunnels and of the swap.
LEMMA InvTypes ==
    ASSUME TunnelInv
    PROVE  /\ tun \in [Tunnels -> Tunnel] /\ swap \in Swap /\ current \in Tunnels \cup {NoTunnel}
           /\ NoTunnel \notin Tunnels /\ NoTunnel # First /\ First \in Tunnels
           /\ 0 \in AnyUrl /\ 0 \in Nonces /\ NoSwap \in Swap /\ rowUrl \in AnyUrl /\ exits \in 0 .. MaxExits
           /\ swap.new \in Tunnels \cup {NoTunnel} /\ swap.old \in Tunnels \cup {NoTunnel}
           /\ swap.nonce \in Nonces /\ swap.url \in AnyUrl
BY TunnelAssumption DEF TunnelInv, TunnelTypeOK, Swap, NoSwap, AnyUrl, Nonces

\* A step of the swap: what its three parts have to keep.
LEMMA SwapChanges ==
    ASSUME TunnelInv, UNCHANGED <<env, beat, main, dashboard, revived>>,
           tun' \in [Tunnels -> Tunnel], \A t \in Tunnels : tun'[t].dog = "posts" <=> tun'[t].posted # 0,
           current' \in Tunnels \cup {NoTunnel}, swap' \in Swap, swap'.pc = "off" => swap' = NoSwap,
           applied' \in Nonces, failed' \in [nonce : Nonces, wait : BOOLEAN],
           rowUrl' \in AnyUrl, exits' \in 0 .. MaxExits, SwapHolds', AllHeld', UrlTold'
    PROVE  TunnelInv'
BY DEF TunnelInv, TunnelTypeOK, dashboard

LEMMA SwapSpawnKeeps ==
    ASSUME TunnelInv, NEW t \in Tunnels, SwapSpawns(t)
    PROVE  TunnelInv'
<1>0. /\ tun \in [Tunnels -> Tunnel] /\ swap \in Swap /\ NoTunnel \notin Tunnels /\ exits \in 0 .. MaxExits
      /\ swap.pc = "fetch" /\ swap.new = NoTunnel /\ swap.old = NoTunnel /\ tun[t].posted = 0 /\ t # current
  BY InvTypes DEF SwapSpawns, Off, TunnelInv, SwapHolds
<1>1. /\ exits' \in 0 .. MaxExits /\ tun' \in [Tunnels -> Tunnel]
      /\ tun'[t].dog = "off" /\ tun'[t].posted = 0
      /\ \A u \in Tunnels \ {t} :
            /\ tun'[u].dog = tun[u].dog /\ tun'[u].url = tun[u].url /\ tun'[u].posted = tun[u].posted
            /\ tun'[u].proc = tun[u].proc \/ (tun[u].proc = "up" /\ tun'[u].proc = "dead")
  BY <1>0, Spawned DEF SwapSpawns
<1>2. /\ swap' \in Swap /\ swap'.pc = "launch" /\ swap'.new = t /\ swap'.old = NoTunnel
      /\ UNCHANGED <<env, current, applied, failed, beat, main, rowUrl, dashboard, revived>>
  BY <1>0 DEF SwapSpawns, Swap
<1>3. \A u \in Tunnels : tun'[u].dog = "posts" <=> tun'[u].posted # 0
  BY <1>1 DEF TunnelInv, TunnelTypeOK
<1>4. SwapHolds'
  BY <1>0, <1>1, <1>2 DEF SwapHolds
<1>5. AllHeld'
  BY <1>0, <1>1, <1>2 DEF TunnelInv, AllHeld
<1>6. UrlTold'
  BY <1>0, <1>1, <1>2 DEF TunnelInv, UrlTold
<1> QED
  BY <1>1, <1>2, <1>3, <1>4, <1>5, <1>6, SwapChanges DEF TunnelInv, TunnelTypeOK

LEMMA SwapUrlKeeps ==
    ASSUME TunnelInv, SwapGetsUrl
    PROVE  TunnelInv'
<1> DEFINE t == swap.new
           n == [tun[t] EXCEPT !.url = FreshUrl, !.dog = "waits"]
<1>0. /\ tun \in [Tunnels -> Tunnel] /\ swap \in Swap /\ swap.pc = "launch" /\ t \in Tunnels \ {current}
      /\ swap.old = NoTunnel /\ tun[t].dog = "off" /\ tun[t] \in Tunnel
      /\ exits \in 0 .. MaxExits /\ rowUrl \in AnyUrl
  BY InvTypes DEF SwapGetsUrl, TunnelInv, SwapHolds
<1>1. FreshUrl \in AnyUrl
  BY UrlIsFresh DEF SwapGetsUrl
<1>2. tun[t].posted = 0
  BY <1>0 DEF TunnelInv, TunnelTypeOK
<1>3. n \in Tunnel /\ n.dog = "waits" /\ n.posted = 0 /\ n.proc = tun[t].proc
  BY <1>0, <1>1, <1>2 DEF Tunnel
<1>4. tun' = [tun EXCEPT ![t] = n]
  BY <1>0 DEF SwapGetsUrl
<1>5. /\ swap' \in Swap /\ swap'.pc = "ready" /\ swap'.new = t /\ swap'.old = NoTunnel
      /\ UNCHANGED <<env, current, applied, failed, beat, main, rowUrl, dashboard, exits, revived>>
  BY <1>0, <1>1 DEF SwapGetsUrl, Swap
<1> HIDE DEF n, t
<1>6. tun' \in [Tunnels -> Tunnel] /\ tun'[t] = n /\ \A u \in Tunnels \ {t} : tun'[u] = tun[u]
  BY <1>0, <1>3, <1>4
<1>7. \A u \in Tunnels : tun'[u].dog = "posts" <=> tun'[u].posted # 0
  BY <1>3, <1>6 DEF TunnelInv, TunnelTypeOK
<1>8. SwapHolds'
  BY <1>0, <1>5 DEF SwapHolds
<1>9. AllHeld'
  <2>1. swap.new = t
    BY DEF t
  <2> QED
    BY <1>0, <1>3, <1>5, <1>6, <2>1 DEF TunnelInv, AllHeld
<1>10. UrlTold'
  BY <1>0, <1>3, <1>5, <1>6 DEF TunnelInv, UrlTold
<1> QED
  BY <1>0, <1>5, <1>6, <1>7, <1>8, <1>9, <1>10, SwapChanges DEF TunnelInv, TunnelTypeOK

\* A swap that fails, or that finds the worker shutting down, stops its tunnel.
LEMMA SwapGivesUp ==
    ASSUME TunnelInv, swap' = NoSwap, UNCHANGED <<env, current, applied, beat, main, rowUrl, dashboard, exits, revived>>,
           failed' \in [nonce : Nonces, wait : BOOLEAN],
           \/ swap.pc = "fetch" /\ UNCHANGED tun
           \/ swap.pc \in {"launch", "ready"} /\ tun' = Stopped(swap.new)
    PROVE  TunnelInv'
<1>0. /\ tun \in [Tunnels -> Tunnel] /\ NoTunnel \notin Tunnels /\ NoSwap \in Swap
      /\ exits \in 0 .. MaxExits /\ rowUrl \in AnyUrl
      /\ swap'.pc = "off" /\ swap'.new = NoTunnel /\ swap'.old = NoTunnel /\ swap.old = NoTunnel
  BY InvTypes DEF NoSwap, TunnelInv, SwapHolds
<1>1. SwapHolds'
  BY <1>0 DEF SwapHolds
<1>2. /\ tun' \in [Tunnels -> Tunnel] /\ AllHeld' /\ UrlTold'
      /\ \A u \in Tunnels : tun'[u].dog = "posts" <=> tun'[u].posted # 0
  <2>1. CASE swap.pc = "fetch" /\ UNCHANGED tun
    <3>1. swap.new = NoTunnel
      BY <2>1 DEF TunnelInv, SwapHolds
    <3> QED
      BY <1>0, <2>1, <3>1 DEF TunnelInv, TunnelTypeOK, AllHeld, UrlTold
  <2>2. CASE swap.pc \in {"launch", "ready"} /\ tun' = Stopped(swap.new)
    <3>1. swap.new \in Tunnels \ {current}
      BY <2>2 DEF TunnelInv, SwapHolds
    <3>2. /\ tun' \in [Tunnels -> Tunnel] /\ tun'[swap.new].proc = "none"
          /\ tun'[swap.new].dog = tun[swap.new].dog /\ tun'[swap.new].posted = tun[swap.new].posted
          /\ \A u \in Tunnels \ {swap.new} : tun'[u] = tun[u]
      BY <1>0, <2>2, <3>1, StoppedIs
    <3>3. AllHeld'
      BY <1>0, <3>1, <3>2 DEF TunnelInv, AllHeld
    <3>4. UrlTold'
      BY <1>0, <3>1, <3>2 DEF TunnelInv, UrlTold
    <3> QED
      BY <3>2, <3>3, <3>4 DEF TunnelInv, TunnelTypeOK
  <2> QED
    BY <2>1, <2>2
<1> QED
  BY <1>0, <1>1, <1>2, SwapChanges DEF TunnelInv, TunnelTypeOK

LEMMA SwapFailKeeps ==
    ASSUME TunnelInv, SwapFails
    PROVE  TunnelInv'
<1>1. failed' \in [nonce : Nonces, wait : BOOLEAN]
  BY InvTypes DEF SwapFails
<1> QED
  BY <1>1, SwapGivesUp DEF SwapFails

LEMMA SwapCheckKeeps ==
    ASSUME TunnelInv, SwapChecks
    PROVE  TunnelInv'
<1>0. swap \in Swap /\ failed \in [nonce : Nonces, wait : BOOLEAN] /\ swap.pc = "ready"
  BY DEF TunnelInv, TunnelTypeOK, SwapChecks
<1>1. CASE main # "runs"
  BY <1>0, <1>1, SwapGivesUp DEF SwapChecks
<1>2. CASE main = "runs"
  <2>1. /\ swap' = [swap EXCEPT !.pc = "go"]
        /\ UNCHANGED <<env, tun, current, applied, failed, beat, main, rowUrl, dashboard, exits, revived>>
    BY <1>2 DEF SwapChecks
  <2>2. swap' \in Swap /\ swap'.pc = "go" /\ swap'.new = swap.new /\ swap'.old = swap.old
    BY <1>0, <2>1 DEF Swap
  <2>3. SwapHolds'
    BY <1>0, <2>1, <2>2 DEF TunnelInv, SwapHolds
  <2>4. AllHeld' /\ UrlTold'
    BY <1>0, <2>1, <2>2 DEF TunnelInv, AllHeld, UrlTold
  <2> QED
    BY <2>1, <2>2, <2>3, <2>4, SwapChanges DEF TunnelInv, TunnelTypeOK
<1> QED
  BY <1>1, <1>2

LEMMA SwapAdoptKeeps ==
    ASSUME TunnelInv, SwapAdopts
    PROVE  TunnelInv'
<1>0. /\ swap \in Swap /\ swap.pc = "go" /\ swap.new \in Tunnels \ {current} /\ swap.old = NoTunnel
      /\ current \in Tunnels \cup {NoTunnel} /\ NoTunnel \notin Tunnels
  BY InvTypes DEF TunnelInv, SwapHolds, SwapAdopts
<1>1. /\ swap' \in Swap /\ swap'.pc = "adopted" /\ swap'.new = swap.new /\ swap'.old = current
      /\ current' = swap.new /\ UNCHANGED <<env, tun, applied, failed, beat, main, rowUrl, dashboard, exits, revived>>
  BY <1>0 DEF SwapAdopts, Swap
<1>2. SwapHolds'
  BY <1>0, <1>1 DEF SwapHolds
<1>3. AllHeld'
  BY <1>0, <1>1 DEF TunnelInv, AllHeld
<1>4. UrlTold'
  BY <1>0, <1>1 DEF TunnelInv, UrlTold
<1> QED
  BY <1>0, <1>1, <1>2, <1>3, <1>4, SwapChanges DEF TunnelInv, TunnelTypeOK

LEMMA SwapStopKeeps ==
    ASSUME TunnelInv, SwapStopsOld
    PROVE  TunnelInv'
<1>0. /\ tun \in [Tunnels -> Tunnel] /\ swap \in Swap /\ swap.pc = "adopted" /\ swap.new \in Tunnels \ {swap.old}
      /\ current \in {swap.new, NoTunnel} /\ NoTunnel \notin Tunnels /\ swap.old \in Tunnels \cup {NoTunnel}
      /\ main = "runs" => current = swap.new
  BY InvTypes DEF TunnelInv, SwapHolds, SwapStopsOld
<1>1. /\ swap' \in Swap /\ swap'.pc = "post" /\ swap'.new = swap.new /\ swap'.old = swap.old
      /\ UNCHANGED <<env, current, applied, failed, beat, main, rowUrl, dashboard, exits, revived>>
  BY <1>0 DEF SwapStopsOld, Swap
<1>2. /\ tun' \in [Tunnels -> Tunnel]
      /\ swap.old # NoTunnel => /\ tun'[swap.old].proc = "none" /\ tun'[swap.old].dog = tun[swap.old].dog
                                /\ tun'[swap.old].posted = tun[swap.old].posted
      /\ \A u \in Tunnels \ {swap.old} : tun'[u] = tun[u]
  BY <1>0, StoppedIs DEF SwapStopsOld
<1>3. SwapHolds'
  BY <1>0, <1>1, <1>2 DEF SwapHolds
<1>4. AllHeld'
  BY <1>0, <1>1, <1>2 DEF TunnelInv, AllHeld
<1>5. UrlTold'
  BY <1>0, <1>1, <1>2 DEF TunnelInv, UrlTold
<1>6. \A u \in Tunnels : tun'[u].dog = "posts" <=> tun'[u].posted # 0
  BY <1>0, <1>2 DEF TunnelInv, TunnelTypeOK
<1> QED
  BY <1>1, <1>2, <1>3, <1>4, <1>5, <1>6, SwapChanges DEF TunnelInv, TunnelTypeOK

LEMMA SwapEndKeeps ==
    ASSUME TunnelInv, NEW stored \in BOOLEAN, SwapEnds(stored)
    PROVE  TunnelInv'
<1>0. /\ tun \in [Tunnels -> Tunnel] /\ swap \in Swap /\ swap.pc = "post" /\ NoTunnel \notin Tunnels /\ NoSwap \in Swap
      /\ rowUrl \in AnyUrl /\ swap.url \in AnyUrl /\ swap.nonce \in Nonces /\ 0 \in Nonces
      /\ swap.old # NoTunnel => tun[swap.old].proc = "none" \/ swap.old \in revived
      /\ main = "runs" => current = swap.new
  BY InvTypes DEF TunnelInv, SwapHolds, SwapEnds
<1>1. /\ swap' = NoSwap /\ swap'.pc = "off" /\ swap'.new = NoTunnel /\ swap'.old = NoTunnel
      /\ UNCHANGED <<env, tun, current, beat, main, dashboard, exits, revived>>
  BY DEF SwapEnds, NoSwap
<1>2. rowUrl' \in AnyUrl /\ applied' \in Nonces /\ failed' \in [nonce : Nonces, wait : BOOLEAN]
  BY <1>0 DEF SwapEnds
<1>3. SwapHolds'
  BY <1>1 DEF SwapHolds
<1>4. AllHeld'
  BY <1>0, <1>1 DEF TunnelInv, AllHeld
<1>5. UrlTold'
  BY <1>0, <1>1 DEF TunnelInv, UrlTold
<1> QED
  BY <1>0, <1>1, <1>2, <1>3, <1>4, <1>5, SwapChanges DEF TunnelInv, TunnelTypeOK

-----------------------------------------------------------------------------
(* No stray tunnel: heartbeats, the main thread, the dashboard              *)

LEMMA TunnelsLeft ==
    ASSUME TunnelInv, TunnelTypeOK', UNCHANGED <<tun, current, swap, revived>>, main' = "runs" => main = "runs"
    PROVE  TunnelInv'
BY DEF TunnelInv, SwapHolds, AllHeld, UrlTold

LEMMA HeartbeatKeeps ==
    ASSUME TunnelInv, HeartbeatStep
    PROVE  TunnelInv'
<1>0. /\ TunnelTypeOK /\ tun \in [Tunnels -> Tunnel] /\ 0 \in AnyUrl /\ 0 \in Nonces /\ beat \in Beat /\ swap \in Swap
      /\ NoBeat \in Beat
  BY InvTypes DEF TunnelInv, TunnelTypeOK, NoBeat, Beat
<1>1. CASE Beats
  <2>1. CurrentUrl \in AnyUrl
    BY <1>0 DEF TunnelTypeOK, CurrentUrl, Tunnel
  <2>2. beat' \in Beat
    BY <1>0, <1>1, <2>1 DEF Beats, Beat
  <2> QED
    BY <1>0, <1>1, <2>2, TunnelsLeft DEF Beats, TunnelTypeOK, dashboard
<1>2. CASE BeatAnswered
  <2>1. beat' \in Beat /\ rowUrl' \in AnyUrl
    BY <1>0, <1>2 DEF BeatAnswered, Beat, TunnelTypeOK
  <2> QED
    BY <1>0, <1>2, <2>1, TunnelsLeft DEF BeatAnswered, TunnelTypeOK, dashboard
<1>3. CASE BeatLost
  BY <1>0, <1>3, TunnelsLeft DEF BeatLost, TunnelTypeOK, dashboard
<1>4. CASE RetryTime
  BY <1>0, <1>4, TunnelsLeft DEF RetryTime, TunnelTypeOK, dashboard
<1>5. CASE MaybeRestart
  <2>1. beat' \in Beat /\ beat.nonce \in Nonces
    BY <1>0, <1>5 DEF MaybeRestart, Beat
  <2>2. CASE swap' = swap
    BY <1>0, <1>5, <2>1, <2>2, TunnelsLeft DEF MaybeRestart, TunnelTypeOK, dashboard
  <2>3. CASE swap' # swap
    <3>1. swap.pc = "off" /\ swap' = [NoSwap EXCEPT !.pc = "fetch", !.nonce = beat.nonce]
      BY <1>5, <2>3 DEF MaybeRestart
    <3>2. swap' \in Swap /\ swap'.pc = "fetch" /\ swap'.new = NoTunnel /\ swap'.old = NoTunnel
      BY <2>1, <3>1, InvTypes DEF NoSwap, Swap
    <3>3. TunnelTypeOK'
      BY <1>0, <1>5, <2>1, <3>2 DEF MaybeRestart, TunnelTypeOK, dashboard
    <3>4. swap.new = NoTunnel /\ swap.old = NoTunnel
      BY <3>1 DEF TunnelInv, SwapHolds
    <3>5. SwapHolds' /\ AllHeld' /\ UrlTold'
      BY <1>5, <3>1, <3>2, <3>4 DEF MaybeRestart, TunnelInv, SwapHolds, AllHeld, UrlTold
    <3> QED
      BY <3>3, <3>5 DEF TunnelInv
  <2> QED
    BY <2>2, <2>3
<1> QED
  BY <1>1, <1>2, <1>3, <1>4, <1>5 DEF HeartbeatStep

LEMMA ManagerKeeps ==
    ASSUME TunnelInv, ManagerStops
    PROVE  TunnelInv'
<1>0. /\ tun \in [Tunnels -> Tunnel] /\ swap \in Swap /\ current \in Tunnels \cup {NoTunnel} /\ NoTunnel \notin Tunnels
      /\ swap.new \in Tunnels \cup {NoTunnel} /\ swap.old \in Tunnels \cup {NoTunnel}
  BY InvTypes
<1>1. /\ main' = "stopped" /\ current' = NoTunnel
      /\ UNCHANGED <<env, swap, applied, failed, beat, rowUrl, asked, nonces, edit, exits, revived>>
  BY DEF ManagerStops, worker, dashboard
<1>2. /\ tun' \in [Tunnels -> Tunnel]
      /\ current # NoTunnel => /\ tun'[current].proc = "none" /\ tun'[current].dog = tun[current].dog
                               /\ tun'[current].posted = tun[current].posted
      /\ \A u \in Tunnels \ {current} : tun'[u] = tun[u]
  BY <1>0, StoppedIs DEF ManagerStops
<1>3. TunnelTypeOK'
  BY <1>0, <1>1, <1>2 DEF TunnelInv, TunnelTypeOK
<1>4. SwapHolds'
  BY <1>0, <1>1, <1>2 DEF TunnelInv, SwapHolds
<1>5. AllHeld'
  BY <1>1 DEF AllHeld
<1>6. UrlTold'
  BY <1>0, <1>1, <1>2 DEF TunnelInv, UrlTold, SwapHolds
<1> QED
  BY <1>3, <1>4, <1>5, <1>6 DEF TunnelInv

LEMMA MainKeeps ==
    ASSUME TunnelInv, StopEvent \/ WorkerExits \/ RequestRestart \/ EditReads \/ EditWrites
    PROVE  TunnelInv'
<1>0. /\ UNCHANGED <<tun, current, swap, revived>> /\ (main' = "runs" => main = "runs")
  BY DEF StopEvent, WorkerExits, RequestRestart, EditReads, EditWrites, worker
<1>1. CASE StopEvent \/ WorkerExits
  BY <1>0, <1>1, TunnelsLeft DEF StopEvent, WorkerExits, TunnelInv, TunnelTypeOK, worker, dashboard
<1>2. CASE RequestRestart
  <2>1. nonces + 1 \in Nonces
    BY <1>2, TunnelAssumption DEF RequestRestart, TunnelInv, TunnelTypeOK, Nonces
  <2> QED
    BY <1>0, <1>2, <2>1, TunnelsLeft DEF RequestRestart, TunnelInv, TunnelTypeOK, worker
<1>3. CASE EditReads \/ EditWrites
  <2>1. edit' \in [reads : BOOLEAN, nonce : Nonces] /\ asked' \in Nonces
    <3>1. edit \in [reads : BOOLEAN, nonce : Nonces] /\ asked \in Nonces /\ 0 \in Nonces
      BY InvTypes DEF TunnelInv, TunnelTypeOK
    <3>2. CASE EditReads
      BY <3>1, <3>2 DEF EditReads
    <3>3. CASE EditWrites
      <4>1. edit.nonce \in Nonces
        BY <3>1
      <4> QED
        BY <3>1, <3>3, <4>1 DEF EditWrites
    <3> QED
      BY <1>3, <3>2, <3>3
  <2> QED
    BY <1>0, <1>3, <2>1, TunnelsLeft DEF EditReads, EditWrites, TunnelInv, TunnelTypeOK, worker
<1> QED
  BY <1>1, <1>2, <1>3

LEMMA TunnelStarts == TunnelInit => TunnelInv
<1> SUFFICES ASSUME TunnelInit PROVE TunnelInv
  OBVIOUS
<1>1. /\ 0 \in AnyUrl /\ 1 \in AnyUrl /\ 0 \in Nonces /\ 0 \in 0 .. MaxExits /\ First \in Tunnels /\ NoTunnel \notin Tunnels
  BY TunnelAssumption DEF AnyUrl, Nonces
<1>2. /\ NoSwap \in Swap /\ NoBeat \in Beat /\ Off \in Tunnel
      /\ [proc |-> "up", url |-> 1, dog |-> "waits", posted |-> 0] \in Tunnel
  BY <1>1 DEF NoSwap, Swap, NoBeat, Beat, Off, Tunnel
<1> DEFINE n == [proc |-> "up", url |-> 1, dog |-> "waits", posted |-> 0]
<1>3. /\ n.dog = "waits" /\ n.posted = 0
      /\ Off.dog = "off" /\ Off.posted = 0 /\ Off.proc = "none"
  BY DEF Off
<1>4. tun = [t \in Tunnels |-> IF t = First THEN n ELSE Off]
  BY DEF TunnelInit
<1>5. n \in Tunnel /\ Off \in Tunnel
  BY <1>2
<1> HIDE DEF n
<1>6. /\ tun \in [Tunnels -> Tunnel]
      /\ \A t \in Tunnels : tun[t].dog \in {"off", "waits"} /\ tun[t].posted = 0 /\ (t # First => tun[t].proc = "none")
  BY <1>3, <1>4, <1>5
<1>7. TunnelTypeOK
  <2>1. failed \in [nonce : Nonces, wait : BOOLEAN] /\ edit \in [reads : BOOLEAN, nonce : Nonces]
    BY <1>1 DEF TunnelInit
  <2>2. swap \in Swap /\ beat \in Beat /\ current \in Tunnels \cup {NoTunnel} /\ rowUrl \in AnyUrl /\ env \in Envs
        /\ applied \in Nonces /\ asked \in Nonces /\ nonces \in Nonces /\ exits \in 0 .. MaxExits
        /\ swap = NoSwap /\ main = "runs" /\ revived = {}
    BY <1>1, <1>2 DEF TunnelInit
  <2> QED
    BY <1>6, <2>1, <2>2 DEF TunnelTypeOK
<1>8. SwapHolds
  BY DEF TunnelInit, NoSwap, SwapHolds
<1>9. AllHeld
  BY <1>6 DEF TunnelInit, AllHeld
<1>10. UrlTold
  BY <1>6 DEF UrlTold
<1> QED
  BY <1>7, <1>8, <1>9, <1>10 DEF TunnelInv

LEMMA TunnelStays ==
    ASSUME TunnelInv, [TunnelNext]_tunnelVars
    PROVE  TunnelInv'
<1>1. ASSUME NEW t \in Tunnels, ProcessExits(t) \/ Watchdog(t) PROVE TunnelInv'
  BY <1>1, OneTunnelKeeps, RelaunchKeeps DEF Watchdog
<1>2. CASE SwapStep
  BY <1>2, SwapSpawnKeeps, SwapUrlKeeps, SwapFailKeeps, SwapCheckKeeps, SwapAdoptKeeps, SwapStopKeeps, SwapEndKeeps DEF SwapStep
<1>3. CASE UNCHANGED tunnelVars
  BY <1>3 DEF tunnelVars, worker, dashboard, TunnelInv, TunnelTypeOK, SwapHolds, AllHeld, UrlTold
<1> QED
  BY <1>1, <1>2, <1>3, HeartbeatKeeps, ManagerKeeps, MainKeeps DEF TunnelNext

\* Tunnels, the swap, the heartbeat and the row keep their types, for any number of tunnels.
THEOREM TunnelTyped == TunnelSpec => []TunnelTypeOK
<1>1. TunnelInit => TunnelInv
  BY TunnelStarts
<1>2. TunnelInv /\ [TunnelNext]_tunnelVars => TunnelInv'
  BY TunnelStays
<1>3. TunnelInv => TunnelTypeOK
  BY DEF TunnelInv
<1> QED
  BY <1>1, <1>2, <1>3, PTL DEF TunnelSpec

\* However tunnels end, are evicted, swapped, given up and started again by their watchdogs:
\* while the worker runs, one that is up has somebody who will stop it, unless its watchdog
\* slept when it was stopped.
THEOREM NoTunnelStrays == TunnelSpec => []NoStrayTunnel
<1>1. TunnelInit => TunnelInv
  BY TunnelStarts
<1>2. TunnelInv /\ [TunnelNext]_tunnelVars => TunnelInv'
  BY TunnelStays
<1>3. TunnelInv => NoStrayTunnel
  BY DEF TunnelInv, AllHeld, NoStrayTunnel
<1> QED
  BY <1>1, <1>2, <1>3, PTL DEF TunnelSpec

-----------------------------------------------------------------------------
(* Dispatch, for any rows, workers and browsers: what dispatch has read of   *)
(* the rows when it answers, and what ends a row that nobody works on.       *)

CONSTANTS Rows, Workers, Assigned, Dispatchers, Limit, MaxTriggers, LateRows
VARIABLES d_row, old, online, up, run, stray, triggers, disp

D == INSTANCE Dispatch WITH row <- d_row

LEMMA SameCount == ASSUME NEW S PROVE D!Cardinality(S) = Cardinality(S)
  BY DEF D!Cardinality, Cardinality

\* The page of the route holds every pending row that is in the table.
LEMMA PageHoldsAll ==
    ASSUME Rows \in Nat, Limit \in Nat, Rows <= Limit, NEW S, S \subseteq D!Downloads
    PROVE  D!Oldest(S, Limit) = S
<1>1. S \subseteq 1 .. Rows
  BY DEF D!Downloads
<1>2. ASSUME NEW d \in S
      PROVE  Cardinality({e \in S : e < d}) < Limit
  <2> DEFINE Others == (1 .. Rows) \ {d}
  <2>1. IsFiniteSet(1 .. Rows) /\ Cardinality(1 .. Rows) = Rows
    BY FS_Interval
  <2>2. d \in 1 .. Rows
    BY <1>1
  <2>3. IsFiniteSet(Others) /\ Cardinality(Others) = Rows - 1
    BY <2>1, <2>2, FS_RemoveElement
  <2>4. ASSUME NEW e \in S, e < d
        PROVE  e \in Others
    BY <1>1, <2>2, <2>4
  <2>5. {e \in S : e < d} \subseteq Others
    BY <2>4
  <2> HIDE DEF Others
  <2>6. IsFiniteSet({e \in S : e < d}) /\ Cardinality({e \in S : e < d}) <= Rows - 1
    BY <2>3, <2>5, FS_Subset
  <2>7. Cardinality({e \in S : e < d}) \in Nat
    BY <2>6, FS_CardinalityType
  <2> QED
    BY <2>6, <2>7
<1> QED
  BY <1>2, SameCount DEF D!Oldest

\* A request that has read the pending rows still holds each one that is pending.
PageIsCurrent == \A b \in Dispatchers : disp[b].pc = "busy" => D!Pending \subseteq disp[b].rows

LEMMA DispatchTypesStay ==
    ASSUME MaxTriggers \in Nat, Assigned \in [D!Downloads -> Workers], D!TypeOK, [D!Next]_(D!vars)
    PROVE  D!TypeOK'
<1> USE DEF D!TypeOK
<1>1. ASSUME NEW b \in Dispatchers, D!RouteStep(b)
      PROVE  D!TypeOK'
  <2>1. CASE D!ReadActive(b)
    BY <2>1 DEF D!ReadActive, D!Request, D!Active
  <2>2. CASE D!ReadHeartbeats(b)
    BY <2>2 DEF D!ReadHeartbeats, D!Request
  <2>3. CASE D!ReadPending(b)
    BY <2>3 DEF D!ReadPending, D!Request, D!Pending, D!Idle, D!Oldest
  <2>4. CASE D!ReadBusy(b)
    <3>1. {Assigned[d] : d \in D!Active} \subseteq Workers
      BY DEF D!Active
    <3> QED
      BY <2>4, <3>1 DEF D!ReadBusy, D!Request
  <2>5. CASE D!ChooseNone(b)
    BY <2>5 DEF D!ChooseNone, D!Request, D!Idle
  <2>6. ASSUME NEW d \in D!Downloads, D!MarkStuck(b, d)
        PROVE  D!TypeOK'
    BY <2>6 DEF D!MarkStuck, D!SetRow, D!Request, D!RowStatus
  <2> QED
    BY <1>1, <2>1, <2>2, <2>3, <2>4, <2>5, <2>6 DEF D!RouteStep
<1>2. ASSUME NEW b \in Dispatchers, NEW d \in D!Downloads, D!Choose(b, d) \/ D!SkipUnreachable(b, d)
      PROVE  D!TypeOK'
  BY <1>2 DEF D!Choose, D!SkipUnreachable, D!Request, D!Idle
<1>3. ASSUME NEW d \in D!Downloads,
             D!Accept(d) \/ D!TriggerFails(d) \/ D!ReportTimesOut(d) \/ D!RowAges(d)
      PROVE  D!TypeOK'
  <2>1. CASE D!Accept(d)
    BY <1>3, <2>1 DEF D!Accept, D!RunState
  <2>2. CASE D!TriggerFails(d)
    BY <1>3, <2>2 DEF D!TriggerFails
  <2>3. CASE D!ReportTimesOut(d)
    BY <1>3, <2>3 DEF D!ReportTimesOut, D!Reporting, D!Reports, D!Report, D!RowStatus
  <2>4. CASE D!RowAges(d)
    BY <1>3, <2>4 DEF D!RowAges
  <2> QED
    BY <1>3, <2>1, <2>2, <2>3, <2>4
<1>4. ASSUME NEW d \in D!Downloads, D!RunStep(d)
      PROVE  D!TypeOK'
  BY <1>4 DEF D!RunStep, D!ReportApplied, D!ReportGivenUp, D!TransferSucceeds, D!TransferFails,
              D!Reporting, D!Reports, D!AfterReport, D!SetRow, D!RowStatus, D!RunState
<1>5. ASSUME NEW r \in stray, D!StrayArrives(r)
      PROVE  D!TypeOK'
  BY <1>5 DEF D!StrayArrives, D!SetRow, D!Report
<1>6. ASSUME NEW w \in Workers, D!Crash(w) \/ D!Boot(w) \/ D!Heartbeat(w) \/ D!HeartbeatAges(w)
      PROVE  D!TypeOK'
  BY <1>6 DEF D!Crash, D!Boot, D!Heartbeat, D!HeartbeatAges, D!RunState
<1>7. ASSUME NEW rows \in SUBSET D!Active, D!BackendStarts(rows)
      PROVE  D!TypeOK'
  BY <1>7 DEF D!BackendStarts, D!RowStatus
<1>8. CASE UNCHANGED D!vars
  BY <1>8 DEF D!vars
<1> QED
  BY <1>1, <1>2, <1>3, <1>4, <1>5, <1>6, <1>7, <1>8 DEF D!Next

\* A row does not return to pending: no report and no mark says so.
LEMMA PendingShrinks ==
    ASSUME D!TypeOK, [D!Next]_(D!vars)
    PROVE  D!Pending' \subseteq D!Pending
<1>1. ASSUME NEW d \in D!Downloads, NEW s \in D!RowStatus \ {"pending"}, D!SetRow(d, s)
      PROVE  D!Pending' \subseteq D!Pending
  BY <1>1 DEF D!SetRow, D!Pending, D!TypeOK
<1>2. CASE UNCHANGED d_row
  BY <1>2 DEF D!Pending
<1>3. ASSUME NEW b \in Dispatchers, NEW d \in D!Downloads, D!MarkStuck(b, d)
      PROVE  D!Pending' \subseteq D!Pending
  BY <1>1, <1>3 DEF D!MarkStuck, D!RowStatus
<1>4. ASSUME NEW d \in D!Downloads, D!ReportApplied(d)
      PROVE  D!Pending' \subseteq D!Pending
  <2>1. D!Reports(d) \in D!RowStatus \ {"pending"}
    BY <1>4 DEF D!ReportApplied, D!Reporting, D!Reports, D!RowStatus
  <2> QED
    BY <1>1, <1>4, <2>1 DEF D!ReportApplied
<1>5. ASSUME NEW r \in stray, D!StrayArrives(r)
      PROVE  D!Pending' \subseteq D!Pending
  <2>1. r.id \in D!Downloads /\ r.status \in D!RowStatus \ {"pending"}
    BY DEF D!TypeOK, D!Report
  <2> QED
    BY <1>1, <1>2, <1>5, <2>1 DEF D!StrayArrives
<1>6. ASSUME NEW rows \in SUBSET D!Active, D!BackendStarts(rows)
      PROVE  D!Pending' \subseteq D!Pending
  BY <1>6 DEF D!BackendStarts, D!Pending
<1> QED
  BY <1>2, <1>3, <1>4, <1>5, <1>6
     DEF D!Next, D!RouteStep, D!ReadActive, D!ReadHeartbeats, D!ReadPending, D!ReadBusy,
         D!ChooseNone, D!Choose, D!SkipUnreachable, D!Accept, D!TriggerFails, D!RunStep,
         D!ReportGivenUp, D!TransferSucceeds, D!TransferFails, D!ReportTimesOut, D!RowAges,
         D!Crash, D!Boot, D!Heartbeat, D!HeartbeatAges, D!vars

LEMMA PageStays ==
    ASSUME Rows \in Nat, Limit \in Nat, Rows <= Limit, D!TypeOK, PageIsCurrent, [D!Next]_(D!vars)
    PROVE  PageIsCurrent'
<1>1. SUFFICES ASSUME NEW b \in Dispatchers, disp'[b].pc = "busy"
               PROVE  D!Pending' \subseteq disp'[b].rows
  BY DEF PageIsCurrent
<1>2. D!Pending' \subseteq D!Pending
  BY PendingShrinks
<1>3. D!Pending = D!Oldest(D!Pending, Limit)
  BY PageHoldsAll DEF D!Pending
<1>4. CASE D!ReadPending(b)
  BY <1>1, <1>2, <1>3, <1>4 DEF D!ReadPending, D!TypeOK, D!Idle
<1>5. CASE disp'[b] = disp[b]
  BY <1>1, <1>2, <1>5 DEF PageIsCurrent
<1>6. disp'[b] = disp[b] \/ D!ReadPending(b)
  <2>1. ASSUME NEW c \in Dispatchers,
               D!RouteStep(c) \/ \E d \in D!Downloads : D!Choose(c, d) \/ D!SkipUnreachable(c, d)
        PROVE  disp'[b] = disp[b] \/ D!ReadPending(b)
    <3>1. CASE c # b
      BY <2>1, <3>1 DEF D!RouteStep, D!ReadActive, D!ReadHeartbeats, D!ReadPending, D!ReadBusy,
                        D!ChooseNone, D!MarkStuck, D!Choose, D!SkipUnreachable, D!TypeOK
    <3>2. CASE c = b
      <4>1. disp \in [Dispatchers -> D!Request]
        BY DEF D!TypeOK
      <4>2. ~D!ReadActive(b) /\ ~D!ReadHeartbeats(b)
        BY <1>1, <4>1 DEF D!ReadActive, D!ReadHeartbeats, D!Request
      <4>3. ~D!ReadBusy(b) /\ ~D!ChooseNone(b)
        BY <1>1, <4>1 DEF D!ReadBusy, D!ChooseNone, D!Request, D!Idle
      <4>4. \A d \in D!Downloads : ~D!MarkStuck(b, d) /\ ~D!Choose(b, d) /\ ~D!SkipUnreachable(b, d)
        BY <1>1, <4>1 DEF D!MarkStuck, D!Choose, D!SkipUnreachable, D!Request, D!Idle
      <4> QED
        BY <2>1, <3>2, <4>2, <4>3, <4>4 DEF D!RouteStep
    <3> QED
      BY <3>1, <3>2
  <2> QED
    BY <2>1 DEF D!Next, D!Accept, D!TriggerFails, D!RunStep, D!ReportApplied, D!ReportGivenUp,
                D!TransferSucceeds, D!TransferFails, D!ReportTimesOut, D!RowAges, D!StrayArrives,
                D!BackendStarts, D!Crash, D!Boot, D!Heartbeat, D!HeartbeatAges, D!vars
<1> QED
  BY <1>4, <1>5, <1>6

LEMMA DispatchStarts ==
    ASSUME MaxTriggers \in Nat, D!Init
    PROVE  D!TypeOK /\ PageIsCurrent
  BY DEF D!Init, D!TypeOK, PageIsCurrent, D!Idle, D!Request, D!RowStatus, D!RunState

\* Rows, runs, reports and requests keep their types, for any number of rows, workers and browsers.
THEOREM DispatchTyped ==
    ASSUME MaxTriggers \in Nat, Assigned \in [D!Downloads -> Workers]
    PROVE  D!Spec => []D!TypeOK
<1>1. D!Init => D!TypeOK
  BY DispatchStarts
<1>2. D!TypeOK /\ [D!Next]_(D!vars) => D!TypeOK'
  BY DispatchTypesStay
<1> QED
  BY <1>1, <1>2, PTL DEF D!Spec

\* "Find the first pending download with an available destination" (dispatch/route.ts:134) holds
\* as long as the pending rows fit in the page that is read, whatever changes after the reading.
THEOREM PageSuffices ==
    ASSUME MaxTriggers \in Nat, Assigned \in [D!Downloads -> Workers],
           Rows \in Nat, Limit \in Nat, Rows <= Limit
    PROVE  D!Spec => []D!AvailableIsRead
<1>1. D!Init => D!TypeOK /\ PageIsCurrent
  BY DispatchStarts
<1>2. D!TypeOK /\ PageIsCurrent /\ [D!Next]_(D!vars) => (D!TypeOK /\ PageIsCurrent)'
  BY DispatchTypesStay, PageStays
<1>3. PageIsCurrent => D!AvailableIsRead
  BY DEF PageIsCurrent, D!AvailableIsRead
<1> QED
  BY <1>1, <1>2, <1>3, PTL DEF D!Spec

LEMMA OrphanSteps ==
    ASSUME D!TypeOK, [D!Next]_(D!vars), NEW d \in D!Downloads, D!Orphan(d), ~D!Orphan(d)'
    PROVE  \/ D!Accept(d)
           \/ \E b \in Dispatchers : D!MarkStuck(b, d)
           \/ \E rows \in SUBSET D!Active : D!BackendStarts(rows)
<1>1. D!Orphan(d)' = (/\ d_row'[d] = "downloading" /\ run'[d] = "idle" /\ \A r \in stray' : r.id # d)
  BY DEF D!Orphan
<1>2. d_row[d] = "downloading" /\ run[d] = "idle" /\ \A r \in stray : r.id # d
  BY DEF D!Orphan
<1>3. CASE UNCHANGED <<d_row, run, stray>>
  BY <1>1, <1>2, <1>3
<1>4. ASSUME NEW b \in Dispatchers, NEW e \in D!Downloads, D!MarkStuck(b, e)
      PROVE  d = e
  BY <1>1, <1>2, <1>4 DEF D!MarkStuck, D!SetRow, D!TypeOK
<1>5. ASSUME NEW e \in D!Downloads, D!Accept(e)
      PROVE  d = e
  BY <1>1, <1>2, <1>5 DEF D!Accept, D!TypeOK
<1>6. ASSUME NEW e \in D!Downloads, D!RunStep(e)
      PROVE  FALSE
  <2>1. run[e] # "idle" /\ run' = [run EXCEPT ![e] = run'[e]] /\ stray' = stray
    BY <1>6 DEF D!RunStep, D!ReportApplied, D!ReportGivenUp, D!TransferSucceeds, D!TransferFails,
                D!Reporting, D!TypeOK
  <2>2. e # d /\ run'[d] = run[d]
    BY <1>2, <2>1 DEF D!TypeOK
  <2>3. d_row'[d] = d_row[d]
    BY <1>6, <2>2 DEF D!RunStep, D!ReportApplied, D!ReportGivenUp, D!TransferSucceeds,
                      D!TransferFails, D!SetRow, D!TypeOK
  <2> QED
    BY <1>1, <1>2, <2>1, <2>2, <2>3
<1>7. ASSUME NEW e \in D!Downloads, D!ReportTimesOut(e)
      PROVE  FALSE
  BY <1>1, <1>2, <1>7 DEF D!ReportTimesOut, D!Reporting
<1>8. ASSUME NEW r \in stray, D!StrayArrives(r)
      PROVE  FALSE
  BY <1>1, <1>2, <1>8 DEF D!StrayArrives, D!SetRow, D!TypeOK
<1>9. ASSUME NEW w \in Workers, D!Crash(w)
      PROVE  FALSE
  BY <1>1, <1>2, <1>9 DEF D!Crash, D!TypeOK
<1> QED
  BY <1>3, <1>4, <1>5, <1>6, <1>7, <1>8, <1>9
     DEF D!Next, D!RouteStep, D!ReadActive, D!ReadHeartbeats, D!ReadPending, D!ReadBusy,
         D!ChooseNone, D!Choose, D!SkipUnreachable, D!TriggerFails, D!RowAges,
         D!Boot, D!Heartbeat, D!HeartbeatAges, D!vars

\* A row in downloading that nobody works on is freed by the marking of stuck rows, by a trigger
\* still under way, or by a server backend that starts, and by nothing else: not by a heartbeat or
\* by the worker's return (dispatch/route.ts:40-85), so that a worker that is never seen offline
\* stays busy with it.
THEOREM OrphanIsFreedBy ==
    ASSUME MaxTriggers \in Nat, Assigned \in [D!Downloads -> Workers]
    PROVE  D!Spec => [][\A d \in D!Downloads :
                D!Orphan(d) /\ ~D!Orphan(d)' =>
                    \/ D!Accept(d)
                    \/ \E b \in Dispatchers : D!MarkStuck(b, d)
                    \/ \E rows \in SUBSET D!Active : D!BackendStarts(rows)]_(D!vars)
<1>1. D!Init => D!TypeOK
  BY DispatchStarts
<1>2. D!TypeOK /\ [D!Next]_(D!vars) => D!TypeOK'
  BY DispatchTypesStay
<1>3. D!TypeOK /\ [D!Next]_(D!vars) =>
        [\A d \in D!Downloads :
            D!Orphan(d) /\ ~D!Orphan(d)' =>
                    \/ D!Accept(d)
                    \/ \E b \in Dispatchers : D!MarkStuck(b, d)
                    \/ \E rows \in SUBSET D!Active : D!BackendStarts(rows)]_(D!vars)
  BY OrphanSteps
<1> QED
  BY <1>1, <1>2, <1>3, PTL DEF D!Spec
=============================================================================

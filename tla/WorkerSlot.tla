----------------------------- MODULE WorkerSlot -----------------------------
(***************************************************************************)
(* The Python worker's download engine: the single task slot of server.py  *)
(* (_current_task), the cancel flags, the in-flight set of downloader.py   *)
(* and the download threads, one action per step between two points where  *)
(* another thread or an HTTP handler may run.                              *)
(*                                                                         *)
(* Handlers of server.py run on one event loop and do not await, so each   *)
(* is one step; a download thread interleaves with them and with the other *)
(* threads.  Row statuses change by the thread's status reports, which     *)
(* block the thread until the backend answers or the retries run out, by   *)
(* reports whose sender no longer waits, and by the backend, which marks a  *)
(* row failed that it has seen in progress.                                *)
(***************************************************************************)
EXTENDS Naturals, FiniteSets

CONSTANTS
    Downloads,      \* ids of download rows
    Torrents,       \* those of them whose downloadType is "torrent"
    Threads,        \* names of the threads that can be alive together
    Location,       \* config.download_location: "local" or "mega"
    MaxWrites,      \* bound: writes of rows under way that no thread waits for
    None            \* no id / no status

ASSUME WorkerSlotAssumption ==
    /\ Torrents \subseteq Downloads
    /\ None \notin Downloads
    /\ None \notin Threads
    /\ Location \in {"local", "mega"}
    /\ MaxWrites \in Nat

VARIABLES
    task,       \* _current_task: id and status keys of the dict
    cancel,     \* _cancel_flags: ids whose flag is TRUE
    active,     \* _active_download_ids
    thread,     \* what each download thread is doing
    staged,     \* .partial/<id>: the thread that created the directory
    delivered,  \* ids whose payload is published locally or uploaded
    row,        \* status column of file_downloads
    writes,     \* writes of rows under way that no thread waits for
    stopping    \* api.stop_event: the process is about to exit

vars == <<task, cancel, active, thread, staged, delivered, row, writes, stopping>>

Status == {"pending", "downloading", "uploading", "completed", "failed"}

Pcs == {"idle", "claim", "stage", "fill", "post", "aria2", "fetch", "transfer",
        "deliver", "upload", "abandon", "cleanup", "release", "finish"}

\* Reports that are made outside the try block of _process_*_download: an
\* exit out of them skips the cleanup of the staging directory and the slot.
Unguarded == {"aria2", "fetch", "abandon"}

Thread == [pc : Pcs, id : Downloads \cup {None},
           say : Status \cup {None}, then : Pcs]
Write == [id : Downloads, status : Status]

IdleThread == [pc |-> "idle", id |-> None, say |-> None, then |-> "idle"]

\* The dict is {} exactly when it is EmptyTask.  A status or progress key that
\* is written after another thread cleared the dict leaves a dict without id.
EmptyTask == [id |-> None, status |-> None]
Busy == task # EmptyTask
TaskStatus == Status \cup {None, "progress"}

IsTorrent(t) == thread[t].id \in Torrents
At(t, pc) == thread[t].pc = pc
Go(t, pc) == thread' = [thread EXCEPT ![t].pc = pc]
Report(t, status, next) ==
    thread' = [thread EXCEPT ![t] =
                  [@ EXCEPT !.pc = "post", !.say = status, !.then = next]]
SetStatus(status) == task' = [task EXCEPT !.status = status]

-----------------------------------------------------------------------------
(* Faulty variants of the actions below.  No run uses them as they stand: put *)
(* in the place of the action they make a property fail, which shows that the *)
(* property depends on that piece of the code.                                *)

\* mkdir(exist_ok) without the rmtree before it.
StageKeepsOld(t) ==
    /\ At(t, "stage")
    /\ staged' = [staged EXCEPT ![thread[t].id] = IF @ = None THEN t ELSE @]
    /\ Go(t, IF IsTorrent(t) THEN "transfer" ELSE "fill")
    /\ UNCHANGED <<task, cancel, active, delivered, row, writes, stopping>>

\* An upload without a handle counts as done.
UploadDoneUnchecked(t) ==
    /\ At(t, "upload")
    /\ SetStatus("completed")
    /\ Report(t, "completed", "cleanup")
    /\ UNCHANGED <<cancel, active, staged, delivered, row, writes, stopping>>

\* _run without its finally block.
FinishLeavesSlot(t) ==
    /\ At(t, "finish")
    /\ thread' = [thread EXCEPT ![t] = IdleThread]
    /\ UNCHANGED <<task, cancel, active, staged, delivered, row, writes, stopping>>

-----------------------------------------------------------------------------
(* HTTP handlers of server.py *)

\* POST /download with an empty slot: accepted, a thread is spawned.  With the
\* slot taken the answer is alreadyRunning or 409 and nothing changes.
Trigger(d, t) ==
    /\ ~Busy
    /\ At(t, "idle")
    /\ thread' = [thread EXCEPT ![t] =
                     [pc |-> "claim", id |-> d, say |-> None, then |-> "idle"]]
    /\ UNCHANGED <<task, cancel, active, staged, delivered, row, writes, stopping>>

\* DELETE /download/{id}: 404 unless the slot holds that id.
Cancel(d) ==
    /\ task.id = d
    /\ cancel' = cancel \cup {d}
    /\ UNCHANGED <<task, active, thread, staged, delivered, row, writes, stopping>>

-----------------------------------------------------------------------------
(* The download thread *)

\* _claim_download_run succeeds.
ClaimRun(t) ==
    /\ At(t, "claim")
    /\ thread[t].id \notin active
    /\ active' = active \cup {thread[t].id}
    /\ Go(t, IF IsTorrent(t) THEN "fill" ELSE "stage")
    /\ UNCHANGED <<task, cancel, staged, delivered, row, writes, stopping>>

\* The id is already in flight: process_*_download returns at once.
RefuseDuplicate(t) ==
    /\ At(t, "claim")
    /\ thread[t].id \in active
    /\ Go(t, "finish")
    /\ UNCHANGED <<task, cancel, active, staged, delivered, row, writes, stopping>>

\* _partial_dir: the directory of the id is removed and made again.  An HTTP
\* run does it before it fills the slot, a torrent run after aria2c is found.
Stage(t) ==
    /\ At(t, "stage")
    /\ staged' = [staged EXCEPT ![thread[t].id] = t]
    /\ Go(t, IF IsTorrent(t) THEN "transfer" ELSE "fill")
    /\ UNCHANGED <<task, cancel, active, delivered, row, writes, stopping>>

\* The directory cannot be made.  Both handlers call _partial_dir outside
\* their try block, so the finally block that empties the slot is not reached.
StageFailed(t) ==
    /\ At(t, "stage")
    /\ staged' = [staged EXCEPT ![thread[t].id] = None]
    /\ Go(t, "release")
    /\ UNCHANGED <<task, cancel, active, delivered, row, writes, stopping>>

\* current_task.update(...), then the report "downloading".
FillSlot(t) ==
    /\ At(t, "fill")
    /\ task' = [id |-> thread[t].id, status |-> "downloading"]
    /\ Report(t, "downloading", IF IsTorrent(t) THEN "aria2" ELSE "fetch")
    /\ UNCHANGED <<cancel, active, staged, delivered, row, writes, stopping>>

Aria2Found(t) ==
    /\ At(t, "aria2")
    /\ Go(t, "stage")
    /\ UNCHANGED <<task, cancel, active, staged, delivered, row, writes, stopping>>

Aria2Missing(t) ==
    /\ At(t, "aria2")
    /\ SetStatus("failed")
    /\ Report(t, "failed", "abandon")
    /\ UNCHANGED <<cancel, active, staged, delivered, row, writes, stopping>>

\* The early return for a missing aria2c clears the slot itself.
Abandon(t) ==
    /\ At(t, "abandon")
    /\ task' = EmptyTask
    /\ Go(t, "release")
    /\ UNCHANGED <<cancel, active, staged, delivered, row, writes, stopping>>

\* requests.get answers with a success status.
Fetch(t) ==
    /\ At(t, "fetch")
    /\ Go(t, "transfer")
    /\ UNCHANGED <<task, cancel, active, staged, delivered, row, writes, stopping>>

\* One chunk of the body, or one line of aria2c: the cancel flag is read first
\* and, unless it is set, the progress key is written.
Chunk(t) ==
    /\ At(t, "transfer")
    /\ thread[t].id \notin cancel
    /\ task' = IF Busy THEN task ELSE [task EXCEPT !.status = "progress"]
    /\ UNCHANGED <<cancel, active, thread, staged, delivered, row, writes, stopping>>

\* _is_cancelled in the transfer loop or in the upload's progress callback:
\* the flag is consumed by the reading, the run reports "failed".
NoticeCancel(t) ==
    /\ thread[t].pc \in {"transfer", "upload"}
    /\ thread[t].id \in cancel
    /\ cancel' = cancel \ {thread[t].id}
    /\ SetStatus("failed")
    /\ Report(t, "failed", "cleanup")
    /\ UNCHANGED <<active, staged, delivered, row, writes, stopping>>

\* The whole payload is staged; nothing reads the flag between the last chunk
\* and the delivery.
TransferDone(t) ==
    /\ At(t, "transfer")
    /\ Go(t, "deliver")
    /\ UNCHANGED <<task, cancel, active, staged, delivered, row, writes, stopping>>

\* Any exception inside the try block, the manifest of a payload that is
\* already published included.  Only the torrent handler writes the status key.
TransferError(t) ==
    /\ thread[t].pc \in {"fetch", "transfer", "deliver"}
    /\ \/ delivered' = delivered
       \/ /\ At(t, "deliver")
          /\ Location = "local"
          /\ delivered' = delivered \cup {thread[t].id}
    /\ IF IsTorrent(t) THEN SetStatus("failed") ELSE task' = task
    /\ Report(t, "failed", "cleanup")
    /\ UNCHANGED <<cancel, active, staged, row, writes, stopping>>

\* Location local: the staged files are moved into the downloads folder.
Publish(t) ==
    /\ At(t, "deliver")
    /\ Location = "local"
    /\ staged[thread[t].id] = t
    /\ delivered' = delivered \cup {thread[t].id}
    /\ SetStatus("completed")
    /\ Report(t, "completed", "cleanup")
    /\ UNCHANGED <<cancel, active, staged, row, writes, stopping>>

\* Location mega: the slot shows "uploading" and the backend is told.
StartUpload(t) ==
    /\ At(t, "deliver")
    /\ Location = "mega"
    /\ SetStatus("uploading")
    /\ Report(t, "uploading", "upload")
    /\ UNCHANGED <<cancel, active, staged, delivered, row, writes, stopping>>

\* The progress callback of the upload, flag not set.
UploadChunk(t) ==
    /\ At(t, "upload")
    /\ thread[t].id \notin cancel
    /\ SetStatus("uploading")
    /\ UNCHANGED <<cancel, active, thread, staged, delivered, row, writes, stopping>>

\* The upload succeeds.  A torrent that left no file counts as uploaded.
UploadDone(t) ==
    /\ At(t, "upload")
    /\ \/ /\ staged[thread[t].id] = t
          /\ delivered' = delivered \cup {thread[t].id}
       \/ /\ IsTorrent(t)
          /\ delivered' = delivered
    /\ SetStatus("completed")
    /\ Report(t, "completed", "cleanup")
    /\ UNCHANGED <<cancel, active, staged, row, writes, stopping>>

\* No handle came back.  _upload_torrent_files_to_mega reports the failure
\* without touching the slot.
UploadFailed(t) ==
    /\ At(t, "upload")
    /\ IF IsTorrent(t) THEN task' = task ELSE SetStatus("failed")
    /\ Report(t, "failed", "cleanup")
    /\ UNCHANGED <<cancel, active, staged, delivered, row, writes, stopping>>

\* api.status_update: the backend applies the report ...
PostApplied(t) ==
    /\ At(t, "post")
    /\ row' = [row EXCEPT ![thread[t].id] = thread[t].say]
    /\ Go(t, thread[t].then)
    /\ UNCHANGED <<task, cancel, active, staged, delivered, writes, stopping>>

\* ... or does not answer in time: the request is still on its way when _post
\* sends the report again ...
PostTimesOut(t) ==
    /\ At(t, "post")
    /\ Cardinality(writes) < MaxWrites
    /\ writes' = writes \cup {[id |-> thread[t].id, status |-> thread[t].say]}
    /\ UNCHANGED <<task, cancel, active, thread, staged, delivered, row, stopping>>

\* ... or every attempt fails and the thread goes on regardless ...
PostLost(t) ==
    /\ At(t, "post")
    /\ Go(t, thread[t].then)
    /\ UNCHANGED <<task, cancel, active, staged, delivered, row, writes, stopping>>

\* ... or the backend answers 401: stop_event is set and sys.exit unwinds the
\* thread, past every except clause.
PostRejected(t) ==
    /\ At(t, "post")
    /\ stopping' = TRUE
    /\ Go(t, IF thread[t].then \in Unguarded THEN "release" ELSE "cleanup")
    /\ UNCHANGED <<task, cancel, active, staged, delivered, row, writes>>

\* The finally block: the staging directory goes, the slot is emptied.
Cleanup(t) ==
    /\ At(t, "cleanup")
    /\ staged' = [staged EXCEPT ![thread[t].id] = None]
    /\ task' = EmptyTask
    /\ Go(t, "release")
    /\ UNCHANGED <<cancel, active, delivered, row, writes, stopping>>

\* _release_download_run.
Release(t) ==
    /\ At(t, "release")
    /\ active' = active \ {thread[t].id}
    /\ Go(t, "finish")
    /\ UNCHANGED <<task, cancel, staged, delivered, row, writes, stopping>>

\* The finally block of _run in server.py empties the slot if it holds the id.
Finish(t) ==
    /\ At(t, "finish")
    /\ task' = IF task.id = thread[t].id THEN EmptyTask ELSE task
    /\ thread' = [thread EXCEPT ![t] = IdleThread]
    /\ UNCHANGED <<cancel, active, staged, delivered, row, writes, stopping>>

-----------------------------------------------------------------------------
(* The backend *)

\* A row is read as in progress and is going to be marked failed by its id: by
\* dispatch, or by a server backend that starts and takes it for its own.
BackendMarks(d) ==
    /\ row[d] \in {"downloading", "uploading"}
    /\ Cardinality(writes) < MaxWrites
    /\ writes' = writes \cup {[id |-> d, status |-> "failed"]}
    /\ UNCHANGED <<task, cancel, active, thread, staged, delivered, row, stopping>>

\* A write that was under way is applied, whatever the row holds by now, or is
\* lost.
WriteArrives(w) ==
    /\ w \in writes
    /\ row' = row \/ row' = [row EXCEPT ![w.id] = w.status]
    /\ writes' = writes \ {w}
    /\ UNCHANGED <<task, cancel, active, thread, staged, delivered, stopping>>

\* The process ends (stop_event, a crash, a closed notebook) and is started
\* again: memory is lost, the staging directories stay on the disk.
Restart ==
    /\ task' = EmptyTask
    /\ cancel' = {}
    /\ active' = {}
    /\ thread' = [t \in Threads |-> IdleThread]
    /\ staged' = [d \in Downloads |-> IF staged[d] = None THEN None ELSE "stale"]
    /\ stopping' = FALSE
    /\ UNCHANGED <<delivered, row, writes>>

-----------------------------------------------------------------------------
Init ==
    /\ task = EmptyTask
    /\ cancel = {}
    /\ active = {}
    /\ thread = [t \in Threads |-> IdleThread]
    /\ staged = [d \in Downloads |-> None]
    /\ delivered = {}
    /\ row = [d \in Downloads |-> "pending"]
    /\ writes = {}
    /\ stopping = FALSE

\* Steps that end a phase of a run.
AdvanceStep(t) ==
    \/ ClaimRun(t) \/ RefuseDuplicate(t) \/ Stage(t) \/ StageFailed(t)
    \/ FillSlot(t)
    \/ Aria2Found(t) \/ Aria2Missing(t) \/ Abandon(t) \/ Fetch(t)
    \/ NoticeCancel(t) \/ TransferDone(t) \/ TransferError(t)
    \/ Publish(t) \/ StartUpload(t) \/ UploadDone(t) \/ UploadFailed(t)
    \/ PostApplied(t) \/ PostLost(t) \/ PostRejected(t)
    \/ Cleanup(t) \/ Release(t) \/ Finish(t)

ThreadStep(t) == AdvanceStep(t) \/ Chunk(t) \/ UploadChunk(t) \/ PostTimesOut(t)

Next ==
    \/ \E d \in Downloads, t \in Threads : Trigger(d, t)
    \/ \E d \in Downloads : Cancel(d) \/ BackendMarks(d)
    \/ \E t \in Threads : ThreadStep(t)
    \/ \E w \in writes : WriteArrives(w)
    \/ Restart

\* worker.run leaves its wait loop when stop_event is set.
Exit == stopping /\ Restart

\* Every phase of a run is bounded in time: requests.get has a timeout,
\* aria2c a --bt-stop-timeout, _post a number of retries.  The main loop looks
\* at stop_event every 60 seconds.
Fairness == WF_vars(Exit) /\ \A t \in Threads : WF_vars(AdvanceStep(t))

Spec == Init /\ [][Next]_vars
FairSpec == Spec /\ Fairness

-----------------------------------------------------------------------------
(* Refinement: the in-flight set implements the abstract runs. *)

R == INSTANCE Runs WITH
        running <- active,
        late <- writes,
        MayBeEmpty <- IF Location = "mega" THEN Torrents ELSE {}

\* The worker, however its threads interleave, keeps the promise of Runs: a
\* claimed id is an exclusive run; a row gets a status only from a report of a
\* run, at once or later, or the mark "failed" of the backend; and "completed"
\* is only ever reported, however late it arrives, of what is delivered
\* (downloader.py:31-49, 175-248, 359-596; api.py:22-47).
ImplementsRuns == R!RunsSpec

-----------------------------------------------------------------------------
(* Correctness *)

TypeOK ==
    /\ task \in [id : Downloads \cup {None}, status : TaskStatus]
    /\ cancel \subseteq Downloads
    /\ active \subseteq Downloads
    /\ thread \in [Threads -> Thread]
    /\ staged \in [Downloads -> Threads \cup {None, "stale"}]
    /\ delivered \subseteq Downloads
    /\ row \in [Downloads -> Status]
    /\ writes \subseteq Write
    /\ stopping \in BOOLEAN

\* A thread between _claim_download_run and _release_download_run.
HasClaim(t) == thread[t].pc \in Pcs \ {"idle", "claim", "finish"}

\* A thread that has filled the slot and will empty it in its own clean-up.
WillClear(t) ==
    \/ thread[t].pc \in {"aria2", "fetch", "transfer", "deliver", "upload",
                         "post", "abandon", "cleanup"}
    \/ At(t, "stage") /\ IsTorrent(t)

\* A thread between the creation and the removal of its staging directory.
UsesStaging(t) ==
    \/ thread[t].pc \in {"transfer", "deliver", "upload", "cleanup", "fetch"}
    \/ At(t, "fill") /\ ~IsTorrent(t)
    \/ At(t, "post") /\ thread[t].then \notin {"aria2", "abandon"}

\* The in-flight set names exactly the runs that exist (downloader.py:33-49):
\* no run is forgotten and no finished id blocks a later start.
InFlightSetExact == active = {thread[t].id : t \in {u \in Threads : HasClaim(u)}}

\* However start requests race, two runs of one id never exist together
\* (downloader.py:31-33, the promise of the in-flight set).
OneRunPerDownload ==
    \A t, u \in Threads :
        HasClaim(t) /\ HasClaim(u) /\ thread[t].id = thread[u].id => t = u

\* What a run transfers, publishes or uploads lies in a directory it made
\* itself: neither another run nor a crash left it there (downloader.py:66-72).
StagingIsOwn ==
    \A t \in Threads : UsesStaging(t) => staged[thread[t].id] = t

\* The slot is never latched (server.py:886-889): whenever it is taken there is
\* a thread that will still empty it, whichever way its run ends.  The process
\* that gives up on a 401 may leave it taken, for the minute it still has.
SlotHasOwner ==
    Busy /\ ~stopping => \E t \in Threads :
                \/ WillClear(t)
                \/ thread[t].pc \in {"release", "finish"} /\ thread[t].id = task.id

\* The backend shows a download as completed only after its payload was
\* published or uploaded.  A torrent without files on a MEGA worker is the
\* exception downloader.py:609-611 makes on purpose.
CompletedIsDelivered ==
    \A d \in Downloads :
        row[d] = "completed" =>
            d \in delivered \/ (Location = "mega" /\ d \in Torrents)

\* server.py:846 "Only one task may run at a time."
OneTaskAtATime ==
    \A t, u \in Threads : HasClaim(t) /\ HasClaim(u) => t = u
=============================================================================

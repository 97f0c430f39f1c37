------------------------------ MODULE Renders ------------------------------
(***************************************************************************)
(* The pre-render store of one file on the worker: requests that queue,   *)
(* cancel and delete renders, the one dispatcher thread that runs them,    *)
(* the directories of the qualities, the shared audio, and the manifest.   *)
(*                                                                         *)
(* The encode of the video is Playback's; here it succeeds or fails.  What *)
(* is done under `_lock' is one step.  One source signature is modelled.   *)
(* A job that has ended is kept by the code to be shown; here it is gone.  *)
(***************************************************************************)
EXTENDS Naturals, FiniteSets, Sequences

CONSTANTS
    Qualities,      \* quality ids of the file
    Deleters,       \* delete requests that can be open at one time
    LastRendered,   \* index of the last segment
    MaxJobs         \* bound: RenderJob objects that exist at one time

ASSUME RendersAssumption == LastRendered \in Nat /\ MaxJobs \in Nat

RenderSegments == 0 .. LastRendered
Ids == 1 .. MaxJobs

VARIABLES
    job,        \* the RenderJob objects
    jobs,       \* _jobs: the job of a quality, or 0
    queue,      \* _queue
    disp,       \* the dispatcher: its step, its job, and segments published
    deleter,    \* delete requests: the step, the quality and what is to be removed
    dirs,       \* qualities that have a directory
    segs,       \* segment files in it
    audio,      \* the audio directory, with the last segments of its tracks
    staged,     \* the temporary audio directory
    manifest,   \* manifest.json: whether it is there, its qualities, audioReady
    raced,      \* a delete and a render overlapped, or the removal of the whole store
                \* was cut short (history)
    torn        \* qualities whose removal was cut short with the last segment left (history)

renderVars == <<job, jobs, queue, disp, deleter, dirs, segs, audio, staged, manifest, raced, torn>>
store == <<dirs, segs, audio, staged, manifest>>

-----------------------------------------------------------------------------
NoJob == [q |-> "none", state |-> "none", cancel |-> FALSE]
Idle == [pc |-> "idle", id |-> 0, next |-> 0]
NoDelete == [pc |-> "idle", q |-> "none", names |-> {}]
NoManifest == [there |-> FALSE, qualities |-> {}, audio |-> FALSE]

Active == {i \in Ids : job[i].state \in {"queued", "rendering"}}
Free == {i \in Ids : job[i] = NoJob}

\* _quality_ready looks at the last segment only.
QualityReady(q) == q \in manifest.qualities /\ LastRendered \in segs[q]
AudioReady == manifest.audio /\ audio

\* Its files are removed one by one, by a delete or for a new render.
BeingRemoved(q) ==
    \/ disp.pc = "clear" /\ job[disp.id].q = q
    \/ \E d \in Deleters : deleter[d].pc = "remove" /\ deleter[d].q = q

\* History: when the two overlap, no more is said of the store.
Overlap(now) ==
    /\ raced' = (raced \/ now)
    /\ torn' = IF raced' THEN {} ELSE torn

-----------------------------------------------------------------------------
(* Requests.                                                               *)

\* start loads the manifest before it takes the lock: a quality that was listed
\* since then is queued again although it is ready.
StartRender(q) ==
    /\ jobs[q] \notin Active
    /\ \E i \in Free :
        /\ \A k \in Free : i <= k
        /\ job' = [job EXCEPT ![i] = [q |-> q, state |-> "queued", cancel |-> FALSE]]
        /\ jobs' = [jobs EXCEPT ![q] = i]
        /\ queue' = Append(queue, i)
    /\ UNCHANGED <<disp, deleter, store, raced, torn>>

\* The flag of a job that has ended is read by nobody.
Cancel(q) ==
    LET i == jobs[q]
    IN  /\ i \in Active
        /\ ~job[i].cancel
        /\ IF job[i].state = "queued"
           THEN /\ job' = [job EXCEPT ![i].cancel = TRUE, ![i].state = "canceled"]
                /\ jobs' = [jobs EXCEPT ![q] = 0]
           ELSE /\ job' = [job EXCEPT ![i].cancel = TRUE]
                /\ UNCHANGED jobs
        /\ UNCHANGED <<queue, disp, deleter, store, raced, torn>>

\* delete goes on when no job of the file is queued or rendering.
DeleteTests(d, q) ==
    /\ deleter[d] = NoDelete
    /\ \A p \in Qualities : jobs[p] \notin Active
    /\ deleter' = [deleter EXCEPT ![d] = [pc |-> "scan", q |-> q, names |-> {}]]
    /\ Overlap(disp # Idle /\ ~job[disp.id].cancel)
    /\ UNCHANGED <<job, jobs, queue, disp, store>>

\* rmtree of the quality, outside the lock: its names, its files one by one in
\* any order, the directory if nothing is left in it.
DeleteScans(d) ==
    /\ deleter[d].pc = "scan"
    /\ deleter' = [deleter EXCEPT ![d].pc = "remove", ![d].names = segs[deleter[d].q]]
    /\ UNCHANGED <<job, jobs, queue, disp, store, raced, torn>>

DeleteRemoves(d) ==
    /\ deleter[d].pc = "remove"
    /\ \E i \in deleter[d].names :
        /\ segs' = [segs EXCEPT ![deleter[d].q] = @ \ {i}]
        /\ deleter' = [deleter EXCEPT ![d].names = @ \ {i}]
    /\ UNCHANGED <<job, jobs, queue, disp, dirs, audio, staged, manifest, raced, torn>>

DeleteEmpties(d) ==
    /\ deleter[d].pc = "remove" /\ deleter[d].names = {}
    /\ dirs' = IF segs[deleter[d].q] = {} THEN dirs \ {deleter[d].q} ELSE dirs
    /\ deleter' = [deleter EXCEPT ![d].pc = "unlist"]
    /\ UNCHANGED <<job, jobs, queue, disp, segs, audio, staged, manifest, raced, torn>>

\* The manifest forgets the quality; without any the whole store goes, under the lock.
DeleteUnlists(d) ==
    LET q == deleter[d].q
        rest == manifest.qualities \ {q}
        gone == manifest.there /\ rest = {}
    IN  /\ deleter[d].pc = "unlist"
        /\ manifest' = IF gone THEN NoManifest ELSE [manifest EXCEPT !.qualities = rest]
        /\ dirs' = IF gone THEN {} ELSE dirs
        /\ segs' = IF gone THEN [p \in Qualities |-> {}] ELSE segs
        /\ audio' = (audio /\ ~gone)
        /\ staged' = (staged /\ ~gone)
        /\ jobs' = [jobs EXCEPT ![q] = 0]
        /\ deleter' = [deleter EXCEPT ![d] = NoDelete]
        /\ UNCHANGED <<job, queue, disp, raced, torn>>

-----------------------------------------------------------------------------
(* The dispatcher.  An exception of a job is the end of that job only.     *)

Step(pc) == disp' = [disp EXCEPT !.pc = pc]
Mine == job[disp.id]
Without(i) ==
    /\ job' = [job EXCEPT ![i] = NoJob]
    /\ jobs' = [q \in Qualities |-> IF jobs[q] = i THEN 0 ELSE jobs[q]]
LeavesQueue == Without(disp.id) /\ disp' = Idle

Take ==
    /\ disp = Idle /\ queue # <<>>
    /\ LET i == Head(queue)
       IN  IF job[i].cancel
           THEN Without(i) /\ UNCHANGED disp
           ELSE disp' = [pc |-> "begin", id |-> i, next |-> 0] /\ UNCHANGED <<job, jobs>>
    /\ queue' = Tail(queue)
    /\ Overlap(~job[Head(queue)].cancel /\ deleter # [d \in Deleters |-> NoDelete])
    /\ UNCHANGED <<deleter, store>>

\* The state is set without the lock, whatever a cancel has made of it.
Begin ==
    /\ disp.pc = "begin"
    /\ job' = [job EXCEPT ![disp.id].state = "rendering"]
    /\ Step("video")
    /\ UNCHANGED <<jobs, queue, deleter, store, raced, torn>>

Canceled ==
    /\ disp.pc \in {"video", "stage", "publish"} /\ Mine.cancel
    /\ LeavesQueue
    /\ staged' = FALSE
    /\ UNCHANGED <<queue, deleter, dirs, segs, audio, manifest, raced, torn>>

\* Faulty variant: a job that fails takes the dispatcher thread with it.
FailsForGood ==
    /\ disp.pc \in {"video", "stage", "replace", "publish"}
    /\ Step("dead")
    /\ staged' = FALSE
    /\ UNCHANGED <<job, jobs, queue, deleter, dirs, segs, audio, manifest, raced, torn>>

\* The source changed, an encoder failed, a disk is full, a directory is gone.
Fails ==
    /\ disp.pc \in {"video", "stage", "replace", "publish"}
    /\ LeavesQueue
    /\ staged' = FALSE
    /\ UNCHANGED <<queue, deleter, dirs, segs, audio, manifest, raced, torn>>

Video ==
    /\ disp.pc = "video" /\ ~Mine.cancel
    /\ Step("audio")
    /\ UNCHANGED <<job, jobs, queue, deleter, store, raced, torn>>

\* _ensure_audio: rendered once for all the qualities.
AudioThere ==
    /\ disp.pc = "audio" /\ AudioReady
    /\ Step("clear")
    /\ UNCHANGED <<job, jobs, queue, deleter, store, raced, torn>>

\* Faulty variant: the audio is left to a later render.
AudioLater ==
    /\ disp.pc = "audio" /\ ~AudioReady
    /\ Step("clear")
    /\ UNCHANGED <<job, jobs, queue, deleter, store, raced, torn>>

AudioMissing ==
    /\ disp.pc = "audio" /\ ~AudioReady
    /\ staged' = TRUE
    /\ Step("stage")
    /\ UNCHANGED <<job, jobs, queue, deleter, dirs, segs, audio, manifest, raced, torn>>

\* What rmtree leaves of the old directory on its way is not ready either: the manifest
\* does not name it, or a last segment is missing.
AudioStaged ==
    /\ disp.pc = "stage" /\ staged /\ ~Mine.cancel
    /\ audio' = FALSE
    /\ Step("replace")
    /\ UNCHANGED <<job, jobs, queue, deleter, dirs, segs, staged, manifest, raced, torn>>

AudioReplaced ==
    /\ disp.pc = "replace" /\ staged
    /\ audio' = TRUE /\ staged' = FALSE
    /\ Step("list audio")
    /\ UNCHANGED <<job, jobs, queue, deleter, dirs, segs, manifest, raced, torn>>

AudioListed ==
    /\ disp.pc = "list audio"
    /\ manifest' = [manifest EXCEPT !.there = TRUE, !.audio = TRUE]
    /\ Step("clear")
    /\ UNCHANGED <<job, jobs, queue, deleter, dirs, segs, audio, staged, raced, torn>>

\* _publish_quality: the files of the destination are removed one by one in any order,
\* it is made again, filled in order, and listed.
ClearRemoves ==
    /\ disp.pc = "clear"
    /\ \E i \in segs[Mine.q] : segs' = [segs EXCEPT ![Mine.q] = @ \ {i}]
    /\ UNCHANGED <<job, jobs, queue, disp, deleter, dirs, audio, staged, manifest, raced, torn>>

Clear ==
    /\ disp.pc = "clear" /\ segs[Mine.q] = {}
    /\ dirs' = dirs \cup {Mine.q}
    /\ torn' = torn \ {Mine.q}
    /\ disp' = [disp EXCEPT !.pc = "publish", !.next = 0]
    /\ UNCHANGED <<job, jobs, queue, deleter, segs, audio, staged, manifest, raced>>

Publish ==
    /\ disp.pc = "publish" /\ ~Mine.cancel /\ Mine.q \in dirs
    /\ segs' = [segs EXCEPT ![Mine.q] = @ \cup {disp.next}]
    /\ disp' = [disp EXCEPT !.pc = IF disp.next = LastRendered THEN "list" ELSE @,
                            !.next = IF disp.next = LastRendered THEN 0 ELSE @ + 1]
    /\ UNCHANGED <<job, jobs, queue, deleter, dirs, audio, staged, manifest, raced, torn>>

List ==
    /\ disp.pc = "list"
    /\ manifest' = [manifest EXCEPT !.there = TRUE, !.qualities = @ \cup {Mine.q}]
    /\ Step("finish")
    /\ UNCHANGED <<job, jobs, queue, deleter, dirs, segs, audio, staged, raced, torn>>

Finish ==
    /\ disp.pc = "finish"
    /\ LeavesQueue
    /\ UNCHANGED <<queue, deleter, store, raced, torn>>

\* The worker ends and starts again: only the disk is left.
Stops ==
    /\ job' = [i \in Ids |-> NoJob]
    /\ jobs' = [q \in Qualities |-> 0]
    /\ queue' = <<>>
    /\ disp' = Idle
    /\ deleter' = [d \in Deleters |-> NoDelete]
    /\ staged' = FALSE

Restart ==
    /\ Stops
    /\ torn' = torn \cup {q \in Qualities : /\ ~raced /\ BeingRemoved(q)
                                           /\ LastRendered \in segs[q] /\ segs[q] # RenderSegments}
    /\ UNCHANGED <<dirs, segs, audio, manifest, raced>>

\* It ends while a delete removes the whole store: anything of it may be left.
StoreCutShort(d) ==
    /\ deleter[d].pc = "unlist"
    /\ manifest.there /\ manifest.qualities \subseteq {deleter[d].q}
    /\ Stops
    /\ dirs' \in SUBSET dirs
    /\ segs' \in {s \in [Qualities -> SUBSET RenderSegments] :
                    \A q \in Qualities : s[q] \subseteq segs[q] /\ (q \notin dirs' => s[q] = {})}
    /\ audio' \in {audio, FALSE} /\ manifest' \in {manifest, NoManifest}
    /\ Overlap(TRUE)

-----------------------------------------------------------------------------
RendersInit ==
    /\ job = [i \in Ids |-> NoJob]
    /\ jobs = [q \in Qualities |-> 0]
    /\ queue = <<>>
    /\ disp = Idle
    /\ deleter = [d \in Deleters |-> NoDelete]
    /\ dirs = {} /\ segs = [q \in Qualities |-> {}]
    /\ audio = FALSE /\ staged = FALSE
    /\ manifest = NoManifest
    /\ raced = FALSE /\ torn = {}

Dispatcher ==
    \/ Take \/ Begin \/ Canceled \/ Video \/ AudioThere \/ AudioMissing \/ AudioStaged
    \/ AudioReplaced \/ AudioListed \/ ClearRemoves \/ Clear \/ Publish \/ List \/ Finish

RendersNext ==
    \/ \E q \in Qualities : StartRender(q) \/ Cancel(q)
    \/ \E d \in Deleters : (\E q \in Qualities : DeleteTests(d, q))
                           \/ DeleteScans(d) \/ DeleteRemoves(d) \/ DeleteEmpties(d)
                           \/ DeleteUnlists(d) \/ StoreCutShort(d)
    \/ Dispatcher \/ Fails \/ Restart

RendersSpec == RendersInit /\ [][RendersNext]_renderVars

\* The dispatcher goes on, encoders have time limits, and a step that cannot
\* be taken because a directory is gone fails.
RendersFairSpec == RendersSpec /\ WF_renderVars(Dispatcher \/ Fails)

-----------------------------------------------------------------------------
Jobs == [q : Qualities \cup {"none"}, state : {"none", "queued", "rendering", "canceled"},
         cancel : BOOLEAN]
Dispatches == [pc : {"idle", "begin", "video", "audio", "stage", "replace", "list audio", "clear",
                     "publish", "list", "finish"},
               id : Ids \cup {0}, next : RenderSegments]
Deletions == [pc : {"idle", "scan", "remove", "unlist"}, q : Qualities \cup {"none"},
              names : SUBSET RenderSegments]
Manifests == [there : BOOLEAN, qualities : SUBSET Qualities, audio : BOOLEAN]

RendersTypeOK ==
    /\ job \in [Ids -> Jobs] /\ jobs \in [Qualities -> Ids \cup {0}] /\ queue \in Seq(Ids)
    /\ disp \in Dispatches
    /\ deleter \in [Deleters -> Deletions]
    /\ dirs \subseteq Qualities /\ segs \in [Qualities -> SUBSET RenderSegments]
    /\ audio \in BOOLEAN /\ staged \in BOOLEAN /\ raced \in BOOLEAN
    /\ manifest \in Manifests /\ torn \subseteq Qualities

\* A quality that is offered as rendered and is not being removed has all its segments,
\* though readiness looks at the last one only, and the shared audio its playlist names
\* is there: across cancels, failures, restarts and renders of a ready quality. Exempt
\* are a delete that overlapped a render, the removal of the whole store cut short, and
\* a quality whose own removal a restart cut short, until it is rendered again.
ReadyIsWhole ==
    ~raced => \A q \in Qualities : QualityReady(q) =>
        /\ q \notin torn /\ ~BeingRemoved(q) => segs[q] = RenderSegments
        /\ AudioReady

\* What ready_qualities says of its answer, "fully rendered". Violated in no run: the
\* removal for a new render, or of a delete, leaves the last segment and ends there.
ReadyIsFull ==
    ~raced => \A q \in Qualities : QualityReady(q) /\ ~BeingRemoved(q) => segs[q] = RenderSegments

\* Every render ends: the queue survives cancels and failures.
JobEnds == \A i \in Ids : (i \in Active) ~> (i \notin Active)
=============================================================================

------------------------------- MODULE Feeds -------------------------------
(***************************************************************************)
(* The two feeds the SharedWorker keeps for all tabs: the progress of the  *)
(* download the pages follow, from the backend's progress map, and the     *)
(* online status of the workers whose panels are open.  Each is a stream   *)
(* with polling behind it.                                                 *)
(*                                                                         *)
(* A tab's message is handled, and a broadcast arrives, in the step that   *)
(* sends it; the answer of a fetch comes later, and nothing recalls it.    *)
(* The page looks at its list whenever that has changed: a late sync is a  *)
(* late look.  Downloads by workers are not followed here; and no backend   *)
(* puts an error into its progress map, so that none is told of one.       *)
(***************************************************************************)
EXTENDS FiniteSets, Naturals

CONSTANTS
    Followed,    \* downloads by the backend
    Viewers,     \* tabs
    Watchable,   \* workers
    MaxAnswers,  \* bound on the fetches under way
    Nil

ASSUME FeedsAssumption == Nil \notin Followed \cup Watchable /\ MaxAnswers \in Nat

VARIABLES
    rowStatus,  \* status in the database
    progress,   \* the backend's progressMap
    following,  \* downloadingFileId of the page in each tab
    sawDone,    \* isDone of useProgress in each tab
    tracking,   \* trackingDownloadId
    streams,    \* the progress EventSources that are open
    timer,      \* progressTimer and the download it polls
    answers,    \* fetches of /api/progress under way
    panels,     \* the worker each tab has selected
    watched,    \* watchedWorkerIds
    streaming,  \* workerStatusSSE and sseActive
    polling,    \* workerStatusTimer
    retrying    \* sseRetryTimer

progressVars == <<rowStatus, progress, following, sawDone, tracking, streams, timer, answers>>
statusVars == <<panels, watched, streaming, polling, retrying>>
feedVars == <<progressVars, statusVars>>
backendVars == <<rowStatus, progress>>
trackVars == <<tracking, streams, timer>>

Away == "away"
Answer == [of : Followed, kind : {"check", "poll"}, says : {"asked", "none", "running", "done"}]
FetchOf(f, k) == [of |-> f, kind |-> k, says |-> "asked"]

-----------------------------------------------------------------------------
(* Faulty variants: what the code would do with one reset less.             *)

\* startTracking does not stop what it tracked before.
TrackOver(f) == tracking' = f /\ streams' = streams \cup {f} /\ UNCHANGED timer

-----------------------------------------------------------------------------
(* startTracking and stopTracking *)

Track(f) == tracking' = f /\ streams' = {f} /\ timer' = Nil
StopTracking == tracking' = Nil /\ streams' = {} /\ timer' = Nil

-----------------------------------------------------------------------------
(* The backend *)

BackendStep ==
    /\ \/ \E f \in Followed :
             \/ /\ rowStatus[f] = "pending" /\ \A g \in Followed : rowStatus[g] # "downloading"
                /\ rowStatus' = [rowStatus EXCEPT ![f] = "downloading"] /\ UNCHANGED progress
             \/ /\ rowStatus[f] = "downloading" /\ progress[f] = "none"
                /\ progress' = [progress EXCEPT ![f] = "running"] /\ UNCHANGED rowStatus
             \/ /\ rowStatus[f] = "downloading" /\ progress[f] = "running"
                /\ rowStatus' = [rowStatus EXCEPT ![f] = "ended"] /\ UNCHANGED progress
             \/ /\ rowStatus[f] = "ended" /\ progress[f] = "running"
                /\ progress' = [progress EXCEPT ![f] = "done"] /\ UNCHANGED rowStatus
             \* A minute after a poll has been told.
             \/ /\ progress[f] = "done"
                /\ progress' = [progress EXCEPT ![f] = "none"] /\ UNCHANGED rowStatus
       \* A restart: the map is gone, and recoverStaleDownloads fails the rows.
       \/ /\ progress' = [f \in Followed |-> "none"]
          /\ rowStatus' = [f \in Followed |-> IF rowStatus[f] = "downloading" THEN "ended" ELSE rowStatus[f]]
    /\ UNCHANGED <<following, sawDone, trackVars, answers, statusVars>>

-----------------------------------------------------------------------------
(* The pages *)

\* startActiveDownload: the page stays with a row that is active, else it takes the
\* row that downloads, if there is one; useProgress tells the SharedWorker.
Look(t) ==
    LET stays == following[t] \in Followed /\ rowStatus[following[t]] # "ended"
        found == {f \in Followed : rowStatus[f] = "downloading"}
    IN  /\ following[t] # Away /\ ~stays
        /\ \/ \E f \in found :
                 /\ following' = [following EXCEPT ![t] = f] /\ UNCHANGED sawDone
                 /\ Track(f)
           \/ /\ found = {} /\ following[t] # Nil
              /\ following' = [following EXCEPT ![t] = Nil] /\ sawDone' = [sawDone EXCEPT ![t] = FALSE]
              /\ StopTracking
    /\ UNCHANGED <<backendVars, answers, statusVars>>

\* The page is mounted with nothing to follow, which stops the tracking.
PageOpens(t) ==
    /\ following[t] = Away
    /\ following' = [following EXCEPT ![t] = Nil] /\ sawDone' = [sawDone EXCEPT ![t] = FALSE]
    /\ StopTracking
    /\ UNCHANGED <<backendVars, answers, statusVars>>

\* Unmounted, it stops the tracking when it followed a download; a tab that is closed says nothing.
PageLeaves(t) ==
    /\ following[t] # Away
    /\ following' = [following EXCEPT ![t] = Away]
    /\ \/ following[t] # Nil /\ StopTracking
       \/ UNCHANGED trackVars
    /\ UNCHANGED <<backendVars, sawDone, answers, statusVars>>

-----------------------------------------------------------------------------
(* The progress feed *)

\* The pages' onProgress: what has not ended clears isDone; the end takes the page
\* from what it follows, whichever download it is of, and without one isDone stays set.
ToldRunning ==
    /\ sawDone' = [t \in Viewers |-> sawDone[t] /\ following[t] = Away]
    /\ UNCHANGED following
ToldDone ==
    LET lets == {t \in Viewers : following[t] \in Followed /\ ~sawDone[t]}
    IN  /\ following' = [t \in Viewers |-> IF t \in lets THEN Nil ELSE following[t]]
        /\ sawDone' = [t \in Viewers |-> t \notin lets /\ (following[t] # Away \/ sawDone[t])]

\* What the backend writes to the stream every second: nothing when the entry is gone.
Streamed(f) == IF f \in streams THEN progress[f] ELSE "none"

StreamSays(f) ==
    /\ \/ Streamed(f) = "running" /\ ToldRunning /\ UNCHANGED trackVars
       \/ Streamed(f) = "done" /\ ToldDone /\ StopTracking
    /\ UNCHANGED <<backendVars, answers, statusVars>>

\* onerror: the stream was refused with a 404, or broke.
StreamFails(f) ==
    /\ f \in streams /\ Cardinality(answers) < MaxAnswers
    /\ streams' = streams \ {f}
    /\ answers' = answers \cup {FetchOf(f, "check")}
    /\ UNCHANGED <<backendVars, following, sawDone, tracking, timer, statusVars>>

PollTicks ==
    /\ timer # Nil /\ Cardinality(answers) < MaxAnswers
    /\ answers' = answers \cup {FetchOf(timer, "poll")}
    /\ UNCHANGED <<backendVars, following, sawDone, trackVars, statusVars>>

\* safeFetch makes a failure of any kind the same as a 404.
ProgressAnswered(a) ==
    /\ a.says = "asked"
    /\ \E s \in {progress[a.of], "none"} : answers' = (answers \ {a}) \cup {[a EXCEPT !.says = s]}
    /\ UNCHANGED <<backendVars, following, sawDone, trackVars, statusVars>>

AnswerComes(a) ==
    /\ a.says # "asked"
    /\ answers' = answers \ {a}
    /\ \/ a.says # "running" /\ ToldDone /\ StopTracking
       \/ a.says = "running" /\ a.kind = "poll" /\ ToldRunning /\ UNCHANGED trackVars
       \/ /\ a.says = "running" /\ a.kind = "check"
          /\ timer' = a.of /\ UNCHANGED <<following, sawDone, tracking, streams>>
    /\ UNCHANGED <<backendVars, statusVars>>

-----------------------------------------------------------------------------
(* The status feed *)

CloseAll == streaming' = FALSE /\ polling' = FALSE /\ retrying' = FALSE
OpenStatusStream == streaming' = TRUE /\ retrying' = FALSE

\* useWorkerStatus of the workers page: a worker is selected.
PanelOpens(t, w) ==
    /\ panels[t] = Nil
    /\ panels' = [panels EXCEPT ![t] = w]
    /\ watched' = watched \cup {w}
    /\ IF watched = {} THEN OpenStatusStream /\ UNCHANGED polling ELSE UNCHANGED <<streaming, polling, retrying>>
    /\ UNCHANGED progressVars

\* Another one, or none.
PanelCloses(t) ==
    /\ panels[t] # Nil
    /\ panels' = [panels EXCEPT ![t] = Nil]
    /\ watched' = watched \ {panels[t]}
    /\ IF watched' = {} THEN CloseAll ELSE UNCHANGED <<streaming, polling, retrying>>
    /\ UNCHANGED progressVars

\* The tab is closed: the SharedWorker hears nothing of it.
PanelGoes(t) ==
    /\ panels[t] # Nil
    /\ panels' = [panels EXCEPT ![t] = Nil]
    /\ UNCHANGED <<watched, streaming, polling, retrying, progressVars>>

StatusStreamFails ==
    /\ streaming
    /\ streaming' = FALSE
    /\ IF watched # {} THEN polling' = TRUE /\ retrying' = TRUE ELSE UNCHANGED <<polling, retrying>>
    /\ UNCHANGED <<panels, watched, progressVars>>

RetryDue ==
    /\ retrying
    /\ IF watched # {} /\ ~streaming
       THEN polling' = FALSE /\ OpenStatusStream
       ELSE retrying' = FALSE /\ UNCHANGED <<polling, streaming>>
    /\ UNCHANGED <<panels, watched, progressVars>>

-----------------------------------------------------------------------------
FeedsInit ==
    /\ rowStatus = [f \in Followed |-> "pending"] /\ progress = [f \in Followed |-> "none"]
    /\ following = [t \in Viewers |-> Away] /\ sawDone = [t \in Viewers |-> FALSE]
    /\ tracking = Nil /\ streams = {} /\ timer = Nil /\ answers = {}
    /\ panels = [t \in Viewers |-> Nil] /\ watched = {}
    /\ streaming = FALSE /\ polling = FALSE /\ retrying = FALSE

ProgressStep ==
    \/ BackendStep
    \/ \E t \in Viewers : Look(t) \/ PageOpens(t) \/ PageLeaves(t)
    \/ \E f \in Followed : StreamSays(f) \/ StreamFails(f)
    \/ PollTicks
    \/ \E a \in answers : ProgressAnswered(a) \/ AnswerComes(a)

StatusStep ==
    \/ \E t \in Viewers : PanelCloses(t) \/ PanelGoes(t) \/ \E w \in Watchable : PanelOpens(t, w)
    \/ StatusStreamFails \/ RetryDue

FeedsNext == ProgressStep \/ StatusStep

FeedsSpec == FeedsInit /\ [][FeedsNext]_feedVars

-----------------------------------------------------------------------------
FeedsTyped ==
    /\ rowStatus \in [Followed -> {"pending", "downloading", "ended"}]
    /\ progress \in [Followed -> {"none", "running", "done"}]
    /\ following \in [Viewers -> Followed \cup {Nil, Away}] /\ sawDone \in [Viewers -> BOOLEAN]
    /\ tracking \in Followed \cup {Nil} /\ streams \subseteq Followed /\ timer \in Followed \cup {Nil}
    /\ answers \subseteq Answer
    /\ panels \in [Viewers -> Watchable \cup {Nil}] /\ watched \subseteq Watchable
    /\ streaming \in BOOLEAN /\ polling \in BOOLEAN /\ retrying \in BOOLEAN

\* useProgress.ts:6 "the worker opens ONE SSE connection across all tabs": an open stream
\* is that of the download that is tracked, though pages come and go, and answers of fetches
\* about another download start and stop the tracking.
OneStream == streams \subseteq {tracking}

\* sync-worker.js:581-585: while a worker is watched its status comes, by the stream, or by
\* polling with the next attempt at the stream due; and when none is, nothing is left running.
StatusComes ==
    /\ watched # {} => streaming \/ (polling /\ retrying)
    /\ watched = {} => ~streaming /\ ~polling /\ ~retrying

\* Both feeds of the SharedWorker are what the comments promise, whatever the tabs do.
FeedsAreKept == OneStream /\ StatusComes

\* "workerIds currently watched by any tab" (sync-worker.js:587).  Violated: there is no
\* count, and the panel one tab closes takes the worker from all.
WatchedByAny == \A t \in Viewers : panels[t] # Nil => panels[t] \in watched

\* A page that follows a running download is fed.  Violated: another page that is left, or
\* opened, or the late answer of a fetch about another download stops the tracking, and
\* the page stays with what it follows.
FollowedIsFed ==
    \A t \in Viewers :
        following[t] \in Followed /\ progress[following[t]] = "running" =>
            tracking # Nil \/ timer # Nil \/ answers # {}
=============================================================================

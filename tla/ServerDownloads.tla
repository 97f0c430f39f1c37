--------------------------- MODULE ServerDownloads ---------------------------
(***************************************************************************)
(* One download whose location is the server or the cloud: the tabs that   *)
(* claim it, the request that starts it at the backend, the runs of the    *)
(* backend, its progressMap, and the row they share.  Ids share no state,  *)
(* so one id is modelled.                                                  *)
(*                                                                         *)
(* The three backends implement the same four jobs (a URL or a torrent, to *)
(* disk or to MEGA) and differ in their tests and in what an error leaves  *)
(* behind; that is the record `job', one of twelve, chosen at the start    *)
(* with the faults `env' that may happen.  Bytes, files and MEGA nodes are *)
(* abstracted; a download that the configuration refuses is one that fails *)
(* in its set-up.                                                          *)
(***************************************************************************)
EXTENDS Naturals, FiniteSets

CONSTANTS
    Tabs,           \* browser tabs that receive the dispatchServer broadcast
    MaxStarts,      \* bound: starts and runs of the id at one time
    Jobs,           \* the jobs that are checked
    Envs            \* the sets of faults that are checked

Faults == {"lost", "close", "restart", "db"}
StartIds == 1 .. MaxStarts

VARIABLES
    job,        \* which backend and destination this download is for
    env,        \* faults of this behaviour
    row,        \* status column of file_downloads, or "absent"
    entry,      \* progressMap of the id: none, live, or done
    reaper,     \* a timer of getProgressUpdateById is going to delete the entry
    tab,        \* what each tab does about the id
    start,      \* each start request and the run it became
    deleting    \* deleteDownload has tested the row and is going to delete it

serverVars == <<job, env, row, entry, reaper, tab, start, deleting>>

-----------------------------------------------------------------------------
(* The jobs.                                                               *)
(*   rowFirst    the handler reads the row before it tests progressMap     *)
(*   blockedBy   the entries that stop a start                             *)
(*   inserts     a row is inserted in the place of a missing one           *)
(*   escapes     phases in which an exception (the fetch, the login, the   *)
(*               metadata, the swarm) changes neither row nor entry        *)
(*   waits       the set-up has no time limit                              *)
(*   keeps       endings that leave the entry live when their row cannot   *)
(*               be written                                                *)
(*   keepsDone   a chunk leaves a done entry done                          *)

Endings == {"refused", "failed", "completed"}
Job == [name : STRING, rowFirst : BOOLEAN, blockedBy : SUBSET {"live", "done"},
        inserts : BOOLEAN, escapes : SUBSET {"setup", "stream"}, waits : BOOLEAN,
        keeps : SUBSET Endings, keepsDone : BOOLEAN]

ASSUME ServerAssumption ==
    /\ MaxStarts \in Nat
    /\ Jobs \subseteq Job
    /\ Envs \subseteq SUBSET Faults

Express(name, inserts, escapes, waits, keeps) ==
    [name |-> name, rowFirst |-> FALSE, blockedBy |-> {"live", "done"}, inserts |-> inserts,
     escapes |-> escapes, waits |-> waits, keeps |-> keeps, keepsDone |-> FALSE]
Nest(name, blockedBy, escapes, keeps) ==
    [name |-> name, rowFirst |-> FALSE, blockedBy |-> blockedBy, inserts |-> TRUE,
     escapes |-> escapes, waits |-> FALSE, keeps |-> keeps, keepsDone |-> FALSE]
Rust(name, rowFirst) ==
    [name |-> name, rowFirst |-> rowFirst, blockedBy |-> {"live", "done"}, inserts |-> TRUE,
     escapes |-> {}, waits |-> FALSE, keeps |-> {}, keepsDone |-> TRUE]

ExpressUrlToServer == Express("ExpressUrlToServer", FALSE, {"setup"}, FALSE, Endings)
ExpressUrlToMega == Express("ExpressUrlToMega", FALSE, {"setup"}, FALSE, Endings)
ExpressTorrentToServer == Express("ExpressTorrentToServer", TRUE, {}, TRUE, {})
ExpressTorrentToMega ==
    Express("ExpressTorrentToMega", TRUE, {"setup", "stream"}, FALSE, Endings)

NestUrlToServer ==
    Nest("NestUrlToServer", {"live", "done"}, {"setup"}, {"refused", "completed"})
NestUrlToMega == Nest("NestUrlToMega", {"live"}, {"setup"}, {"refused", "completed"})
NestTorrentToServer == Nest("NestTorrentToServer", {"live"}, {}, {})
NestTorrentToMega == Nest("NestTorrentToMega", {"live"}, {}, {})

RustUrlToServer == Rust("RustUrlToServer", TRUE)
RustUrlToMega == Rust("RustUrlToMega", FALSE)
RustTorrentToServer == Rust("RustTorrentToServer", TRUE)
RustTorrentToMega == Rust("RustTorrentToMega", FALSE)

IsTorrent == job.name \in {"ExpressTorrentToServer", "ExpressTorrentToMega",
    "NestTorrentToServer", "NestTorrentToMega", "RustTorrentToServer", "RustTorrentToMega"}

RowStatus == {"absent", "pending", "downloading", "failed", "completed"}
Running == {"setup", "stream", "mark"} \cup Endings
Handling == {"sent", "row read", "passed"}

Alive == {i \in StartIds : start[i] \in Running}
Free == {i \in StartIds : start[i] = "free"}

\* An UPDATE by id writes nothing when the row is gone.
Written(status) == IF row = "absent" THEN "absent" ELSE status

\* The answer of start i reaches the tab that waits for it, if any still does.
StartAnswered(i, pc) ==
    [t \in Tabs |-> IF tab[t] = [pc |-> "waiting", for |-> i]
                    THEN [pc |-> pc, for |-> 0] ELSE tab[t]]
Idle == [pc |-> "idle", for |-> 0]

\* The starts that no backend has begun to handle, and what a restart leaves.
StartsSent == {i \in StartIds : start[i] = "sent"}
StartsKept(kept) ==
    /\ start' = [i \in StartIds |-> IF i \in kept THEN "sent" ELSE "free"]
    /\ tab' = [t \in Tabs |-> IF tab[t].pc = "waiting" /\ tab[t].for \notin kept
                              THEN [pc |-> "refused", for |-> 0] ELSE tab[t]]

-----------------------------------------------------------------------------
(* Faulty variants of the actions below.  No run uses them as they stand: put *)
(* in the place of the action they make a property fail.                      *)

\* The claim does not ask for the status "pending".
ClaimAnyStatus(t, i) ==
    /\ tab[t] = Idle
    /\ row \in {"pending", "downloading"}
    /\ i \in Free /\ \A j \in Free : i <= j
    /\ row' = "downloading"
    /\ tab' = [tab EXCEPT ![t] = [pc |-> "waiting", for |-> i]]
    /\ start' = [start EXCEPT ![i] = "sent"]
    /\ UNCHANGED <<job, env, entry, reaper, deleting>>

\* The backend that starts again leaves the rows as they are.
RestartUnrecovered ==
    /\ "restart" \in env
    /\ entry' = "none" /\ reaper' = FALSE
    /\ \E kept \in SUBSET StartsSent : StartsKept(kept)
    /\ UNCHANGED <<job, env, row, deleting>>

-----------------------------------------------------------------------------
(* The tabs *)

\* claimDownload, claimTorrentDownload: one tab wins the row and posts the
\* start; the others see no row updated and return.
Claim(t, i) ==
    /\ tab[t] = Idle
    /\ row = "pending"
    /\ i \in Free /\ \A j \in Free : i <= j
    /\ row' = "downloading"
    /\ tab' = [tab EXCEPT ![t] = [pc |-> "waiting", for |-> i]]
    /\ start' = [start EXCEPT ![i] = "sent"]
    /\ UNCHANGED <<job, env, entry, reaper, deleting>>

\* The start never reaches the backend: the tab is told, or gets a 502.
StartFails(t) ==
    /\ tab[t].pc = "waiting"
    /\ start[tab[t].for] = "sent"
    /\ start' = [start EXCEPT ![tab[t].for] = "free"]
    /\ tab' = [tab EXCEPT ![t] = [pc |-> "refused", for |-> 0]]
    /\ UNCHANGED <<job, env, row, entry, reaper, deleting>>

\* The answer is lost or late: the tab gives up what the backend still does.
AnswerLost(t) ==
    /\ "lost" \in env
    /\ tab[t].pc = "waiting"
    /\ tab' = [tab EXCEPT ![t] = [pc |-> "refused", for |-> 0]]
    /\ UNCHANGED <<job, env, row, entry, reaper, start, deleting>>

\* updateDownload and updateTorrentDownload read the row; a missing one ends
\* the revert, and so does, for a URL, one that is neither pending nor
\* downloading.
RevertReads(t) ==
    /\ tab[t].pc = "refused"
    /\ tab' = [tab EXCEPT ![t] =
                  IF row = "absent" \/ (~IsTorrent /\ row \notin {"pending", "downloading"})
                  THEN Idle ELSE [pc |-> "reverting", for |-> 0]]
    /\ UNCHANGED <<job, env, row, entry, reaper, start, deleting>>

\* The revert writes by id, whatever the row holds by now.
RevertWrites(t) ==
    /\ tab[t].pc = "reverting"
    /\ row' = Written("pending")
    /\ tab' = [tab EXCEPT ![t] = Idle]
    /\ UNCHANGED <<job, env, entry, reaper, start, deleting>>

\* The tab is closed; what it sent goes on.
CloseTab(t) ==
    /\ "close" \in env
    /\ tab[t].pc \in {"waiting", "refused"}
    /\ tab' = [tab EXCEPT ![t] = Idle]
    /\ UNCHANGED <<job, env, row, entry, reaper, start, deleting>>

\* deleteDownload, deleteDownloads, deleteTorrentDownload read the row ...
DeleteReads ==
    /\ ~deleting
    /\ row \notin {"absent", "downloading"}
    /\ deleting' = TRUE
    /\ UNCHANGED <<job, env, row, entry, reaper, tab, start>>

\* ... and delete it by id.
DeleteWrites ==
    /\ deleting
    /\ row' = "absent"
    /\ deleting' = FALSE
    /\ UNCHANGED <<job, env, entry, reaper, tab, start>>

-----------------------------------------------------------------------------
(* The start handler of the backend *)

\* The test of progressMap.  An entry that blocks answers "already started".
TestEntry(i) ==
    /\ start[i] = IF job.rowFirst THEN "row read" ELSE "sent"
    /\ IF entry \in job.blockedBy
       THEN /\ start' = [start EXCEPT ![i] = "free"]
            /\ tab' = StartAnswered(i, "idle")
       ELSE /\ start' = [start EXCEPT ![i] = "passed"]
            /\ UNCHANGED tab
    /\ UNCHANGED <<job, env, row, entry, reaper, deleting>>

\* rowFirst: the row is read before the test.
ReadRow(i) ==
    /\ job.rowFirst
    /\ start[i] = "sent"
    /\ row # "absent"
    /\ start' = [start EXCEPT ![i] = "row read"]
    /\ UNCHANGED <<job, env, row, entry, reaper, tab, deleting>>

\* The entry is set, the run begins in the background and the request is
\* answered.  Unless rowFirst, the row is read here, after an await that
\* separates the test from the set.
Begin(i) ==
    /\ start[i] = "passed"
    /\ job.rowFirst \/ row # "absent"
    /\ entry' = "live"
    /\ start' = [start EXCEPT ![i] = "setup"]
    /\ tab' = StartAnswered(i, "idle")
    /\ UNCHANGED <<job, env, row, reaper, deleting>>

\* The row is missing: 404, and the tab reverts; or a row of a new id and no
\* workspace is inserted and downloaded, which no tab and no test of this id
\* will see, and the answer is "started".
NoRow(i) ==
    /\ start[i] = IF job.rowFirst THEN "sent" ELSE "passed"
    /\ row = "absent"
    /\ start' = [start EXCEPT ![i] = "free"]
    /\ tab' = StartAnswered(i, IF job.inserts THEN "idle" ELSE "refused")
    /\ UNCHANGED <<job, env, row, entry, reaper, deleting>>

-----------------------------------------------------------------------------
(* A run *)

Goes(i, to) ==
    /\ start' = [start EXCEPT ![i] = to]
    /\ UNCHANGED <<job, env, reaper, tab, deleting>>

\* The source answers and the row is written with its metadata.
SetUp(i) ==
    /\ start[i] = "setup"
    /\ row' = Written("downloading")
    /\ Goes(i, "stream")
    /\ UNCHANGED entry

\* The source refuses, or an error that the job catches.
SetUpFails(i) ==
    /\ start[i] = "setup"
    /\ Goes(i, "refused")
    /\ UNCHANGED <<row, entry>>

\* An error that nobody catches but console.error.
Escapes(i) ==
    /\ start[i] \in job.escapes
    /\ Goes(i, "free")
    /\ UNCHANGED <<row, entry>>

\* A chunk arrives and progressMap is written.
Chunk(i) ==
    /\ start[i] = "stream"
    /\ entry' = IF job.keepsDone /\ entry = "done" THEN "done" ELSE "live"
    /\ UNCHANGED <<job, env, row, reaper, tab, start, deleting>>

\* The transfer ends.
StreamEnds(i, ending) ==
    /\ start[i] = "stream"
    /\ ending \in {"completed", "failed"}
    /\ Goes(i, ending)
    /\ UNCHANGED <<row, entry>>

\* The last status is written before the entry is marked.
WriteEnding(i) ==
    /\ start[i] \in Endings
    /\ row' = Written(IF start[i] = "completed" THEN "completed" ELSE "failed")
    /\ Goes(i, "mark")
    /\ UNCHANGED entry

\* The database refuses the last write: the entry is marked all the same, or
\* stays live.
EndingLost(i) ==
    /\ "db" \in env
    /\ start[i] \in Endings
    /\ Goes(i, IF start[i] \in job.keeps THEN "free" ELSE "mark")
    /\ UNCHANGED <<row, entry>>

\* The entry is marked done.
Mark(i) ==
    /\ start[i] = "mark"
    /\ entry' = "done"
    /\ Goes(i, "free")
    /\ UNCHANGED row

-----------------------------------------------------------------------------
(* The rest of the backend *)

\* GET /api/progress/:id of a done entry sets a timer of 60 s.
Poll ==
    /\ entry = "done"
    /\ reaper' = TRUE
    /\ UNCHANGED <<job, env, row, entry, tab, start, deleting>>

\* A timer deletes the entry of the id, whichever run it is of by now.  The
\* polls of a done entry may have set others.
Reap(another) ==
    /\ reaper
    /\ entry' = "none"
    /\ reaper' = another
    /\ UNCHANGED <<job, env, row, tab, start, deleting>>

\* The process restarts: entries, timers, runs and the requests it was handling are
\* gone.  Each backend fails the rows that were downloading before it lets requests
\* in; when the database refuses that, the error is logged and it goes on.  A tab may
\* have claimed the row before and send its start after.
Restart ==
    /\ "restart" \in env
    /\ entry' = "none" /\ reaper' = FALSE
    /\ \/ row' = IF row = "downloading" THEN "failed" ELSE row
       \/ "db" \in env /\ row' = row
    /\ \E kept \in SUBSET StartsSent : StartsKept(kept)
    /\ UNCHANGED <<job, env, deleting>>

ServerInit ==
    /\ job \in Jobs
    /\ env \in Envs
    /\ row = "pending"
    /\ entry = "none"
    /\ reaper = FALSE
    /\ tab = [t \in Tabs |-> Idle]
    /\ start = [i \in StartIds |-> "free"]
    /\ deleting = FALSE

TabStep == \E t \in Tabs :
    \/ \E i \in StartIds : Claim(t, i)
    \/ StartFails(t)
    \/ AnswerLost(t)
    \/ RevertReads(t)
    \/ RevertWrites(t)
    \/ CloseTab(t)

StartStep == \E i \in StartIds :
    \/ TestEntry(i)
    \/ ReadRow(i)
    \/ Begin(i)
    \/ NoRow(i)

RunStep == \E i \in StartIds :
    \/ SetUp(i)
    \/ SetUpFails(i)
    \/ Escapes(i)
    \/ Chunk(i)
    \/ \E ending \in Endings : StreamEnds(i, ending)
    \/ WriteEnding(i)
    \/ EndingLost(i)
    \/ Mark(i)

ServerNext ==
    \/ TabStep
    \/ DeleteReads
    \/ DeleteWrites
    \/ StartStep
    \/ RunStep
    \/ Poll
    \/ \E another \in BOOLEAN : Reap(another)
    \/ Restart

ServerSpec == ServerInit /\ [][ServerNext]_serverVars

\* The event loop and the runtime go on with what is due; an answer or an error
\* arrives for every request, and a source ends or fails, except the metadata
\* of a job that waits for it without a limit.  A tab reverts a refused claim.
\* Claims, deletions, polls and faults are free.
ServerFairness ==
    /\ \A i \in StartIds :
        /\ WF_serverVars(TestEntry(i) \/ ReadRow(i) \/ Begin(i) \/ NoRow(i))
        /\ WF_serverVars(~job.waits /\ (SetUp(i) \/ SetUpFails(i) \/ Escapes(i)))
        /\ WF_serverVars(\E ending \in Endings : StreamEnds(i, ending))
        /\ WF_serverVars(WriteEnding(i) \/ EndingLost(i))
        /\ WF_serverVars(Mark(i))
    /\ \A t \in Tabs : WF_serverVars(RevertReads(t) \/ RevertWrites(t))

ServerFairSpec == ServerSpec /\ ServerFairness

-----------------------------------------------------------------------------
(* Properties *)

\* The state of the id, its claims, its requests and its runs.
ServerTypeOK ==
    /\ job \in Jobs
    /\ env \in Envs
    /\ row \in RowStatus
    /\ entry \in {"none", "live", "done"}
    /\ reaper \in BOOLEAN
    /\ tab \in [Tabs -> [pc : {"idle", "waiting", "refused", "reverting"}, for : StartIds \cup {0}]]
    /\ start \in [StartIds -> {"free"} \cup Handling \cup Running]
    /\ deleting \in BOOLEAN

\* Two runs never stream one download at a time, as long as no answer is lost: the
\* claim of the tabs guards the backends' tests, which alone would not.  And a tab
\* that reverts its claim by a row it read earlier (downloads.ts:310) does not take
\* the row from a run, nor does it offer what has been completed once more.
OneRunIfAnswered ==
    "lost" \in env \/
        /\ Cardinality(Alive) <= 1
        /\ \A t \in Tabs : tab[t].pc = "reverting" => Alive = {} /\ row # "completed"

\* The same whatever is lost, which the tests of progressMap are there for.
OneRun == Cardinality(Alive) <= 1

\* Somebody is going to take the row out of "downloading".
Attended ==
    \/ \E t \in Tabs : tab[t] # Idle
    \/ \E i \in StartIds : start[i] \notin {"free", "mark"}
Stuck == row = "downloading" /\ ~Attended

\* A row is left in "downloading" with nobody working on it in five ways only:
\* its tab is closed between claim and start, the database refuses the recovery at
\* the backend's start or the last status, an error escapes, or the start is
\* answered "already started" for a run that is over.
StuckOnlyBy ==
    [][~Stuck /\ Stuck' =>
        \/ Restart /\ "db" \in env
        \/ \E t \in Tabs : CloseTab(t)
        \/ \E i \in StartIds :
            Escapes(i) \/ EndingLost(i) \/ (TestEntry(i) /\ entry \in job.blockedBy)]_serverVars

\* Without faults a job that catches its errors takes every claimed row out of
\* "downloading": it completes, fails, or is reverted by the tab.
ClaimedEnds ==
    (row = "downloading" /\ env = {} /\ job.escapes = {} /\ ~job.waits)
        ~> row # "downloading"
=============================================================================

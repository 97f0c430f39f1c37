----------------------------- MODULE SyncLeader -----------------------------
(***************************************************************************)
(* A browser's copy of the downloads as a whole: followed by a SharedWorker *)
(* (DeltaSync) or, in browsers that have none, by the tab that leads        *)
(* (SyncManager.ts).  The leader writes a heartbeat into localStorage;      *)
(* another tab claims when it finds none, or one that is old.               *)
(*                                                                          *)
(* Reading and writing the record are two steps, because tabs are           *)
(* processes; what a tab does with what it read is one step of its thread.  *)
(***************************************************************************)
EXTENDS DeltaSync

CONSTANTS
    Gone,       \* a tab of an earlier session, whose record is still there
    FallbackEnvs

ASSUME LeaderAssumption ==
    /\ Gone \notin Tabs
    /\ FallbackEnvs \subseteq SUBSET Circumstances

VARIABLES
    mode,       \* "SharedWorker" or "fallback"
    open,       \* tabs that are open
    record,     \* the leader's heartbeat; `by` is Gone while there is none
    leader,     \* isLeader of each tab
    event,      \* a storage event is on its way to the tab
    writing,    \* the tab has read the record and will write its own
    pull,       \* the sync of each tab
    saved,      \* filedownloads_cursor, 0 for none
    setBack     \* history: rows that a tab put as it read them before a newer answer was put

election == <<record, leader, event, writing>>
tabs == <<mode, open, election, pull, saved, setBack>>
browser == <<vars, tabs>>

Ages == {"none", "fresh", "stale"}
Record == [by : Tabs \cup {Gone}, age : Ages]
NoPull == [pc |-> "free", since |-> 0, synced |-> 0, rows |-> NoRows]
Pull == [pc : {"free", "sent", "read", "put"}, since : Times, synced : Times, rows : Page]

Idle(t) == t \in open /\ ~writing[t]

-----------------------------------------------------------------------------
(* Faulty variants *)

StaleIgnored == {"none"}

-----------------------------------------------------------------------------
(* Election *)

\* A tab closes or crashes: its timers and its sync end, its record stays.  (A tab
\* that is opened has a new id: it is another one.)
Close(t) ==
    /\ t \in open
    /\ open' = open \ {t}
    /\ leader' = [leader EXCEPT ![t] = FALSE]
    /\ event' = [event EXCEPT ![t] = FALSE]
    /\ writing' = [writing EXCEPT ![t] = FALSE]
    /\ pull' = [pull EXCEPT ![t] = NoPull]
    /\ UNCHANGED <<vars, mode, record, saved, setBack>>

\* Eight seconds without a heartbeat, of a tab that is gone or throttled.
Stale ==
    /\ record.age = "fresh"
    /\ record.by \notin open \/ "throttled" \in env
    /\ record' = [record EXCEPT !.age = "stale"]
    /\ UNCHANGED <<vars, mode, open, leader, event, writing, pull, saved, setBack>>

\* A leader writes at once, and every three seconds from then on; a tab that
\* leads already does not write again.
Claim(t) ==
    /\ leader' = [leader EXCEPT ![t] = TRUE]
    /\ writing' = [writing EXCEPT ![t] = ~leader[t]]

Vacant == {"none", "stale"}

\* At a storage event, and at least every eight seconds.
Evaluate(t) ==
    /\ Idle(t)
    /\ event' = [event EXCEPT ![t] = FALSE]
    /\ \/ /\ record.by # t
          /\ record.age \in Vacant
          /\ Claim(t)
       \/ /\ record.by = t
          /\ leader' = [leader EXCEPT ![t] = TRUE]
          /\ writing' = [writing EXCEPT ![t] = TRUE]
       \/ /\ record.by # t
          /\ record.age \notin Vacant
          /\ leader' = [leader EXCEPT ![t] = FALSE]
          /\ UNCHANGED writing
    /\ UNCHANGED <<vars, mode, open, record, pull, saved, setBack>>

\* The other tabs are told of what one writes.  Throttled tabs handle it at any time,
\* so that their events are not kept.
Written(t) ==
    /\ record' = [by |-> t, age |-> "fresh"]
    /\ event' = [u \in Tabs |-> "throttled" \notin env /\ (event[u] \/ (u \in open /\ u # t))]

WriteRecord(t) ==
    /\ t \in open /\ writing[t]
    /\ Written(t)
    /\ writing' = [writing EXCEPT ![t] = FALSE]
    /\ UNCHANGED <<vars, mode, open, leader, pull, saved, setBack>>

\* Every three seconds, whatever the record holds.  An event that has arrived is
\* handled before.
Heartbeat(t) ==
    /\ Idle(t) /\ leader[t]
    /\ ~event[t]
    /\ Written(t)
    /\ UNCHANGED <<vars, mode, open, leader, writing, pull, saved, setBack>>

-----------------------------------------------------------------------------
(* The leader's sync *)

\* Its timer, or its first sync: the cursor is read and the server asked.
PullStarts(t) ==
    /\ Idle(t) /\ leader[t]
    /\ pull[t].pc = "free"
    /\ pull' = [pull EXCEPT ![t] =
                    [NoPull EXCEPT !.pc = "sent", !.since = saved, !.synced = now]]
    /\ UNCHANGED <<vars, mode, open, election, saved, setBack>>

PullReads(t) ==
    /\ pull[t].pc = "sent"
    /\ pull' = [pull EXCEPT ![t].pc = "read",
                    ![t].rows = [r \in Rows |->
                        IF r \in Exists /\ db[r].at >= pull[t].since THEN db[r].ver ELSE 0]]
    /\ UNCHANGED <<vars, mode, open, election, saved, setBack>>

\* The rows are put, whatever another tab that leads too has put meanwhile; a tab
\* that leads no more goes on with what it began.  The cursor is to move if there
\* were rows, or there was none.
PullPuts(t) ==
    /\ pull[t].pc = "read"
    /\ Idle(t)
    /\ idb' = [r \in Rows |-> IF pull[t].rows[r] > 0 THEN pull[t].rows[r] ELSE idb[r]]
    /\ setBack' = setBack \cup {r \in In(pull[t].rows) : pull[t].rows[r] < idb[r]}
    /\ pull' = [pull EXCEPT ![t] =
                    [NoPull EXCEPT !.pc = "put",
                        !.synced = IF In(pull[t].rows) # {} \/ pull[t].since = 0 THEN pull[t].synced
                                   ELSE 0]]
    /\ UNCHANGED <<env, server, worker, fetch, inbox, mode, open, election, saved>>

PullSaves(t) ==
    /\ pull[t].pc = "put"
    /\ Idle(t)
    /\ saved' = IF pull[t].synced > 0 THEN pull[t].synced ELSE saved
    /\ pull' = [pull EXCEPT ![t] = NoPull]
    /\ UNCHANGED <<vars, mode, open, election, setBack>>

PullFails(t) ==
    /\ "fail" \in env
    /\ pull[t].pc \in {"sent", "read"}
    /\ pull' = [pull EXCEPT ![t] = NoPull]
    /\ UNCHANGED <<vars, mode, open, election, saved, setBack>>

-----------------------------------------------------------------------------

Database ==
    \/ Tick
    \/ /\ "quiet" \notin env
       /\ \/ \E r \in Rows, at \in Times : Write(r, at)
          \/ \E r \in Rows, here \in BOOLEAN : Delete(r, here)

PullStep(t) ==
    \/ PullReads(t)
    \/ PullPuts(t)
    \/ PullSaves(t)
    \/ PullFails(t)

TabStep(t) ==
    \/ Close(t)
    \/ Evaluate(t)
    \/ WriteRecord(t)
    \/ Heartbeat(t)
    \/ PullStarts(t)
    \/ PullStep(t)

\* Tabs open and will evaluate, sooner or later; the record of a former session
\* may be there, old or not.
TabsInit ==
    /\ open = IF mode = "fallback" THEN Tabs ELSE {}
    /\ record \in [by : {Gone}, age : IF mode = "fallback" THEN Ages ELSE {"none"}]
    /\ leader = [t \in Tabs |-> FALSE]
    /\ event = [t \in Tabs |-> t \in open /\ "throttled" \notin env]
    /\ writing = [t \in Tabs |-> FALSE]
    /\ pull = [t \in Tabs |-> NoPull]
    /\ saved = 0
    /\ setBack = {}

BrowserInit ==
    /\ mode \in {"SharedWorker", "fallback"}
    /\ IF mode = "fallback"
       THEN InitIn(FallbackEnvs) /\ gone = {} /\ idb = NoRows /\ ~epoch
       ELSE InitIn(Envs)
    /\ TabsInit

BrowserNext ==
    \/ mode = "SharedWorker" /\ Next /\ UNCHANGED tabs
    \/ mode = "fallback" /\ Database /\ UNCHANGED tabs
    \/ mode = "fallback" /\ (Stale \/ \E t \in Tabs : TabStep(t))

BrowserSpec == BrowserInit /\ [][BrowserNext]_browser

\* Two tabs that both lead do not write in lock-step for ever, each between the
\* other's read and write, which are microseconds apart (strong fairness).
\* Timers fire, events come, requests are answered or fail, a record that is not
\* renewed grows old, and under a SharedWorker some tab stays open.  Writes,
\* deletions, resets, restarts and closing are free.
BrowserFairness ==
    /\ WF_browser(mode = "SharedWorker" /\ (\E f \in Fetches : RunSync(f)) /\ UNCHANGED tabs)
    /\ \A f \in Fetches : WF_browser(mode = "SharedWorker" /\ FetchStep(f) /\ UNCHANGED tabs)
    /\ \A t \in Tabs :
        /\ WF_browser(/\ mode = "SharedWorker"
                      /\ \E inProgress \in BOOLEAN : Declare(t, inProgress)
                      /\ UNCHANGED tabs)
        /\ WF_browser(mode = "SharedWorker" /\ HandleData(t) /\ UNCHANGED tabs)
        /\ WF_browser(mode = "fallback" /\ Evaluate(t))
        /\ WF_browser(mode = "fallback" /\ Heartbeat(t))
        /\ WF_browser(mode = "fallback" /\ WriteRecord(t))
        /\ SF_browser(mode = "fallback" /\ WriteRecord(t) /\ \A u \in Tabs : ~writing'[u])
        /\ WF_browser(mode = "fallback" /\ PullStep(t))
    /\ WF_browser(mode = "fallback" /\ Stale)

FairBrowserSpec == BrowserSpec /\ BrowserFairness

-----------------------------------------------------------------------------
(* Properties *)

\* Both ways of syncing keep their types, and the one not in use does nothing.
BrowserTypeOK ==
    /\ TypeOK
    /\ mode \in {"SharedWorker", "fallback"}
    /\ open \in SUBSET Tabs
    /\ record \in Record
    /\ leader \in [Tabs -> BOOLEAN] /\ event \in [Tabs -> BOOLEAN]
    /\ writing \in [Tabs -> BOOLEAN]
    /\ pull \in [Tabs -> Pull]
    /\ saved \in Times /\ setBack \in SUBSET Rows
    /\ mode = "SharedWorker" => open = {}

\* No row that changed before the saved cursor is missing or old in the copy,
\* however often the lead changed in the middle of a sync and however the syncs of
\* two leaders overlap, but for the rows that one of them set back itself.
LeadersMissNothing ==
    "late" \notin env =>
        \A r \in Exists \ setBack : db[r].at < saved => idb[r] = db[r].ver

\* Whoever syncs, the SharedWorker or a leader, what is behind the cursor is in
\* the copy or on its way there.
NothingBehindCursorMissed == NothingMissed /\ LeadersMissNothing

\* In the end no fetch fails and the SharedWorker is not started anew.  (When nothing
\* changed, a reconciliation that fails has the effect of one that does not.)
Calm ==
    <>[][~Restart /\ \A f \in Fetches :
            ~FetchFails(f) /\ (ReconcileFails(f) => Reconcile(f))]_vars

\* With a SharedWorker, when the writes stop, the copy has every row as the database
\* has it, whatever fetches failed and however often the browser was restarted
\* before.  It has no row that was deleted, those deleted before a tab was opened
\* included, unless a failed fetch of the ids left rows of it unnoted: then a row
\* that is gone may stay until the SharedWorker starts anew.
Converges ==
    Calm => <>[](mode = "SharedWorker" /\ env \cap {"late", "slow", "reset"} = {} =>
                    Complete /\ (Clean \/ unnoted))

\* When tabs no longer close and none is throttled, one tab leads and
\* the others follow it, whatever record was found.
OneLeaderInTheEnd ==
    <>[]("throttled" \notin env /\ open # {} =>
            \E t \in open : record.by = t /\ \A u \in open : leader[u] <=> u = t)
=============================================================================

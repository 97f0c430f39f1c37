------------------------------ MODULE DeltaSync ------------------------------
(***************************************************************************)
(* How the browser's copy of the downloads follows the database: the       *)
(* SharedWorker of all tabs (sync-worker.js) with its cursor, its count of *)
(* syncs and the ids it knows, the routes it fetches, and the tabs         *)
(* (workerClient.ts) that write what it broadcasts into one IndexedDB.     *)
(*                                                                         *)
(* A row is a version and its updatedAt.  The workers' list is synced by   *)
(* the same code.  The cursor that a tab declares is the epoch or nothing: *)
(* saveCursor stores it under a key that no declare reads.                 *)
(***************************************************************************)
EXTENDS Naturals, Sequences, FiniteSets

CONSTANTS
    Rows,               \* ids, positive numbers
    Tabs,
    RECONCILE_EVERY,
    MaxTime,            \* bound of the clock
    MaxVersion,         \* bound: versions of a row
    MaxFetches,         \* bound: syncs at one time (more than one after a reset)
    MaxInbox,           \* bound: broadcasts a tab has not handled
    Envs                \* the sets of circumstances that are checked

\* late: a transaction commits after the time it wrote into updatedAt; slow: a
\* tab handles a broadcast after another tab handled a later one; fail: a fetch
\* fails; reset: resetCursor; restart: the last tab closes and opens again;
\* throttled: a browser without a SharedWorker runs the timers and events of a
\* tab in the background late; quiet: nobody changes the rows (both SyncLeader).
Circumstances == {"late", "slow", "fail", "reset", "restart", "throttled", "quiet"}

ASSUME SyncAssumption ==
    /\ Rows \subseteq Nat \ {0}
    /\ RECONCILE_EVERY \in Nat \ {0}
    /\ MaxTime \in Nat \ {0} /\ MaxVersion \in Nat \ {0} /\ MaxFetches \in Nat
    /\ MaxInbox \in Nat
    /\ Envs \subseteq SUBSET Circumstances

VARIABLES
    env,        \* circumstances of this behaviour
    now,        \* clock of the server
    db,         \* version and updatedAt of each row; version 0 is not created
    gone,       \* rows that were deleted
    declared,   \* tabs that need the entity
    epoch,      \* the cursor stored in the browser is the epoch
    cursor,     \* cursors[entity], 0 for null
    syncing,
    count,      \* syncCount[entity], counted from 1 again after RECONCILE_EVERY
    known,      \* broadcastIds[entity]
    seeds,      \* pendingIdbIds[entity]
    unnoted,    \* history: the copy may hold rows whose ids this worker never noted
    fetch,      \* the syncs under way
    inbox,      \* broadcasts on their way to each tab
    idb         \* version of each row in IndexedDB, 0 for none

server == <<now, db, gone>>
worker == <<declared, epoch, cursor, syncing, count, known, seeds, unnoted>>
vars == <<env, server, worker, fetch, inbox, idb>>

NoIds == {0}            \* null, where an empty set is a set
IdSet == (SUBSET Rows) \cup {NoIds}
Times == 0 .. MaxTime
Versions == 0 .. MaxVersion
Fetches == 1 .. MaxFetches
Exists == {r \in Rows : db[r].ver > 0 /\ r \notin gone}

\* A set of rows with their versions; 0 for the rows that are not in it.
Page == [Rows -> Versions]
In(page) == {r \in Rows : page[r] > 0}
NoRows == [r \in Rows |-> 0]

NoFetch == [pc |-> "free", since |-> 0, synced |-> 0, rows |-> NoRows, ids |-> {}, whole |-> FALSE]
Fetch == [pc : {"free", "sent", "read", "ids", "listed"}, since : Times, synced : Times,
          rows : Page, ids : SUBSET Rows, whole : BOOLEAN]

\* The count of this sync, and whether it reconciles.
Counted == IF count = RECONCILE_EVERY THEN 1 ELSE count + 1
Reconciles == count = 0 \/ Counted = RECONCILE_EVERY

\* Every tab is told, in the order of the broadcasts.
Told(page, orphans) ==
    [t \in Tabs |-> IF t \in declared THEN Append(inbox[t], [rows |-> page, orphans |-> orphans])
                    ELSE inbox[t]]
RoomToTell == \A t \in declared : Len(inbox[t]) < MaxInbox

-----------------------------------------------------------------------------
(* Faulty variants *)

ReadChangedAfter(f) ==
    /\ fetch[f].pc = "sent"
    /\ fetch' = [fetch EXCEPT ![f].pc = "read", ![f].since = 0,
                    ![f].rows = [r \in Rows |->
                        IF r \in Exists /\ db[r].at > fetch[f].since THEN db[r].ver ELSE 0]]
    /\ UNCHANGED <<env, server, worker, inbox, idb>>

KnownOnly == known

-----------------------------------------------------------------------------
(* The database *)

Tick ==
    /\ now < MaxTime
    /\ now' = now + 1
    /\ UNCHANGED <<env, db, gone, worker, fetch, inbox, idb>>

\* A row is created or changed, with the updatedAt of now or, when the
\* transaction is late, of just before.
Write(r, at) ==
    /\ r \notin gone
    /\ db[r].ver < MaxVersion
    /\ at = now \/ ("late" \in env /\ at = now - 1)
    /\ db' = [db EXCEPT ![r] = [ver |-> @.ver + 1, at |-> at]]
    /\ UNCHANGED <<env, now, gone, worker, fetch, inbox, idb>>

\* A row is deleted, from this browser, whose copy is deleted too, or not.
Delete(r, here) ==
    /\ r \in Exists
    /\ gone' = gone \cup {r}
    /\ idb' = IF here THEN [idb EXCEPT ![r] = 0] ELSE idb
    /\ UNCHANGED <<env, now, db, worker, fetch, inbox>>

-----------------------------------------------------------------------------
(* A sync *)

\* The timer, a boot sync or syncNow: one sync at a time.  The route takes
\* syncedAt before it reads.
Sends(f, since) ==
    /\ fetch[f].pc = "free"
    /\ \A g \in Fetches : fetch[g].pc = "free" => f <= g
    /\ count' = Counted
    /\ syncing' = TRUE
    /\ fetch' = [fetch EXCEPT ![f] =
                    [NoFetch EXCEPT !.pc = "sent", !.since = since, !.synced = now,
                                    !.whole = Reconciles]]

RunSync(f) ==
    /\ declared # {}
    /\ ~syncing
    /\ Sends(f, cursor)
    /\ UNCHANGED <<env, server, declared, epoch, cursor, known, seeds, unnoted, inbox, idb>>

\* resetCursor forgets the cursor and the sync under way, and syncs at once.
\* resetCursorAndSync has stored the epoch before.
ResetCursor(f) ==
    /\ "reset" \in env
    /\ declared # {}
    /\ cursor' = 0
    /\ epoch' = TRUE
    /\ Sends(f, 0)
    /\ UNCHANGED <<env, server, declared, known, seeds, unnoted, inbox, idb>>

\* The route reads the rows that changed at or after the cursor.
ReadChanged(f) ==
    /\ fetch[f].pc = "sent"
    /\ fetch' = [fetch EXCEPT ![f].pc = "read", ![f].since = 0,
                    ![f].rows = [r \in Rows |->
                        IF r \in Exists /\ db[r].at >= fetch[f].since THEN db[r].ver ELSE 0]]
    /\ UNCHANGED <<env, server, worker, inbox, idb>>

\* safeFetch answers null: the sync ends, and counts.
FetchFails(f) ==
    /\ "fail" \in env
    /\ fetch[f].pc \in {"sent", "read"}
    /\ fetch' = [fetch EXCEPT ![f] = NoFetch]
    /\ syncing' = FALSE
    /\ UNCHANGED <<env, server, declared, epoch, cursor, count, known, seeds, unnoted, inbox, idb>>

\* The answer moves the cursor.  Without a reconciliation its rows are
\* broadcast and their ids are known from now on.
Merge(f) ==
    /\ fetch[f].pc = "read" /\ ~fetch[f].whole
    /\ RoomToTell
    /\ cursor' = fetch[f].synced
    /\ known' = (known \ NoIds) \cup In(fetch[f].rows)
    /\ unnoted' = (unnoted \/ known = NoIds)
    /\ inbox' = Told(fetch[f].rows, {})
    /\ fetch' = [fetch EXCEPT ![f] = NoFetch]
    /\ syncing' = FALSE
    /\ UNCHANGED <<env, server, declared, epoch, count, seeds, idb>>

\* With one, all ids are fetched first.
FetchIds(f) ==
    /\ fetch[f].pc = "read" /\ fetch[f].whole
    /\ cursor' = fetch[f].synced
    /\ fetch' = [fetch EXCEPT ![f].pc = "ids"]
    /\ UNCHANGED <<env, server, declared, epoch, syncing, count, known, seeds, unnoted, inbox, idb>>

ReadIds(f) ==
    /\ fetch[f].pc = "ids"
    /\ fetch' = [fetch EXCEPT ![f].pc = "listed", ![f].ids = Exists]
    /\ UNCHANGED <<env, server, worker, inbox, idb>>

\* The ids that this worker knows, or the tabs sent while it knew none.
Remembered == IF known = NoIds THEN seeds ELSE known

\* Those the server does not have are orphans.
Reconcile(f) ==
    /\ fetch[f].pc = "listed"
    /\ RoomToTell
    /\ inbox' = Told(fetch[f].rows, Remembered \ (fetch[f].ids \cup NoIds))
    /\ known' = fetch[f].ids \cup In(fetch[f].rows)
    /\ seeds' = NoIds
    /\ fetch' = [fetch EXCEPT ![f] = NoFetch]
    /\ syncing' = FALSE
    /\ UNCHANGED <<env, server, declared, epoch, cursor, count, unnoted, idb>>

\* The ids cannot be fetched: the rows are broadcast, and not noted.
ReconcileFails(f) ==
    /\ "fail" \in env
    /\ fetch[f].pc \in {"ids", "listed"}
    /\ RoomToTell
    /\ inbox' = Told(fetch[f].rows, {})
    /\ unnoted' = (unnoted \/ In(fetch[f].rows) \ known # {})
    /\ fetch' = [fetch EXCEPT ![f] = NoFetch]
    /\ syncing' = FALSE
    /\ UNCHANGED <<env, server, declared, epoch, cursor, count, known, seeds, idb>>

-----------------------------------------------------------------------------
(* The tabs *)

\* A tab declares what it needs and the ids of its copy.  At its start it has
\* stored the epoch if a row of its copy is in progress.
Declare(t, inProgress) ==
    /\ t \notin declared
    /\ inProgress => In(idb) # {}
    /\ declared' = declared \cup {t}
    /\ epoch' = (epoch \/ inProgress)
    /\ cursor' = IF epoch' THEN 0 ELSE cursor
    /\ seeds' = IF In(idb) = {} THEN seeds ELSE (seeds \ NoIds) \cup In(idb)
    /\ UNCHANGED <<env, server, syncing, count, known, unnoted, fetch, inbox, idb>>

\* A broadcast is written: orphans are removed before its rows are put,
\* whatever versions the copy holds.  Unless slow, no tab is behind another.
HandleData(t) ==
    /\ inbox[t] # <<>>
    /\ "slow" \in env \/ \A u \in Tabs : Len(inbox[u]) <= Len(inbox[t])
    /\ LET msg == Head(inbox[t]) IN
       idb' = [r \in Rows |-> IF msg.rows[r] > 0 THEN msg.rows[r]
                              ELSE IF r \in msg.orphans THEN 0 ELSE idb[r]]
    /\ inbox' = [inbox EXCEPT ![t] = Tail(@)]
    /\ UNCHANGED <<env, server, worker, fetch>>

\* The last tab closes, and the SharedWorker with it; the copy stays.
Restart ==
    /\ "restart" \in env
    /\ declared # {}
    /\ declared' = {}
    /\ cursor' = 0
    /\ syncing' = FALSE
    /\ count' = 0
    /\ known' = NoIds
    /\ seeds' = NoIds
    /\ unnoted' = FALSE
    /\ fetch' = [f \in Fetches |-> NoFetch]
    /\ inbox' = [t \in Tabs |-> <<>>]
    /\ UNCHANGED <<env, server, epoch, idb>>

\* A browser that was here before: its copy may hold rows that are gone.
InitIn(envs) ==
    /\ env \in envs
    /\ now = 1
    /\ db \in [Rows -> {[ver |-> 0, at |-> 0], [ver |-> 1, at |-> 1]}]
    /\ gone \in SUBSET {r \in Rows : db[r].ver = 1}
    /\ idb \in {page \in [Rows -> {0, 1}] : \A r \in Rows : page[r] <= db[r].ver}
    /\ declared = {}
    /\ epoch \in BOOLEAN
    /\ cursor = 0
    /\ syncing = FALSE
    /\ count = 0
    /\ known = NoIds
    /\ seeds = NoIds
    /\ unnoted = FALSE
    /\ fetch = [f \in Fetches |-> NoFetch]
    /\ inbox = [t \in Tabs |-> <<>>]

Init == InitIn(Envs)

FetchStep(f) ==
    \/ ReadChanged(f)
    \/ FetchFails(f)
    \/ Merge(f)
    \/ FetchIds(f)
    \/ ReadIds(f)
    \/ Reconcile(f)
    \/ ReconcileFails(f)

Next ==
    \/ Tick
    \/ \E r \in Rows, at \in Times : Write(r, at)
    \/ \E r \in Rows, here \in BOOLEAN : Delete(r, here)
    \/ \E f \in Fetches : RunSync(f) \/ ResetCursor(f) \/ FetchStep(f)
    \/ \E t \in Tabs, inProgress \in BOOLEAN : Declare(t, inProgress)
    \/ \E t \in Tabs : HandleData(t)
    \/ Restart

Spec == Init /\ [][Next]_vars

-----------------------------------------------------------------------------
(* Properties *)

\* Rows, ids, syncs under way and broadcasts keep their types.
TypeOK ==
    /\ env \subseteq Circumstances
    /\ now \in Times
    /\ db \in [Rows -> [ver : Versions, at : Times]]
    /\ gone \in SUBSET Rows
    /\ declared \in SUBSET Tabs
    /\ epoch \in BOOLEAN /\ syncing \in BOOLEAN /\ unnoted \in BOOLEAN
    /\ cursor \in Times
    /\ count \in 0 .. RECONCILE_EVERY
    /\ known \in IdSet /\ seeds \in IdSet
    /\ fetch \in [Fetches -> Fetch]
    /\ \A t \in Tabs : \A i \in 1 .. Len(inbox[t]) :
        inbox[t][i] \in [rows : Page, orphans : SUBSET Rows]
    /\ idb \in Page

\* The newest version of a row that the browser has or is about to be told.
Delivered(r, ver) ==
    \/ idb[r] >= ver
    \/ \E t \in Tabs : \E i \in 1 .. Len(inbox[t]) : inbox[t][i].rows[r] >= ver
    \/ \E f \in Fetches : fetch[f].pc \in {"ids", "listed"} /\ fetch[f].rows[r] >= ver

\* Behind the cursor nothing is missed: whatever overlaps or fails, a row that
\* changed before the cursor is in the copy, or on its way there, in its newest
\* version.  (Not if its transaction is late, tabs are slow, or a reset overlaps
\* a sync.)
NothingMissed ==
    env \cap {"late", "slow", "reset"} = {} =>
        \A r \in Exists : db[r].at < cursor => Delivered(r, db[r].ver)

\* A row leaves the copy only when it has left the database.
OnlyGoneRowsLeave == [][\A r \in Rows : idb[r] > 0 /\ idb'[r] = 0 => r \in gone']_idb

\* The copy has every row of the database, and no other.
Complete == \A r \in Exists : idb[r] = db[r].ver
Clean == \A r \in Rows \ Exists : idb[r] = 0

=============================================================================

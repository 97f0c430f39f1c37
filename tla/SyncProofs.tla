----------------------------- MODULE SyncProofs -----------------------------
(***************************************************************************)
(* Behind the cursor nothing is missed, for any rows, tabs, clocks and      *)
(* bounds: under a SharedWorker by what its one sync reads and tells, and   *)
(* without one by the cursor that the leading tab saves.                    *)
(***************************************************************************)
EXTENDS SyncLeader, SequenceTheorems, TLAPS

-----------------------------------------------------------------------------
(* The inductive invariant                                                  *)

\* A broadcast.
Message == [rows : Page, orphans : SUBSET Rows]
SyncTyped == TypeOK /\ inbox \in [Tabs -> Seq(Message)]

Busy(f) == fetch[f].pc # "free"
HasRead(f) == fetch[f].pc \in {"read", "ids", "listed"}
Reconciling(f) == fetch[f].pc \in {"ids", "listed"}
Tells(t, i, r) == inbox[t][i].rows[r]

\* Nothing that was written, asked or answered is of a later time than now.
Clock ==
    /\ \A r \in Rows : db[r].at <= now
    /\ cursor <= now
    /\ \A f \in Fetches : fetch[f].since <= now /\ fetch[f].synced <= now

\* One sync at a time, and somebody hears it; who has not declared hears nothing.
OneSync ==
    /\ \A f, g \in Fetches : Busy(f) /\ Busy(g) => f = g
    /\ \A f \in Fetches : Busy(f) => syncing /\ declared # {}
Deaf == \A t \in Tabs : t \notin declared => inbox[t] = <<>>

\* No version is ahead of the database, and what a sync says of a row is at least what
\* an earlier one said.
NotAhead ==
    \A r \in Rows :
        /\ idb[r] <= db[r].ver
        /\ \A f \in Fetches : fetch[f].rows[r] <= db[r].ver
        /\ \A t \in Tabs : \A i \in 1 .. Len(inbox[t]) : Tells(t, i, r) <= db[r].ver
InOrder ==
    \A t \in Tabs : \A i, j \in 1 .. Len(inbox[t]) : \A r \in Rows :
        i < j /\ Tells(t, i, r) = db[r].ver => Tells(t, j, r) \in {0, db[r].ver}
FetchLast ==
    \A f \in Fetches : \A t \in Tabs : \A i \in 1 .. Len(inbox[t]) : \A r \in Rows :
        HasRead(f) /\ Tells(t, i, r) = db[r].ver => fetch[f].rows[r] \in {0, db[r].ver}

\* What the browser knows of exists or existed; once a sync has read the ids, what it
\* knows of is among them or is gone.
KnownCreated == \A r \in Rows : r \in known \/ r \in seeds => db[r].ver > 0
Known(f, r) ==
    \/ r \in known \/ r \in seeds \/ idb[r] > 0 \/ fetch[f].rows[r] > 0
    \/ \E t \in Tabs : \E i \in 1 .. Len(inbox[t]) : Tells(t, i, r) > 0
Accounted ==
    \A f \in Fetches : fetch[f].pc = "listed" =>
        \A r \in Rows :
            /\ r \in fetch[f].ids => db[r].ver > 0
            /\ Known(f, r) => r \in fetch[f].ids \/ r \in gone
Orphaned == \A t \in Tabs : \A i \in 1 .. Len(inbox[t]) : inbox[t][i].orphans \subseteq gone

\* Every inbox is the end of the longest one.
Aligned ==
    \A t, u \in Tabs : Len(inbox[u]) <= Len(inbox[t]) =>
        \A k \in 1 .. Len(inbox[u]) : inbox[u][k] = inbox[t][Len(inbox[t]) - Len(inbox[u]) + k]

\* The newest version is in a broadcast, or in the copy with no broadcast about the row.
Here(r) ==
    \/ \E t \in Tabs : \E i \in 1 .. Len(inbox[t]) : Tells(t, i, r) = db[r].ver
    \/ /\ idb[r] = db[r].ver
       /\ \A t \in Tabs : \A i \in 1 .. Len(inbox[t]) : Tells(t, i, r) = 0
AsRead ==
    \A f \in Fetches : \A r \in Rows :
        HasRead(f) /\ db[r].at < fetch[f].synced => fetch[f].rows[r] \in {0, db[r].ver}
CursorOfFetch == \A f \in Fetches : Reconciling(f) => cursor <= fetch[f].synced
Follows ==
    \A r \in Exists :
        /\ db[r].at < cursor =>
              Here(r) \/ \E f \in Fetches : Reconciling(f) /\ fetch[f].rows[r] = db[r].ver
        /\ \A f \in Fetches : fetch[f].pc = "sent" /\ db[r].at < fetch[f].since => Here(r)
        /\ \A f \in Fetches : fetch[f].pc = "read" /\ db[r].at < fetch[f].synced =>
              Here(r) \/ fetch[f].rows[r] = db[r].ver

Undisturbed == env \cap {"late", "slow", "reset"} = {}
Lines == OneSync /\ NotAhead /\ InOrder /\ FetchLast /\ KnownCreated /\ Accounted /\ Orphaned
Course == Clock /\ Aligned /\ AsRead /\ CursorOfFetch /\ Follows
SyncInv ==
    /\ SyncTyped /\ Deaf
    /\ "reset" \notin env => Lines
    /\ Undisturbed => Course

\* What the copy has of the rows that changed before a time, but for those set back.
Covers(time) == \A r \in Exists \ setBack : db[r].at < time => idb[r] = db[r].ver

\* Without a SharedWorker: every cursor, the saved one, the one a sync began with and
\* the one it is to save, covers what it should, though other tabs sync as well.
LeadInv ==
    /\ \A t \in Tabs : \A r \in Rows : pull[t].rows[r] <= db[r].ver
    /\ "late" \notin env =>
        /\ \A r \in Rows : db[r].at <= now
        /\ saved <= now
        /\ \A t \in Tabs : pull[t].synced <= now /\ pull[t].since <= now
        /\ Covers(saved)
        /\ \A t \in Tabs :
            /\ pull[t].pc \in {"sent", "read"} => Covers(pull[t].since)
            /\ pull[t].pc = "read" => \A r \in Exists :
                  pull[t].since <= db[r].at /\ db[r].at < pull[t].synced => pull[t].rows[r] = db[r].ver
            /\ pull[t].pc = "put" => Covers(pull[t].synced)
\* Who does not sync has no cursor.
BrowserInv ==
    /\ BrowserTypeOK /\ SyncTyped
    /\ mode = "SharedWorker" => SyncInv /\ saved = 0
    /\ mode = "fallback" => cursor = 0
Led == mode = "fallback" => LeadInv

-----------------------------------------------------------------------------
(* Types                                                                    *)

LEMMA Bounds ==
    /\ Rows \subseteq Nat \ {0} /\ 0 \notin Rows
    /\ MaxTime \in Nat \ {0} /\ MaxVersion \in Nat \ {0} /\ RECONCILE_EVERY \in Nat \ {0}
    /\ 0 \in Times /\ 0 \in Versions /\ NoRows \in Page
    /\ NoIds = {0} /\ NoIds \in IdSet
<1>1. /\ Rows \subseteq Nat \ {0} /\ MaxTime \in Nat \ {0} /\ MaxVersion \in Nat \ {0}
      /\ RECONCILE_EVERY \in Nat \ {0}
  BY SyncAssumption
<1>2. 0 \in Times /\ 0 \in Versions
  BY <1>1 DEF Times, Versions
<1>3. NoRows \in Page
  BY <1>2 DEF NoRows, Page
<1>4. NoIds = {0} /\ NoIds \in IdSet
  <2>1. NoIds = {0}
    BY DEF NoIds
  <2>2. \A S, x : x \in S \cup {x}
    OBVIOUS
  <2>3. IdSet = (SUBSET Rows) \cup {NoIds}
    BY DEF IdSet
  <2>4. NoIds \in IdSet
    <3>1. NoIds \in (SUBSET Rows) \cup {NoIds}
      BY <2>2
    <3> QED
      BY <2>3, <3>1
  <2> QED
    BY <2>1, <2>4
<1> QED
  BY <1>1, <1>2, <1>3, <1>4

LEMMA NoFetchTyped == NoFetch \in Fetch /\ NoFetch.pc = "free" /\ NoFetch.rows = NoRows
BY Bounds DEF NoFetch, Fetch

\* What the types say of a broadcast and of a sync.
LEMMA TellsIs ==
    ASSUME SyncTyped, NEW t \in Tabs, NEW i \in 1 .. Len(inbox[t])
    PROVE  /\ inbox[t][i] \in Message /\ inbox[t][i].rows \in Page /\ inbox[t][i].orphans \in SUBSET Rows
           /\ \A r \in Rows : Tells(t, i, r) \in Nat /\ Tells(t, i, r) \in Versions
<1>1. inbox[t] \in Seq(Message)
  BY DEF SyncTyped
<1>2. inbox[t][i] \in Message
  BY <1>1, ElementOfSeq
<1> QED
  BY <1>2, Bounds DEF Message, Page, Versions, Tells

LEMMA FetchIs ==
    ASSUME SyncTyped, NEW f \in Fetches
    PROVE  /\ fetch[f] \in Fetch /\ fetch[f].rows \in Page /\ fetch[f].ids \in SUBSET Rows
           /\ fetch[f].since \in Times /\ fetch[f].synced \in Times /\ fetch[f].whole \in BOOLEAN
           /\ fetch[f].since \in Nat /\ fetch[f].synced \in Nat
           /\ fetch[f].pc \in {"free", "sent", "read", "ids", "listed"}
           /\ \A r \in Rows : fetch[f].rows[r] \in Nat /\ fetch[f].rows[r] \in Versions
<1>1. fetch[f] \in Fetch
  BY DEF SyncTyped, TypeOK
<1>2. Times \subseteq Nat /\ Versions \subseteq Nat
  BY Bounds DEF Times, Versions
<1> QED
  BY <1>1, <1>2 DEF Fetch, Page

LEMMA RowIs ==
    ASSUME SyncTyped, NEW r \in Rows
    PROVE  /\ db[r].ver \in Nat /\ db[r].at \in Nat /\ idb[r] \in Nat
           /\ db[r].ver \in Versions /\ db[r].at \in Times /\ idb[r] \in Versions
           /\ now \in Nat /\ cursor \in Nat
BY Bounds DEF SyncTyped, TypeOK, Page, Versions, Times

\* A broadcast joins the inbox of every tab that has declared.
LEMMA ToldAll ==
    ASSUME SyncTyped, NEW page \in Page, NEW orphans \in SUBSET Rows, inbox' = Told(page, orphans)
    PROVE  /\ inbox' \in [Tabs -> Seq(Message)]
           /\ \A t \in Tabs \ declared : inbox'[t] = inbox[t]
           /\ \A t \in Tabs \cap declared :
                /\ Len(inbox'[t]) = Len(inbox[t]) + 1 /\ Len(inbox[t]) \in Nat
                /\ \A i \in 1 .. Len(inbox[t]) : inbox'[t][i] = inbox[t][i]
                /\ inbox'[t][Len(inbox[t]) + 1] = [rows |-> page, orphans |-> orphans]
<1> DEFINE m == [rows |-> page, orphans |-> orphans]
<1>1. m \in Message /\ \A t \in Tabs : inbox[t] \in Seq(Message)
  BY DEF Message, SyncTyped
<1> HIDE DEF m
<1>2. inbox' = [t \in Tabs |-> IF t \in declared THEN Append(inbox[t], m) ELSE inbox[t]]
  BY DEF Told, m
<1>3. \A t \in Tabs :
        /\ Append(inbox[t], m) \in Seq(Message)
        /\ Len(Append(inbox[t], m)) = Len(inbox[t]) + 1 /\ Len(inbox[t]) \in Nat
        /\ \A i \in 1 .. Len(inbox[t]) : Append(inbox[t], m)[i] = inbox[t][i]
        /\ Append(inbox[t], m)[Len(inbox[t]) + 1] = m
  BY <1>1, AppendProperties, LenProperties
<1> QED
  BY <1>1, <1>2, <1>3 DEF m

\* A tab takes the first of its inbox.
LEMMA TakenFirst ==
    ASSUME SyncTyped, NEW t \in Tabs, inbox[t] # <<>>, inbox' = [inbox EXCEPT ![t] = Tail(@)]
    PROVE  /\ inbox' \in [Tabs -> Seq(Message)]
           /\ \A u \in Tabs \ {t} : inbox'[u] = inbox[u]
           /\ Len(inbox[t]) \in Nat \ {0} /\ Len(inbox'[t]) = Len(inbox[t]) - 1
           /\ \A i \in 1 .. Len(inbox'[t]) : inbox'[t][i] = inbox[t][i + 1]
           /\ Head(inbox[t]) = inbox[t][1]
<1>1. inbox[t] \in Seq(Message) /\ inbox \in [Tabs -> Seq(Message)]
  BY DEF SyncTyped
<1>2. /\ Tail(inbox[t]) \in Seq(Message) /\ Len(inbox[t]) \in Nat \ {0}
      /\ Len(Tail(inbox[t])) = Len(inbox[t]) - 1 /\ Head(inbox[t]) = inbox[t][1]
      /\ \A i \in 1 .. Len(Tail(inbox[t])) : Tail(inbox[t])[i] = inbox[t][i + 1]
  BY <1>1, HeadTailProperties, EmptySeq, LenProperties
<1> QED
  BY <1>1, <1>2

LEMMA CountTyped ==
    ASSUME TypeOK
    PROVE  Counted \in 0 .. RECONCILE_EVERY /\ Reconciles \in BOOLEAN
<1>1. Counted \in 0 .. RECONCILE_EVERY
  BY Bounds DEF TypeOK, Counted
<1>2. Reconciles \in BOOLEAN
  BY DEF Reconciles
<1> QED
  BY <1>1, <1>2

LEMMA SendsTyped ==
    ASSUME SyncTyped, NEW f \in Fetches, NEW since \in Times, Sends(f, since)
    PROVE  /\ fetch' \in [Fetches -> Fetch] /\ syncing' = TRUE /\ count' \in 0 .. RECONCILE_EVERY
           /\ fetch'[f].pc = "sent" /\ fetch'[f].since = since /\ fetch'[f].synced = now
           /\ fetch'[f].rows = NoRows
           /\ \A g \in Fetches \ {f} : fetch'[g] = fetch[g]
<1>1. PICK b \in BOOLEAN : b = Reconciles
  BY CountTyped DEF SyncTyped
<1> DEFINE s == [NoFetch EXCEPT !.pc = "sent", !.since = since, !.synced = now, !.whole = b]
<1>2. s \in Fetch /\ s.pc = "sent" /\ s.since = since /\ s.synced = now /\ s.rows = NoRows
  BY NoFetchTyped DEF SyncTyped, TypeOK, Fetch
<1>3. fetch' = [fetch EXCEPT ![f] = s]
  BY <1>1 DEF Sends
<1> HIDE DEF s
<1>4. fetch \in [Fetches -> Fetch]
  BY DEF SyncTyped, TypeOK
<1>5. fetch' \in [Fetches -> Fetch] /\ fetch'[f] = s /\ \A g \in Fetches \ {f} : fetch'[g] = fetch[g]
  BY <1>2, <1>3, <1>4
<1> QED
  BY <1>2, <1>5, CountTyped DEF Sends, SyncTyped

LEMMA FetchFreed ==
    ASSUME SyncTyped, NEW f \in Fetches, fetch' = [fetch EXCEPT ![f] = NoFetch]
    PROVE  /\ fetch' \in [Fetches -> Fetch] /\ fetch'[f] = NoFetch /\ ~Busy(f)'
           /\ \A g \in Fetches \ {f} : fetch'[g] = fetch[g]
<1>1. fetch \in [Fetches -> Fetch]
  BY DEF SyncTyped, TypeOK
<1> QED
  BY <1>1, NoFetchTyped DEF Busy

\* The steps of the database, of a sync and of a tab keep the types.
LEMMA DatabaseTyped ==
    ASSUME SyncTyped,
           \/ Tick
           \/ \E r \in Rows, at \in Times : Write(r, at)
           \/ \E r \in Rows, here \in BOOLEAN : Delete(r, here)
    PROVE  SyncTyped'
<1> USE DEF SyncTyped
<1>1. CASE Tick
  <2>1. now' \in Times
    BY <1>1, Bounds DEF Tick, TypeOK, Times
  <2> QED
    BY <1>1, <2>1 DEF Tick, TypeOK, worker
<1>2. ASSUME NEW r \in Rows, NEW at \in Times, Write(r, at) PROVE SyncTyped'
  <2>1. db[r].ver + 1 \in Versions
    BY <1>2, Bounds DEF Write, TypeOK, Versions
  <2>2. db' \in [Rows -> [ver : Versions, at : Times]]
    BY <1>2, <2>1 DEF Write, TypeOK
  <2> QED
    BY <1>2, <2>2 DEF Write, TypeOK, worker
<1>3. ASSUME NEW r \in Rows, NEW here \in BOOLEAN, Delete(r, here) PROVE SyncTyped'
  <2>1. idb' \in Page /\ gone' \in SUBSET Rows
    BY <1>3, Bounds DEF Delete, TypeOK, Page, Exists
  <2> QED
    BY <1>3, <2>1 DEF Delete, TypeOK, worker
<1> QED
  BY <1>1, <1>2, <1>3 DEF Database

LEMMA SyncStepTyped ==
    ASSUME SyncTyped, NEW f \in Fetches, RunSync(f) \/ ResetCursor(f) \/ FetchStep(f)
    PROVE  SyncTyped'
<1>0. /\ SyncTyped /\ TypeOK /\ inbox \in [Tabs -> Seq(Message)] /\ fetch \in [Fetches -> Fetch]
      /\ fetch[f].rows \in Page /\ fetch[f].ids \in SUBSET Rows /\ fetch[f].synced \in Times
      /\ 0 \in Times
  BY FetchIs, Bounds DEF SyncTyped, TypeOK
<1>m. ASSUME inbox' \in [Tabs -> Seq(Message)]
      PROVE  \A t \in Tabs : \A i \in 1 .. Len(inbox'[t]) : inbox'[t][i] \in [rows : Page, orphans : SUBSET Rows]
  BY <1>m, ElementOfSeq DEF Message
<1>1. CASE RunSync(f)
  <2>1. cursor \in Times
    BY <1>0 DEF TypeOK
  <2>2. fetch' \in [Fetches -> Fetch] /\ syncing' = TRUE /\ count' \in 0 .. RECONCILE_EVERY
    BY <1>1, <2>1, SendsTyped DEF RunSync
  <2> QED
    BY <1>0, <1>1, <2>2 DEF RunSync, SyncTyped, TypeOK, server
<1>2. CASE ResetCursor(f)
  <2>2. fetch' \in [Fetches -> Fetch] /\ syncing' = TRUE /\ count' \in 0 .. RECONCILE_EVERY
    BY <1>0, <1>2, SendsTyped DEF ResetCursor
  <2> QED
    BY <1>0, <1>2, <2>2 DEF ResetCursor, SyncTyped, TypeOK, server
<1>3. CASE ReadChanged(f)
  <2> DEFINE page == [r \in Rows |-> IF r \in Exists /\ db[r].at >= fetch[f].since THEN db[r].ver ELSE 0]
  <2>1. page \in Page
    BY <1>0, Bounds DEF TypeOK, Page
  <2>2. fetch' = [fetch EXCEPT ![f].pc = "read", ![f].since = 0, ![f].rows = page]
    BY <1>3 DEF ReadChanged
  <2> HIDE DEF page
  <2> DEFINE s == [fetch[f] EXCEPT !.pc = "read", !.since = 0, !.rows = page]
  <2>4. s \in Fetch
    BY <1>0, <2>1, FetchIs DEF Fetch
  <2>5. fetch' = [fetch EXCEPT ![f] = s]
    BY <1>0, <2>2
  <2> HIDE DEF s
  <2>3. fetch' \in [Fetches -> Fetch]
    BY <1>0, <2>4, <2>5
  <2> QED
    BY <1>0, <1>3, <2>3 DEF ReadChanged, SyncTyped, TypeOK, server, worker
<1>4. CASE FetchFails(f)
  <2>1. fetch' \in [Fetches -> Fetch]
    BY <1>4, FetchFreed DEF FetchFails
  <2> QED
    BY <1>0, <1>4, <2>1 DEF FetchFails, SyncTyped, TypeOK, server
<1>5. CASE Merge(f)
  <2>1. fetch' \in [Fetches -> Fetch] /\ inbox' \in [Tabs -> Seq(Message)]
    <3>1. {} \in SUBSET Rows
      OBVIOUS
    <3> QED
      BY <1>0, <1>5, <3>1, FetchFreed, ToldAll DEF Merge
  <2>2. known' \in IdSet
    BY <1>0, <1>5, Bounds DEF Merge, IdSet, In, TypeOK
  <2> QED
    BY <1>0, <1>5, <1>m, <2>1, <2>2 DEF Merge, SyncTyped, TypeOK, server
<1>6. CASE FetchIds(f)
  <2>1. fetch' \in [Fetches -> Fetch]
    BY <1>0, <1>6 DEF FetchIds, Fetch
  <2> QED
    BY <1>0, <1>6, <2>1 DEF FetchIds, SyncTyped, TypeOK, server
<1>7. CASE ReadIds(f)
  <2>1. Exists \in SUBSET Rows
    BY DEF Exists
  <2>2. fetch' \in [Fetches -> Fetch]
    BY <1>0, <1>7, <2>1 DEF ReadIds, Fetch
  <2> QED
    BY <1>0, <1>7, <2>2 DEF ReadIds, SyncTyped, TypeOK, server, worker
<1>8. CASE Reconcile(f)
  <2>1. Remembered \ (fetch[f].ids \cup NoIds) \in SUBSET Rows
    BY <1>0, Bounds DEF Remembered, IdSet, TypeOK
  <2>2. fetch' \in [Fetches -> Fetch] /\ inbox' \in [Tabs -> Seq(Message)]
    BY <1>0, <1>8, <2>1, FetchFreed, ToldAll DEF Reconcile
  <2>3. known' \in IdSet /\ seeds' \in IdSet
    BY <1>0, <1>8, Bounds DEF Reconcile, IdSet, In, TypeOK
  <2> QED
    BY <1>0, <1>8, <1>m, <2>2, <2>3 DEF Reconcile, SyncTyped, TypeOK, server
<1>9. CASE ReconcileFails(f)
  <2>1. fetch' \in [Fetches -> Fetch] /\ inbox' \in [Tabs -> Seq(Message)]
    <3>1. {} \in SUBSET Rows
      OBVIOUS
    <3> QED
      BY <1>0, <1>9, <3>1, FetchFreed, ToldAll DEF ReconcileFails
  <2> QED
    BY <1>0, <1>9, <1>m, <2>1 DEF ReconcileFails, SyncTyped, TypeOK, server
<1> QED
  BY <1>1, <1>2, <1>3, <1>4, <1>5, <1>6, <1>7, <1>8, <1>9 DEF FetchStep

\* What is in the copy when a broadcast is written.
Put(msg) == [r \in Rows |-> IF msg.rows[r] > 0 THEN msg.rows[r] ELSE IF r \in msg.orphans THEN 0 ELSE idb[r]]

LEMMA HandleTyped ==
    ASSUME SyncTyped, NEW t \in Tabs, HandleData(t)
    PROVE  /\ SyncTyped' /\ inbox[t] # <<>> /\ 1 \in 1 .. Len(inbox[t])
           /\ inbox' = [inbox EXCEPT ![t] = Tail(@)]
           /\ idb' = Put(inbox[t][1]) /\ UNCHANGED <<env, server, worker, fetch>>
<1>1. inbox[t] # <<>> /\ inbox' = [inbox EXCEPT ![t] = Tail(@)]
  BY DEF HandleData
<1>2. /\ inbox' \in [Tabs -> Seq(Message)] /\ Head(inbox[t]) = inbox[t][1]
      /\ 1 \in 1 .. Len(inbox[t])
  <2>1. /\ inbox' \in [Tabs -> Seq(Message)] /\ Head(inbox[t]) = inbox[t][1]
        /\ Len(inbox[t]) \in Nat \ {0}
    BY <1>1, TakenFirst
  <2> QED
    BY <2>1
<1>3. idb' = Put(inbox[t][1]) /\ UNCHANGED <<env, server, worker, fetch>>
  BY <1>2 DEF HandleData, Put
<1>4. inbox[t][1].rows \in Page
  BY <1>2, TellsIs
<1>5. idb' \in Page
  BY <1>3, <1>4, Bounds DEF Put, Page, SyncTyped, TypeOK
<1>6. \A u \in Tabs : \A i \in 1 .. Len(inbox'[u]) : inbox'[u][i] \in [rows : Page, orphans : SUBSET Rows]
  BY <1>2, ElementOfSeq DEF Message
<1> QED
  BY <1>1, <1>2, <1>3, <1>5, <1>6 DEF SyncTyped, TypeOK, server, worker

LEMMA TabsTyped ==
    ASSUME SyncTyped,
           Restart \/ (\E t \in Tabs, inProgress \in BOOLEAN : Declare(t, inProgress)) \/ \E t \in Tabs : HandleData(t)
    PROVE  SyncTyped'
<1>0. TypeOK /\ inbox \in [Tabs -> Seq(Message)] /\ 0 \in Times /\ NoIds \in IdSet
  BY Bounds DEF SyncTyped
<1>1. ASSUME NEW t \in Tabs, NEW p \in BOOLEAN, Declare(t, p) PROVE SyncTyped'
  <2>1. epoch' \in BOOLEAN
    BY <1>0, <1>1 DEF Declare, TypeOK
  <2>2. cursor' \in Times
    BY <1>0, <1>1 DEF Declare, TypeOK
  <2>3. seeds' \in IdSet
    BY <1>0, <1>1, Bounds DEF Declare, TypeOK, IdSet, In
  <2> QED
    BY <1>0, <1>1, <2>1, <2>2, <2>3 DEF Declare, SyncTyped, TypeOK, server
<1>2. CASE Restart
  <2>1. inbox' \in [Tabs -> Seq(Message)] /\ \A t \in Tabs : inbox'[t] = <<>>
    BY <1>2 DEF Restart
  <2>2. fetch' \in [Fetches -> Fetch]
    BY <1>2, NoFetchTyped DEF Restart
  <2>3. \A u \in Tabs : \A i \in 1 .. Len(inbox'[u]) : inbox'[u][i] \in [rows : Page, orphans : SUBSET Rows]
    BY <2>1, ElementOfSeq DEF Message
  <2>4. 0 \in 0 .. RECONCILE_EVERY
    BY Bounds
  <2> QED
    BY <1>0, <1>2, <2>1, <2>2, <2>3, <2>4 DEF Restart, SyncTyped, TypeOK, server
<1> QED
  BY <1>1, <1>2, HandleTyped

LEMMA NextTyped ==
    ASSUME SyncTyped, Next
    PROVE  SyncTyped'
BY DatabaseTyped, SyncStepTyped, TabsTyped DEF Next

-----------------------------------------------------------------------------
(* The database                                                             *)

\* A row that is written is newer than anything that was told or asked.
LEMMA WriteKeeps ==
    ASSUME SyncTyped, NEW r \in Rows, NEW at \in Times, Write(r, at)
    PROVE  /\ Lines => Lines'
           /\ Undisturbed /\ Lines /\ Course => Course'
<1>0. /\ db'[r].ver = db[r].ver + 1 /\ db'[r].at = at /\ \A q \in Rows \ {r} : db'[q] = db[q]
      /\ env' = env /\ now' = now /\ gone' = gone /\ fetch' = fetch /\ inbox' = inbox /\ idb' = idb
      /\ r \notin gone
      /\ declared' = declared /\ cursor' = cursor /\ syncing' = syncing /\ known' = known /\ seeds' = seeds
      /\ Exists' = Exists \cup {r}
  <2>1. db' = [db EXCEPT ![r] = [ver |-> db[r].ver + 1, at |-> at]]
    BY DEF Write
  <2>2. db'[r].ver = db[r].ver + 1 /\ db'[r].at = at /\ \A q \in Rows \ {r} : db'[q] = db[q]
    BY <2>1 DEF SyncTyped, TypeOK
  <2> QED
    BY <2>2, RowIs DEF Write, Exists, worker
<1>1. \A q \in Rows : /\ db[q].ver \in Nat /\ db[q].at \in Nat /\ idb[q] \in Nat
                      /\ db'[q].ver \in Nat /\ db[q].ver <= db'[q].ver
  <2>1. \A q \in Rows : db[q].ver \in Nat /\ db[q].at \in Nat /\ idb[q] \in Nat
    BY RowIs
  <2> QED
    BY <1>0, <2>1
<1>4. \A q \in Rows :
          /\ \A f \in Fetches : fetch[f].rows[q] \in Nat
          /\ \A t \in Tabs : \A i \in 1 .. Len(inbox[t]) : Tells(t, i, q) \in Nat
  BY FetchIs, TellsIs
<1>5. /\ \A f \in Fetches : fetch[f].synced \in Nat /\ fetch[f].since \in Nat
      /\ now \in Nat /\ cursor \in Nat
  BY FetchIs, RowIs
<1>6. \A t, i, q : Tells(t, i, q)' = Tells(t, i, q)
  BY <1>0 DEF Tells
<1>2. ASSUME Lines PROVE Lines'
  <2>1. OneSync'
    BY <1>0, <1>2 DEF Lines, OneSync, Busy
  <2>a. NotAhead
    BY <1>2 DEF Lines
  <2>2. NotAhead'
    <3> SUFFICES ASSUME NEW q \in Rows
                 PROVE  /\ idb[q] <= db'[q].ver
                        /\ \A f \in Fetches : fetch[f].rows[q] <= db'[q].ver
                        /\ \A t \in Tabs : \A i \in 1 .. Len(inbox[t]) : Tells(t, i, q) <= db'[q].ver
      BY <1>0, <1>6 DEF NotAhead
    <3>1. /\ idb[q] <= db[q].ver
          /\ \A f \in Fetches : fetch[f].rows[q] <= db[q].ver
          /\ \A t \in Tabs : \A i \in 1 .. Len(inbox[t]) : Tells(t, i, q) <= db[q].ver
      BY <2>a DEF NotAhead
    <3> QED
      BY <1>1, <1>4, <3>1
  <2>b. \A t \in Tabs : \A i \in 1 .. Len(inbox[t]) : Tells(t, i, r) # db'[r].ver
    BY <1>0, <1>1, <1>4, <2>a DEF NotAhead
  <2>3. InOrder'
    <3> SUFFICES ASSUME NEW t \in Tabs, NEW i \in 1 .. Len(inbox[t]), NEW j \in 1 .. Len(inbox[t]),
                        NEW q \in Rows, i < j, Tells(t, i, q) = db'[q].ver
                 PROVE  Tells(t, j, q) \in {0, db'[q].ver}
      BY <1>0, <1>6 DEF InOrder
    <3>1. q # r
      BY <2>b
    <3>2. db'[q] = db[q]
      BY <1>0, <3>1
    <3> QED
      BY <1>2, <3>2 DEF Lines, InOrder
  <2>4. FetchLast'
    <3> SUFFICES ASSUME NEW f \in Fetches, NEW t \in Tabs, NEW i \in 1 .. Len(inbox[t]),
                        NEW q \in Rows, HasRead(f), Tells(t, i, q) = db'[q].ver
                 PROVE  fetch[f].rows[q] \in {0, db'[q].ver}
      BY <1>0, <1>6 DEF FetchLast, HasRead
    <3>1. q # r
      BY <2>b
    <3>2. db'[q] = db[q]
      BY <1>0, <3>1
    <3> QED
      BY <1>2, <3>2 DEF Lines, FetchLast
  <2>5. KnownCreated'
    BY <1>0, <1>1, <1>2 DEF Lines, KnownCreated
  <2>6. Accounted'
    <3> SUFFICES ASSUME NEW f \in Fetches, fetch[f].pc = "listed", NEW q \in Rows
                 PROVE  /\ q \in fetch[f].ids => db'[q].ver > 0
                        /\ Known(f, q)' => q \in fetch[f].ids \/ q \in gone
      BY <1>0 DEF Accounted
    <3>1. Known(f, q)' => Known(f, q)
      BY <1>0, <1>6 DEF Known
    <3>2. /\ q \in fetch[f].ids => db[q].ver > 0
          /\ Known(f, q) => q \in fetch[f].ids \/ q \in gone
      BY <1>2 DEF Lines, Accounted
    <3>3. db[q].ver > 0 => db'[q].ver > 0
      <4>1. db[q].ver \in Nat /\ db'[q].ver \in Nat /\ db[q].ver <= db'[q].ver
        BY <1>1
      <4> QED
        BY <4>1
    <3> QED
      BY <3>1, <3>2, <3>3
  <2>7. Orphaned'
    BY <1>0, <1>2 DEF Lines, Orphaned
  <2> QED
    BY <2>1, <2>2, <2>3, <2>4, <2>5, <2>6, <2>7 DEF Lines
<1>3. ASSUME Undisturbed, Lines, Course PROVE Course'
  <2>0. at = now
    BY <1>3 DEF Write, Undisturbed
  <2>a. /\ \A q \in Rows : db[q].at <= now
        /\ cursor <= now
        /\ \A f \in Fetches : fetch[f].since <= now /\ fetch[f].synced <= now
    BY <1>3 DEF Course, Clock
  <2>b. \A q \in Rows : db'[q].at \in Nat /\ db'[q].at <= now
    BY <1>0, <1>1, <1>5, <2>0, <2>a
  <2>1. Clock'
    BY <1>0, <2>a, <2>b DEF Clock
  <2>2. Aligned'
    BY <1>0, <1>3 DEF Course, Aligned
  <2>3. AsRead'
    <3> SUFFICES ASSUME NEW f \in Fetches, NEW q \in Rows, HasRead(f), db'[q].at < fetch[f].synced
                 PROVE  fetch[f].rows[q] \in {0, db'[q].ver}
      BY <1>0 DEF AsRead, HasRead
    <3>1. q # r
      BY <1>0, <1>5, <2>0, <2>a
    <3>2. db'[q] = db[q]
      BY <1>0, <3>1
    <3> QED
      BY <1>3, <3>2 DEF Course, AsRead
  <2>4. CursorOfFetch'
    BY <1>0, <1>3 DEF Course, CursorOfFetch, Reconciling
  <2>5. Follows'
    <3> SUFFICES ASSUME NEW q \in Exists'
                 PROVE  /\ db'[q].at < cursor =>
                              Here(q)' \/ \E f \in Fetches : Reconciling(f) /\ fetch[f].rows[q] = db'[q].ver
                        /\ \A f \in Fetches : fetch[f].pc = "sent" /\ db'[q].at < fetch[f].since => Here(q)'
                        /\ \A f \in Fetches : fetch[f].pc = "read" /\ db'[q].at < fetch[f].synced =>
                              Here(q)' \/ fetch[f].rows[q] = db'[q].ver
      BY <1>0 DEF Follows, Reconciling
    <3>1. CASE q = r
      BY <1>0, <1>5, <2>0, <2>a, <3>1
    <3>2. CASE q # r
      <4>1. q \in Exists /\ q \in Rows /\ db'[q] = db[q]
        BY <1>0, <3>2 DEF Exists
      <4>2. Here(q) => Here(q)'
        BY <1>0, <1>6, <4>1 DEF Here
      <4>3. Follows
        BY <1>3 DEF Course
      <4> QED
        BY <4>1, <4>2, <4>3 DEF Follows
    <3> QED
      BY <3>1, <3>2
  <2> QED
    BY <2>1, <2>2, <2>3, <2>4, <2>5 DEF Course
<1> QED
  BY <1>2, <1>3

LEMMA DeleteKeeps ==
    ASSUME SyncTyped, NEW r \in Rows, NEW here \in BOOLEAN, Delete(r, here)
    PROVE  /\ Lines => Lines'
           /\ Course => Course'
<1>0. /\ env' = env /\ now' = now /\ db' = db /\ fetch' = fetch /\ inbox' = inbox /\ gone' = gone \cup {r}
      /\ declared' = declared /\ cursor' = cursor /\ syncing' = syncing /\ known' = known /\ seeds' = seeds
      /\ \A q \in Rows : idb'[q] = idb[q] \/ (q = r /\ idb'[q] = 0)
      /\ Exists' = Exists \ {r} /\ r \in Exists
  BY DEF Delete, Exists, SyncTyped, TypeOK, Page, worker
<1>1. \A q \in Rows : db[q].ver \in Nat /\ idb[q] \in Nat
  BY RowIs
<1>6. \A t, i, q : Tells(t, i, q)' = Tells(t, i, q)
  BY <1>0 DEF Tells
<1>2. ASSUME Lines PROVE Lines'
  <2>1. OneSync'
    BY <1>0, <1>2 DEF Lines, OneSync, Busy
  <2>2. NotAhead'
    <3>1. \A q \in Rows : idb'[q] <= idb[q] /\ idb'[q] \in Nat
      BY <1>0, <1>1
    <3> QED
      BY <1>0, <1>1, <1>2, <1>6, <3>1 DEF Lines, NotAhead
  <2>3. InOrder'
    BY <1>0, <1>2, <1>6 DEF Lines, InOrder
  <2>4. FetchLast'
    BY <1>0, <1>2, <1>6 DEF Lines, FetchLast, HasRead
  <2>5. KnownCreated'
    BY <1>0, <1>2 DEF Lines, KnownCreated
  <2>6. Accounted'
    <3> SUFFICES ASSUME NEW f \in Fetches, fetch[f].pc = "listed", NEW q \in Rows
                 PROVE  /\ q \in fetch[f].ids => db[q].ver > 0
                        /\ Known(f, q)' => q \in fetch[f].ids \/ q \in gone'
      BY <1>0 DEF Accounted
    <3>1. idb'[q] > 0 => idb[q] > 0
      <4>1. idb'[q] = idb[q] \/ idb'[q] = 0
        BY <1>0
      <4>2. ~(0 > 0)
        OBVIOUS
      <4> QED
        BY <4>1, <4>2
    <3>2. Known(f, q)' => Known(f, q)
      BY <1>0, <1>6, <3>1 DEF Known
    <3>3. /\ q \in fetch[f].ids => db[q].ver > 0
          /\ Known(f, q) => q \in fetch[f].ids \/ q \in gone
      BY <1>2 DEF Lines, Accounted
    <3> QED
      BY <1>0, <3>2, <3>3
  <2>7. Orphaned'
    BY <1>0, <1>2 DEF Lines, Orphaned
  <2> QED
    BY <2>1, <2>2, <2>3, <2>4, <2>5, <2>6, <2>7 DEF Lines
<1>3. ASSUME Course PROVE Course'
  <2>1. Clock' /\ Aligned' /\ AsRead' /\ CursorOfFetch'
    <3>1. Clock'
      BY <1>0, <1>3 DEF Course, Clock
    <3>2. Aligned'
      BY <1>0, <1>3 DEF Course, Aligned
    <3>3. AsRead' /\ CursorOfFetch'
      BY <1>0, <1>3 DEF Course, AsRead, HasRead, CursorOfFetch, Reconciling
    <3> QED
      BY <3>1, <3>2, <3>3
  <2>2. \A q \in Exists' : q \in Exists /\ (Here(q) => Here(q)')
    BY <1>0, <1>6 DEF Here, Exists
  <2>3. Follows'
    <3>1. Follows
      BY <1>3 DEF Course
    <3> QED
      BY <1>0, <2>2, <3>1 DEF Follows, Reconciling
  <2> QED
    BY <2>1, <2>3 DEF Course
<1> QED
  BY <1>2, <1>3

LEMMA TickKeeps ==
    ASSUME SyncTyped, Tick
    PROVE  /\ Lines => Lines'
           /\ Course => Course'
<1>0. /\ env' = env /\ db' = db /\ gone' = gone /\ fetch' = fetch /\ inbox' = inbox /\ idb' = idb
      /\ declared' = declared /\ cursor' = cursor /\ syncing' = syncing /\ known' = known /\ seeds' = seeds
      /\ now' = now + 1 /\ now \in Nat /\ Exists' = Exists
  BY Bounds DEF Tick, Exists, SyncTyped, TypeOK, Times, worker
<1>1. \A q \in Rows : db[q].at \in Nat
  BY RowIs
<1>6. \A t, i, q : Tells(t, i, q)' = Tells(t, i, q)
  BY <1>0 DEF Tells
<1>2. Clock => Clock'
  <2>1. cursor \in Nat
    BY Bounds DEF SyncTyped, TypeOK, Times
  <2>2. \A f \in Fetches : fetch[f].synced \in Nat /\ fetch[f].since \in Nat
    BY FetchIs
  <2> QED
    BY <1>0, <1>1, <2>1, <2>2 DEF Clock
<1>3. Aligned' = Aligned /\ AsRead' = AsRead /\ CursorOfFetch' = CursorOfFetch
  BY <1>0 DEF Aligned, AsRead, HasRead, CursorOfFetch, Reconciling
<1>4. Follows => Follows'
  <2>1. \A q \in Rows : Here(q)' <=> Here(q)
    BY <1>0, <1>6 DEF Here
  <2> QED
    BY <1>0, <2>1 DEF Follows, Reconciling, Exists
<1>5. Lines => Lines'
  <2>1. OneSync => OneSync'
    BY <1>0 DEF OneSync, Busy
  <2>2. NotAhead => NotAhead'
    BY <1>0, <1>6 DEF NotAhead
  <2>3. InOrder => InOrder'
    BY <1>0, <1>6 DEF InOrder
  <2>4. FetchLast => FetchLast'
    BY <1>0, <1>6 DEF FetchLast, HasRead
  <2>5. KnownCreated => KnownCreated'
    BY <1>0 DEF KnownCreated
  <2>6. Accounted => Accounted'
    <3>1. \A f, q : Known(f, q)' <=> Known(f, q)
      BY <1>0, <1>6 DEF Known
    <3> QED
      BY <1>0, <3>1 DEF Accounted
  <2>7. Orphaned => Orphaned'
    BY <1>0 DEF Orphaned
  <2> QED
    BY <2>1, <2>2, <2>3, <2>4, <2>5, <2>6, <2>7 DEF Lines
<1> QED
  BY <1>2, <1>3, <1>4, <1>5 DEF Course

-----------------------------------------------------------------------------
(* A sync                                                                   *)

\* While a sync is under way no other one is.
LEMMA OnlyThis ==
    ASSUME OneSync, NEW f \in Fetches, Busy(f)
    PROVE  \A g \in Fetches : Busy(g) <=> g = f
BY DEF OneSync

\* A sync that starts asks from the cursor on.
LEMMA RunKeeps ==
    ASSUME SyncTyped, NEW f \in Fetches, RunSync(f)
    PROVE  /\ Lines => Lines'
           /\ Lines /\ Course => Course'
<1>0. /\ env' = env /\ now' = now /\ db' = db /\ gone' = gone /\ inbox' = inbox /\ idb' = idb
      /\ declared' = declared /\ cursor' = cursor /\ known' = known /\ seeds' = seeds
      /\ declared # {} /\ ~syncing /\ syncing' = TRUE /\ Exists' = Exists
  BY DEF RunSync, Sends, server, Exists
<1>1. /\ fetch'[f].pc = "sent" /\ fetch'[f].since = cursor /\ fetch'[f].synced = now
      /\ fetch'[f].rows = NoRows
      /\ \A g \in Fetches \ {f} : fetch'[g] = fetch[g]
  BY SendsTyped DEF RunSync, SyncTyped, TypeOK
<1>2. \A t, i, q : Tells(t, i, q)' = Tells(t, i, q)
  BY <1>0 DEF Tells
<1>3. ASSUME Lines PROVE \A g \in Fetches : ~Busy(g) /\ (Busy(g)' <=> g = f)
  BY <1>0, <1>1, <1>3 DEF Lines, OneSync, Busy
<1>4. ASSUME Lines PROVE \A g \in Fetches : ~HasRead(g)' /\ ~Reconciling(g)' /\ ~Reconciling(g)
  BY <1>1, <1>3, <1>4 DEF HasRead, Reconciling, Busy
<1>5. ASSUME Lines PROVE Lines'
  <2>1. OneSync'
    BY <1>0, <1>3, <1>5 DEF OneSync
  <2>2. NotAhead'
    <3>1. \A q \in Rows : fetch'[f].rows[q] = 0 /\ db[q].ver \in Nat
      BY <1>1, RowIs DEF NoRows
    <3>2. \A q \in Rows : \A g \in Fetches : fetch'[g].rows[q] = 0 \/ fetch'[g].rows[q] = fetch[g].rows[q]
      BY <1>1, <3>1
    <3> QED
      BY <1>0, <1>2, <1>5, <3>1, <3>2 DEF Lines, NotAhead
  <2>3. InOrder'
    BY <1>0, <1>2, <1>5 DEF Lines, InOrder
  <2>4. FetchLast'
    BY <1>4, <1>5 DEF FetchLast
  <2>5. KnownCreated' /\ Orphaned'
    BY <1>0, <1>5 DEF Lines, KnownCreated, Orphaned
  <2>6. Accounted'
    BY <1>4, <1>5 DEF Accounted, HasRead
  <2> QED
    BY <2>1, <2>2, <2>3, <2>4, <2>5, <2>6 DEF Lines
<1>6. ASSUME Lines, Course PROVE Course'
  <2>1. Clock'
    <3>1. \A g \in Fetches : fetch'[g].since \in {cursor, fetch[g].since} /\ fetch'[g].synced \in {now, fetch[g].synced}
      BY <1>1
    <3>2. now \in Nat /\ Clock
      BY <1>6, Bounds DEF Course, SyncTyped, TypeOK, Times
    <3> QED
      BY <1>0, <3>1, <3>2 DEF Clock
  <2>2. Aligned'
    BY <1>0, <1>6 DEF Course, Aligned
  <2>3. AsRead' /\ CursorOfFetch'
    BY <1>4, <1>6 DEF AsRead, CursorOfFetch
  <2>4. Follows'
    <3>1. \A q \in Exists : Here(q)' <=> Here(q)
      BY <1>0, <1>2 DEF Here
    <3>2. \A q \in Exists : db[q].at < cursor => Here(q)
      BY <1>4, <1>6 DEF Course, Follows
    <3>3. \A g \in Fetches : /\ fetch'[g].pc = "sent" => fetch'[g].since = cursor
                             /\ fetch'[g].pc # "read"
      BY <1>1, <1>3, <1>6 DEF Busy
    <3> QED
      BY <1>0, <3>1, <3>2, <3>3 DEF Follows
  <2> QED
    BY <2>1, <2>2, <2>3, <2>4 DEF Course
<1> QED
  BY <1>5, <1>6

\* What a sync reads is what is there, of each row that changed since what it asked.
LEMMA ReadKeeps ==
    ASSUME SyncTyped, NEW f \in Fetches, ReadChanged(f)
    PROVE  /\ Lines => Lines'
           /\ Lines /\ Course => Course'
<1>0. /\ env' = env /\ now' = now /\ db' = db /\ gone' = gone /\ inbox' = inbox /\ idb' = idb
      /\ declared' = declared /\ cursor' = cursor /\ known' = known /\ seeds' = seeds
      /\ syncing' = syncing /\ Exists' = Exists /\ fetch[f].pc = "sent"
  BY DEF ReadChanged, server, worker, Exists
<1> DEFINE page == [q \in Rows |-> IF q \in Exists /\ db[q].at >= fetch[f].since THEN db[q].ver ELSE 0]
<1>a. fetch \in [Fetches -> Fetch]
  BY DEF SyncTyped, TypeOK
<1>b. fetch[f] \in Fetch
  BY <1>a
<1>1. /\ fetch'[f].pc = "read" /\ fetch'[f].since = 0 /\ fetch'[f].synced = fetch[f].synced
      /\ fetch'[f].rows = page
      /\ \A g \in Fetches \ {f} : fetch'[g] = fetch[g]
  BY <1>a, <1>b DEF ReadChanged, Fetch
<1>2. \A t, i, q : Tells(t, i, q)' = Tells(t, i, q)
  BY <1>0 DEF Tells
<1>3. \A q \in Rows :
        /\ fetch'[f].rows[q] \in {0, db[q].ver}
        /\ q \in Exists /\ db[q].at >= fetch[f].since => fetch'[f].rows[q] = db[q].ver
        /\ db[q].ver \in Nat /\ db[q].at \in Nat /\ fetch[f].since \in Nat
  BY <1>1, RowIs, FetchIs
<1> HIDE DEF page
<1>4. ASSUME Lines PROVE \A g \in Fetches : g # f => fetch[g].pc = "free" /\ fetch'[g].pc = "free"
  <2>1. OneSync /\ Busy(f)
    BY <1>0, <1>4 DEF Lines, Busy
  <2> QED
    BY <1>1, <2>1, OnlyThis DEF Busy
<1>5. ASSUME Lines PROVE Lines'
  <2>1. OneSync'
    <3>1. \A g \in Fetches : Busy(g)' <=> Busy(g)
      BY <1>0, <1>1 DEF Busy
    <3> QED
      BY <1>0, <1>5, <3>1 DEF Lines, OneSync
  <2>2. NotAhead'
    <3>1. \A q \in Rows : \A g \in Fetches : fetch'[g].rows[q] \in {0, db[q].ver, fetch[g].rows[q]}
      BY <1>1, <1>3
    <3> QED
      BY <1>0, <1>2, <1>3, <1>5, <3>1 DEF Lines, NotAhead
  <2>3. InOrder'
    BY <1>0, <1>2, <1>5 DEF Lines, InOrder
  <2>4. FetchLast'
    <3>1. \A g \in Fetches : HasRead(g)' => g = f
      BY <1>4, <1>5 DEF HasRead
    <3> QED
      BY <1>0, <1>3, <3>1 DEF FetchLast
  <2>5. KnownCreated' /\ Orphaned'
    BY <1>0, <1>5 DEF Lines, KnownCreated, Orphaned
  <2>6. Accounted'
    <3>1. \A g \in Fetches : fetch'[g].pc # "listed"
      BY <1>1, <1>4, <1>5
    <3> QED
      BY <3>1 DEF Accounted
  <2> QED
    BY <2>1, <2>2, <2>3, <2>4, <2>5, <2>6 DEF Lines
<1>6. ASSUME Lines, Course PROVE Course'
  <2>1. Clock'
    <3>1. \A g \in Fetches : fetch'[g].since \in {0, fetch[g].since} /\ fetch'[g].synced = fetch[g].synced
      BY <1>1
    <3>2. now \in Nat /\ Clock
      BY <1>6, Bounds DEF Course, SyncTyped, TypeOK, Times
    <3> QED
      BY <1>0, <3>1, <3>2 DEF Clock
  <2>2. Aligned'
    BY <1>0, <1>6 DEF Course, Aligned
  <2>3. AsRead'
    <3>1. \A g \in Fetches : HasRead(g)' => g = f
      BY <1>4, <1>6 DEF HasRead
    <3> QED
      BY <1>0, <1>3, <3>1 DEF AsRead
  <2>4. \A g \in Fetches : ~Reconciling(g)' /\ ~Reconciling(g)
    BY <1>0, <1>1, <1>4, <1>6 DEF Reconciling
  <2>5. Follows'
    <3>1. \A q \in Exists : Here(q)' <=> Here(q)
      BY <1>0, <1>2 DEF Here
    <3>2. \A q \in Exists : /\ db[q].at < cursor => Here(q)
                            /\ db[q].at < fetch[f].since => Here(q)
      BY <1>0, <1>6, <2>4 DEF Course, Follows
    <3>3. \A g \in Fetches : /\ fetch'[g].pc # "sent"
                             /\ fetch'[g].pc = "read" => g = f
      BY <1>1, <1>4, <1>6
    <3>4. \A q \in Exists : Here(q) \/ fetch'[f].rows[q] = db[q].ver
      BY <1>3, <3>2 DEF Exists
    <3> QED
      BY <1>0, <3>1, <3>2, <3>3, <3>4 DEF Follows
  <2> QED
    BY <2>1, <2>2, <2>3, <2>4, <2>5 DEF Course, CursorOfFetch
<1> QED
  BY <1>5, <1>6

\* A sync that ends without an answer has told nothing.
LEMMA FailKeeps ==
    ASSUME SyncTyped, NEW f \in Fetches, FetchFails(f)
    PROVE  /\ Lines => Lines'
           /\ Lines /\ Course => Course'
<1>0. /\ env' = env /\ now' = now /\ db' = db /\ gone' = gone /\ inbox' = inbox /\ idb' = idb
      /\ declared' = declared /\ cursor' = cursor /\ known' = known /\ seeds' = seeds
      /\ Exists' = Exists /\ fetch[f].pc \in {"sent", "read"}
  BY DEF FetchFails, server, Exists
<1>1. fetch'[f] = NoFetch /\ \A g \in Fetches \ {f} : fetch'[g] = fetch[g]
  BY FetchFreed DEF FetchFails
<1>2. \A t, i, q : Tells(t, i, q)' = Tells(t, i, q)
  BY <1>0 DEF Tells
<1>3. ASSUME Lines PROVE \A g \in Fetches : ~Busy(g)' /\ ~HasRead(g)' /\ ~Reconciling(g)' /\ ~Reconciling(g)
  <2>1. OneSync /\ Busy(f)
    BY <1>0, <1>3 DEF Lines, Busy
  <2>2. \A g \in Fetches : ~Busy(g)' /\ ~Reconciling(g)
    BY <1>0, <1>1, <2>1, OnlyThis, NoFetchTyped DEF Busy, Reconciling
  <2> QED
    BY <2>2 DEF Busy, HasRead, Reconciling
<1>5. ASSUME Lines PROVE Lines'
  <2>1. OneSync'
    BY <1>3, <1>5 DEF OneSync
  <2>2. NotAhead'
    <3>1. \A q \in Rows : \A g \in Fetches : fetch'[g].rows[q] = 0 \/ fetch'[g].rows[q] = fetch[g].rows[q]
      BY <1>1, NoFetchTyped DEF NoRows
    <3>2. \A q \in Rows : db[q].ver \in Nat
      BY RowIs
    <3> QED
      BY <1>0, <1>2, <1>5, <3>1, <3>2 DEF Lines, NotAhead
  <2>3. InOrder'
    BY <1>0, <1>2, <1>5 DEF Lines, InOrder
  <2>4. FetchLast' /\ Accounted'
    BY <1>3, <1>5 DEF FetchLast, Accounted, HasRead
  <2>5. KnownCreated' /\ Orphaned'
    BY <1>0, <1>5 DEF Lines, KnownCreated, Orphaned
  <2> QED
    BY <2>1, <2>2, <2>3, <2>4, <2>5 DEF Lines
<1>6. ASSUME Lines, Course PROVE Course'
  <2>1. Clock'
    <3>1. \A g \in Fetches : fetch'[g].since \in {0, fetch[g].since} /\ fetch'[g].synced \in {0, fetch[g].synced}
      BY <1>1 DEF NoFetch
    <3>2. now \in Nat /\ Clock
      BY <1>6, Bounds DEF Course, SyncTyped, TypeOK, Times
    <3> QED
      BY <1>0, <3>1, <3>2 DEF Clock
  <2>2. Aligned'
    BY <1>0, <1>6 DEF Course, Aligned
  <2>3. AsRead' /\ CursorOfFetch'
    BY <1>3, <1>6 DEF AsRead, CursorOfFetch
  <2>4. Follows'
    <3>1. \A q \in Exists : Here(q)' <=> Here(q)
      BY <1>0, <1>2 DEF Here
    <3>2. \A q \in Exists : db[q].at < cursor => Here(q)
      BY <1>3, <1>6 DEF Course, Follows
    <3>3. \A g \in Fetches : fetch'[g].pc # "sent" /\ fetch'[g].pc # "read"
      BY <1>3, <1>6 DEF Busy
    <3> QED
      BY <1>0, <3>1, <3>2, <3>3 DEF Follows
  <2> QED
    BY <2>1, <2>2, <2>3, <2>4 DEF Course
<1> QED
  BY <1>5, <1>6

\* The answer moves the cursor; all ids are asked for.
LEMMA FetchIdsKeeps ==
    ASSUME SyncTyped, NEW f \in Fetches, FetchIds(f)
    PROVE  /\ Lines => Lines'
           /\ Lines /\ Course => Course'
<1>0. /\ env' = env /\ now' = now /\ db' = db /\ gone' = gone /\ inbox' = inbox /\ idb' = idb
      /\ declared' = declared /\ syncing' = syncing /\ known' = known /\ seeds' = seeds
      /\ Exists' = Exists /\ fetch[f].pc = "read" /\ cursor' = fetch[f].synced
  BY DEF FetchIds, server, Exists
<1>a. fetch \in [Fetches -> Fetch]
  BY DEF SyncTyped, TypeOK
<1>b. fetch[f] \in Fetch
  BY <1>a
<1>1. /\ fetch'[f].pc = "ids" /\ fetch'[f].synced = fetch[f].synced /\ fetch'[f].since = fetch[f].since
      /\ fetch'[f].rows = fetch[f].rows
      /\ \A g \in Fetches \ {f} : fetch'[g] = fetch[g]
  BY <1>a, <1>b DEF FetchIds, Fetch
<1>2. \A t, i, q : Tells(t, i, q)' = Tells(t, i, q)
  BY <1>0 DEF Tells
<1>3. ASSUME Lines PROVE \A g \in Fetches : g # f => fetch[g].pc = "free" /\ fetch'[g].pc = "free"
  <2>1. OneSync /\ Busy(f)
    BY <1>0, <1>3 DEF Lines, Busy
  <2> QED
    BY <1>1, <2>1, OnlyThis DEF Busy
<1>4. \A g \in Fetches : /\ fetch'[g].rows = fetch[g].rows /\ fetch'[g].synced = fetch[g].synced
                         /\ fetch'[g].since = fetch[g].since
                         /\ HasRead(g)' <=> HasRead(g)
                         /\ Busy(g)' <=> Busy(g)
  BY <1>0, <1>1 DEF HasRead, Busy
<1>5. ASSUME Lines PROVE Lines'
  <2>1. OneSync'
    BY <1>0, <1>4, <1>5 DEF Lines, OneSync
  <2>2. NotAhead'
    BY <1>0, <1>2, <1>4, <1>5 DEF Lines, NotAhead
  <2>3. InOrder' /\ FetchLast'
    <3>1. InOrder'
      BY <1>0, <1>2, <1>5 DEF Lines, InOrder
    <3>2. FetchLast'
      BY <1>0, <1>2, <1>4, <1>5 DEF Lines, FetchLast
    <3> QED
      BY <3>1, <3>2
  <2>5. KnownCreated' /\ Orphaned'
    BY <1>0, <1>5 DEF Lines, KnownCreated, Orphaned
  <2>6. Accounted'
    <3>1. \A g \in Fetches : fetch'[g].pc # "listed"
      BY <1>1, <1>3, <1>5
    <3> QED
      BY <3>1 DEF Accounted
  <2> QED
    BY <2>1, <2>2, <2>3, <2>5, <2>6 DEF Lines
<1>6. ASSUME Lines, Course PROVE Course'
  <2>1. Clock'
    BY <1>0, <1>4, <1>6 DEF Course, Clock
  <2>2. Aligned'
    BY <1>0, <1>6 DEF Course, Aligned
  <2>3. AsRead'
    BY <1>0, <1>4, <1>6 DEF Course, AsRead
  <2>4. CursorOfFetch'
    <3>1. \A g \in Fetches : Reconciling(g)' => g = f
      BY <1>3, <1>6 DEF Reconciling
    <3>2. fetch[f].synced \in Nat
      BY FetchIs
    <3> QED
      BY <1>0, <1>1, <3>1, <3>2 DEF CursorOfFetch
  <2>5. Follows'
    <3>1. \A q \in Exists : Here(q)' <=> Here(q)
      BY <1>0, <1>2 DEF Here
    <3>2. \A q \in Exists : db[q].at < fetch[f].synced => Here(q) \/ fetch[f].rows[q] = db[q].ver
      BY <1>0, <1>6 DEF Course, Follows
    <3>3. \A g \in Fetches : fetch'[g].pc # "sent" /\ fetch'[g].pc # "read"
      BY <1>1, <1>3, <1>6
    <3>4. Reconciling(f)'
      BY <1>1 DEF Reconciling
    <3> QED
      BY <1>0, <1>1, <3>1, <3>2, <3>3, <3>4 DEF Follows
  <2> QED
    BY <2>1, <2>2, <2>3, <2>4, <2>5 DEF Course
<1> QED
  BY <1>5, <1>6

\* Whatever the browser knows of is among the ids that are read, or is gone.
LEMMA ReadIdsKeeps ==
    ASSUME SyncTyped, NEW f \in Fetches, ReadIds(f)
    PROVE  /\ Lines => Lines'
           /\ Lines /\ Course => Course'
<1>0. /\ env' = env /\ now' = now /\ db' = db /\ gone' = gone /\ inbox' = inbox /\ idb' = idb
      /\ declared' = declared /\ syncing' = syncing /\ known' = known /\ seeds' = seeds
      /\ Exists' = Exists /\ fetch[f].pc = "ids" /\ cursor' = cursor
  BY DEF ReadIds, server, worker, Exists
<1>a. fetch \in [Fetches -> Fetch]
  BY DEF SyncTyped, TypeOK
<1>b. fetch[f] \in Fetch
  BY <1>a
<1>1. /\ fetch'[f].pc = "listed" /\ fetch'[f].synced = fetch[f].synced /\ fetch'[f].since = fetch[f].since
      /\ fetch'[f].rows = fetch[f].rows /\ fetch'[f].ids = Exists
      /\ \A g \in Fetches \ {f} : fetch'[g] = fetch[g]
  BY <1>a, <1>b DEF ReadIds, Fetch
<1>2. \A t, i, q : Tells(t, i, q)' = Tells(t, i, q)
  BY <1>0 DEF Tells
<1>3. ASSUME Lines PROVE \A g \in Fetches : g # f => fetch[g].pc = "free" /\ fetch'[g].pc = "free"
  <2>1. OneSync /\ Busy(f)
    BY <1>0, <1>3 DEF Lines, Busy
  <2> QED
    BY <1>1, <2>1, OnlyThis DEF Busy
<1>4. \A g \in Fetches : /\ fetch'[g].rows = fetch[g].rows /\ fetch'[g].synced = fetch[g].synced
                         /\ fetch'[g].since = fetch[g].since
                         /\ HasRead(g)' <=> HasRead(g)
                         /\ Reconciling(g)' <=> Reconciling(g)
                         /\ Busy(g)' <=> Busy(g)
  BY <1>0, <1>1 DEF HasRead, Reconciling, Busy
<1>5. ASSUME Lines PROVE Lines'
  <2>1. OneSync'
    BY <1>0, <1>4, <1>5 DEF Lines, OneSync
  <2>2. NotAhead'
    BY <1>0, <1>2, <1>4, <1>5 DEF Lines, NotAhead
  <2>3. InOrder' /\ FetchLast'
    <3>1. InOrder'
      BY <1>0, <1>2, <1>5 DEF Lines, InOrder
    <3>2. FetchLast'
      BY <1>0, <1>2, <1>4, <1>5 DEF Lines, FetchLast
    <3> QED
      BY <3>1, <3>2
  <2>5. KnownCreated' /\ Orphaned'
    BY <1>0, <1>5 DEF Lines, KnownCreated, Orphaned
  <2>6. Accounted'
    <3> SUFFICES ASSUME NEW g \in Fetches, fetch'[g].pc = "listed", NEW q \in Rows
                 PROVE  /\ q \in fetch'[g].ids => db[q].ver > 0
                        /\ Known(g, q)' => q \in fetch'[g].ids \/ q \in gone
      BY <1>0 DEF Accounted
    <3>1. g = f
      BY <1>3, <1>5
    <3>2. fetch'[g].ids = Exists
      BY <1>1, <3>1
    <3>3. Known(g, q)' => Known(g, q)
      BY <1>0, <1>2, <1>4 DEF Known
    <3>4. Known(g, q) => db[q].ver > 0
      <4>1. /\ q \in known \/ q \in seeds => db[q].ver > 0
            /\ idb[q] <= db[q].ver /\ fetch[g].rows[q] <= db[q].ver
            /\ \A t \in Tabs : \A i \in 1 .. Len(inbox[t]) : Tells(t, i, q) <= db[q].ver
        BY <1>5 DEF Lines, KnownCreated, NotAhead
      <4>2. /\ db[q].ver \in Nat /\ idb[q] \in Nat /\ fetch[g].rows[q] \in Nat
            /\ \A t \in Tabs : \A i \in 1 .. Len(inbox[t]) : Tells(t, i, q) \in Nat
        BY RowIs, FetchIs, TellsIs
      <4> QED
        BY <4>1, <4>2 DEF Known
    <3> QED
      BY <3>2, <3>3, <3>4 DEF Exists
  <2> QED
    BY <2>1, <2>2, <2>3, <2>5, <2>6 DEF Lines
<1>6. ASSUME Lines, Course PROVE Course'
  <2>1. Clock'
    BY <1>0, <1>4, <1>6 DEF Course, Clock
  <2>2. Aligned'
    BY <1>0, <1>6 DEF Course, Aligned
  <2>3. AsRead'
    BY <1>0, <1>4, <1>6 DEF Course, AsRead
  <2>4. CursorOfFetch'
    BY <1>0, <1>4, <1>6 DEF Course, CursorOfFetch
  <2>5. Follows'
    <3>1. \A q \in Exists : Here(q)' <=> Here(q)
      BY <1>0, <1>2 DEF Here
    <3>2. \A q \in Exists : db[q].at < cursor =>
              Here(q) \/ \E g \in Fetches : Reconciling(g) /\ fetch[g].rows[q] = db[q].ver
      BY <1>6 DEF Course, Follows
    <3>3. \A g \in Fetches : fetch'[g].pc # "sent" /\ fetch'[g].pc # "read"
      BY <1>1, <1>3, <1>6
    <3> QED
      BY <1>0, <1>4, <3>1, <3>2, <3>3 DEF Follows
  <2> QED
    BY <2>1, <2>2, <2>3, <2>4, <2>5 DEF Course
<1> QED
  BY <1>5, <1>6

\* A sync that ends tells every tab what it read, and which of the rows that are gone
\* it knew of.
LEMMA ToldKeeps ==
    ASSUME SyncTyped, Lines, NEW f \in Fetches, HasRead(f),
           NEW orphans \in SUBSET Rows, orphans \subseteq gone,
           env' = env, now' = now, db' = db, gone' = gone, idb' = idb, declared' = declared,
           inbox' = Told(fetch[f].rows, orphans),
           fetch' = [fetch EXCEPT ![f] = NoFetch],
           \A r \in Rows : r \in known' \/ r \in seeds' => db[r].ver > 0
    PROVE  /\ Lines'
           /\ Deaf /\ Course /\ cursor' \in Nat /\ cursor' <= fetch[f].synced
                  /\ ((cursor' = fetch[f].synced /\ fetch[f].pc = "read") \/ (cursor' = cursor /\ Reconciling(f)))
                => Course'
<1> DEFINE page == fetch[f].rows
           last(t) == Len(inbox[t]) + 1
<1>0. Exists' = Exists
  BY DEF Exists
<1>1. fetch'[f] = NoFetch /\ \A g \in Fetches \ {f} : fetch'[g] = fetch[g]
  BY FetchFreed
<1>2. Busy(f) /\ OneSync /\ declared # {} /\ declared \subseteq Tabs
  <2>1. Busy(f)
    BY DEF HasRead, Busy
  <2>2. OneSync
    BY DEF Lines
  <2> QED
    BY <2>1, <2>2 DEF OneSync, SyncTyped, TypeOK
<1>3. \A g \in Fetches : ~Busy(g)' /\ ~HasRead(g)' /\ ~Reconciling(g)'
  <2>1. \A g \in Fetches : ~Busy(g)'
    BY <1>1, <1>2, OnlyThis, NoFetchTyped DEF Busy
  <2> QED
    BY <2>1 DEF Busy, HasRead, Reconciling
<1>4. /\ \A t \in Tabs \ declared : inbox'[t] = inbox[t]
      /\ \A t \in Tabs \cap declared :
            /\ Len(inbox'[t]) = last(t) /\ Len(inbox[t]) \in Nat
            /\ \A i \in 1 .. Len(inbox[t]) : inbox'[t][i] = inbox[t][i]
            /\ inbox'[t][last(t)] = [rows |-> page, orphans |-> orphans]
  BY FetchIs, ToldAll
<1>5. \A t \in Tabs : \A i \in 1 .. Len(inbox'[t]) :
          \/ i \in 1 .. Len(inbox[t]) /\ inbox'[t][i] = inbox[t][i]
          \/ t \in declared /\ i = last(t) /\ inbox'[t][i] = [rows |-> page, orphans |-> orphans]
  BY <1>4
<1>6. \A t \in Tabs : \A i \in 1 .. Len(inbox'[t]) : \A q \in Rows :
          \/ i \in 1 .. Len(inbox[t]) /\ Tells(t, i, q)' = Tells(t, i, q)
          \/ t \in declared /\ i = last(t) /\ Tells(t, i, q)' = page[q]
  BY <1>5 DEF Tells
<1>7. \A q \in Rows : db[q].ver \in Nat /\ idb[q] \in Nat /\ db[q].at \in Nat
  BY RowIs
<1>8. \A q \in Rows : page[q] <= db[q].ver
  BY DEF Lines, NotAhead
<1>9. \A t \in Tabs : Len(inbox[t]) \in Nat
  <2>1. \A t \in Tabs : inbox[t] \in Seq(Message)
    BY DEF SyncTyped
  <2> QED
    BY <2>1, LenProperties
<1> HIDE DEF page
<1>10. Lines'
  <2>1. OneSync'
    BY <1>3 DEF OneSync
  <2>2. NotAhead'
    <3>1. \A q \in Rows : \A g \in Fetches : fetch'[g].rows[q] = 0 \/ fetch'[g].rows[q] = fetch[g].rows[q]
      BY <1>1, NoFetchTyped DEF NoRows
    <3>2. \A q \in Rows : \A g \in Fetches : fetch'[g].rows[q] <= db[q].ver
      BY <1>7, <3>1 DEF Lines, NotAhead
    <3>3. \A q \in Rows : \A t \in Tabs : \A i \in 1 .. Len(inbox'[t]) : Tells(t, i, q)' <= db[q].ver
      BY <1>6, <1>8 DEF Lines, NotAhead
    <3> QED
      BY <3>2, <3>3 DEF Lines, NotAhead
  <2>3. InOrder'
    <3> SUFFICES ASSUME NEW t \in Tabs, NEW i \in 1 .. Len(inbox'[t]), NEW j \in 1 .. Len(inbox'[t]),
                        NEW q \in Rows, i < j, Tells(t, i, q)' = db[q].ver
                 PROVE  Tells(t, j, q)' \in {0, db[q].ver}
      BY DEF InOrder
    <3>1. i \in 1 .. Len(inbox[t])
      BY <1>4, <1>9
    <3>2. Tells(t, i, q) = db[q].ver
      BY <1>6, <1>9, <3>1
    <3>3. CASE j \in 1 .. Len(inbox[t])
      <4>1. Tells(t, j, q)' = Tells(t, j, q)
        BY <1>6, <1>9, <3>3
      <4> QED
        BY <3>1, <3>2, <3>3, <4>1 DEF Lines, InOrder
    <3>4. CASE j \notin 1 .. Len(inbox[t])
      <4>1. Tells(t, j, q)' = page[q]
        BY <1>6, <3>4
      <4>2. FetchLast
        BY DEF Lines
      <4> QED
        BY <3>1, <3>2, <4>1, <4>2 DEF FetchLast, page
    <3> QED
      BY <3>3, <3>4
  <2>4. FetchLast' /\ Accounted'
    BY <1>3 DEF FetchLast, Accounted, HasRead
  <2>5. KnownCreated'
    BY DEF KnownCreated
  <2>6. Orphaned'
    BY <1>5 DEF Lines, Orphaned
  <2> QED
    BY <2>1, <2>2, <2>3, <2>4, <2>5, <2>6 DEF Lines
<1>11. ASSUME Deaf, Course, cursor' \in Nat, cursor' <= fetch[f].synced,
              (cursor' = fetch[f].synced /\ fetch[f].pc = "read") \/ (cursor' = cursor /\ Reconciling(f))
       PROVE  Course'
  <2>0. Clock /\ Aligned /\ AsRead /\ Follows
    BY <1>11 DEF Course
  <2>1. Clock'
    <3>1. \A g \in Fetches : fetch'[g].since \in {0, fetch[g].since} /\ fetch'[g].synced \in {0, fetch[g].synced}
      BY <1>1 DEF NoFetch
    <3>2. now \in Nat /\ fetch[f].synced \in Nat /\ fetch[f].synced <= now
      BY <2>0, FetchIs, Bounds DEF Clock, SyncTyped, TypeOK, Times
    <3> QED
      BY <1>11, <2>0, <3>1, <3>2 DEF Clock
  <2>2. Aligned'
    <3> SUFFICES ASSUME NEW t \in Tabs, NEW u \in Tabs, Len(inbox'[u]) <= Len(inbox'[t]),
                        NEW k \in 1 .. Len(inbox'[u])
                 PROVE  inbox'[u][k] = inbox'[t][Len(inbox'[t]) - Len(inbox'[u]) + k]
      BY DEF Aligned
    <3>1. u \in declared
      <4>1. u \notin declared => inbox'[u] = <<>>
        BY <1>4, <1>11 DEF Deaf
      <4> QED
        BY <4>1, EmptySeq
    <3>2. t \in declared
      <4>1. t \notin declared => inbox'[t] = <<>>
        BY <1>4, <1>11 DEF Deaf
      <4>2. Len(inbox'[u]) \in Nat \ {0}
        BY <1>4, <1>9, <3>1
      <4> QED
        BY <4>1, <4>2, EmptySeq
    <3>3. /\ Len(inbox'[u]) = Len(inbox[u]) + 1 /\ Len(inbox'[t]) = Len(inbox[t]) + 1
          /\ Len(inbox[u]) <= Len(inbox[t])
      BY <1>4, <1>9, <3>1, <3>2
    <3>4. CASE k \in 1 .. Len(inbox[u])
      <4>1. inbox'[u][k] = inbox[u][k]
        BY <1>4, <3>1, <3>4
      <4> DEFINE m == Len(inbox[t]) - Len(inbox[u]) + k
      <4>2. m \in 1 .. Len(inbox[t]) /\ Len(inbox'[t]) - Len(inbox'[u]) + k = m
        <5>1. Len(inbox[t]) \in Nat /\ Len(inbox[u]) \in Nat /\ k \in Nat /\ 1 <= k /\ k <= Len(inbox[u])
          BY <1>9, <3>4
        <5>2. \A a, b, c \in Nat : b <= a /\ 1 <= c /\ c <= b =>
                  a - b + c \in 1 .. a /\ (a + 1) - (b + 1) + c = a - b + c
          OBVIOUS
        <5>3. /\ Len(inbox[t]) - Len(inbox[u]) + k \in 1 .. Len(inbox[t])
              /\ (Len(inbox[t]) + 1) - (Len(inbox[u]) + 1) + k = Len(inbox[t]) - Len(inbox[u]) + k
          BY <3>3, <5>1, <5>2
        <5> QED
          BY <3>3, <5>3
      <4>3. inbox[u][k] = inbox[t][m]
        BY <2>0, <3>3, <3>4 DEF Aligned
      <4> HIDE DEF m
      <4>4. inbox'[t][m] = inbox[t][m]
        BY <1>4, <3>2, <4>2
      <4> QED
        BY <4>1, <4>2, <4>3, <4>4
    <3>5. CASE k \notin 1 .. Len(inbox[u])
      <4>1. k = last(u) /\ Len(inbox'[t]) - Len(inbox'[u]) + k = last(t)
        <5>1. /\ Len(inbox[t]) \in Nat /\ Len(inbox[u]) \in Nat /\ k \in Nat /\ 1 <= k
              /\ k <= Len(inbox[u]) + 1
          BY <1>9, <3>3
        <5>2. k = Len(inbox[u]) + 1
          BY <3>5, <5>1
        <5>3. \A a, b \in Nat : (a + 1) - (b + 1) + (b + 1) = a + 1
          OBVIOUS
        <5> QED
          BY <3>3, <5>1, <5>2, <5>3
      <4> QED
        BY <1>4, <3>1, <3>2, <4>1, ZenonT(60)
    <3> QED
      BY <3>4, <3>5
  <2>3. AsRead' /\ CursorOfFetch'
    BY <1>3 DEF AsRead, CursorOfFetch
  <2>4. Follows'
    <3>1. \A g \in Fetches : fetch'[g].pc # "sent" /\ fetch'[g].pc # "read"
      BY <1>3 DEF Busy
    <3> SUFFICES ASSUME NEW q \in Exists, db[q].at < cursor'
                 PROVE  Here(q)'
      BY <1>0, <3>1 DEF Follows
    <3>q. q \in Rows
      BY DEF Exists
    <3>2. page[q] \in {0, db[q].ver}
      <4>1. db[q].at < fetch[f].synced
        BY <1>7, <1>11, <3>q, FetchIs
      <4> QED
        BY <2>0, <3>q, <4>1 DEF AsRead, page
    <3>3. Here(q) \/ page[q] = db[q].ver
      <4>1. CASE cursor' = fetch[f].synced /\ fetch[f].pc = "read"
        BY <2>0, <4>1 DEF Follows, page
      <4>2. CASE cursor' = cursor /\ Reconciling(f)
        <5>1. \A g \in Fetches : Reconciling(g) => g = f
          BY <1>2, OnlyThis DEF Reconciling, Busy
        <5> QED
          BY <2>0, <4>2, <5>1 DEF Follows, page
      <4> QED
        BY <1>11, <4>1, <4>2
    <3>4. CASE page[q] = db[q].ver
      <4>1. PICK t \in declared : TRUE
        BY <1>2
      <4>2. t \in Tabs /\ last(t) \in 1 .. Len(inbox'[t]) /\ inbox'[t][last(t)].rows = page
        BY <1>2, <1>4, <1>9, <4>1
      <4>3. PICK i \in 1 .. Len(inbox'[t]) : inbox'[t][i].rows = page
        BY <4>2
      <4>4. Tells(t, i, q)' = page[q]
        BY <4>3 DEF Tells
      <4> QED
        BY <3>4, <4>2, <4>3, <4>4 DEF Here
    <3>5. CASE page[q] = 0 /\ page[q] # db[q].ver
      <4>1. Here(q)
        BY <3>3, <3>5
      <4>2. CASE \E t \in Tabs : \E i \in 1 .. Len(inbox[t]) : Tells(t, i, q) = db[q].ver
        <5>1. PICK t \in Tabs : \E i \in 1 .. Len(inbox[t]) : Tells(t, i, q) = db[q].ver
          BY <4>2
        <5>2. PICK i \in 1 .. Len(inbox[t]) : Tells(t, i, q) = db[q].ver
          BY <5>1
        <5>3. i \in 1 .. Len(inbox'[t]) /\ inbox'[t][i] = inbox[t][i]
          BY <1>4, <1>9
        <5> QED
          BY <5>2, <5>3 DEF Here, Tells
      <4>3. CASE idb[q] = db[q].ver /\ \A t \in Tabs : \A i \in 1 .. Len(inbox[t]) : Tells(t, i, q) = 0
        <5>1. \A t \in Tabs : \A i \in 1 .. Len(inbox'[t]) : Tells(t, i, q)' = 0
          BY <1>6, <3>5, <3>q, <4>3
        <5> QED
          BY <4>3, <5>1 DEF Here
      <4> QED
        BY <4>1, <4>2, <4>3 DEF Here
    <3> QED
      BY <3>2, <3>4, <3>5
  <2> QED
    BY <2>1, <2>2, <2>3, <2>4 DEF Course
<1> QED
  BY <1>10, <1>11

\* The three ways in which a sync ends with a broadcast.
LEMMA MergeKeeps ==
    ASSUME SyncTyped, NEW f \in Fetches, Merge(f) \/ Reconcile(f) \/ ReconcileFails(f)
    PROVE  /\ Lines => Lines'
           /\ Lines /\ Deaf /\ Course => Course'
<1>0. /\ fetch[f].synced \in Nat /\ cursor \in Nat /\ now \in Nat
      /\ \A r \in Rows : fetch[f].rows[r] \in Nat /\ db[r].ver \in Nat /\ 0 \notin Rows
  BY FetchIs, RowIs, Bounds DEF SyncTyped, TypeOK, Times
<1>1. ASSUME Lines PROVE \A r \in Rows : fetch[f].rows[r] > 0 => db[r].ver > 0
  BY <1>0, <1>1 DEF Lines, NotAhead
<1>2. CASE Merge(f)
  <2> DEFINE none == {}
  <2>1. /\ env' = env /\ now' = now /\ db' = db /\ gone' = gone /\ idb' = idb /\ declared' = declared
        /\ inbox' = Told(fetch[f].rows, none) /\ fetch' = [fetch EXCEPT ![f] = NoFetch]
        /\ fetch[f].pc = "read" /\ cursor' = fetch[f].synced
        /\ known' = (known \ NoIds) \cup In(fetch[f].rows) /\ seeds' = seeds
    BY <1>2 DEF Merge, server
  <2>2. HasRead(f) /\ none \in SUBSET Rows /\ none \subseteq gone
    BY <2>1 DEF HasRead
  <2>3. ASSUME Lines PROVE \A r \in Rows : r \in known' \/ r \in seeds' => db[r].ver > 0
    BY <1>1, <2>1, <2>3 DEF Lines, KnownCreated, In
  <2>4. cursor' \in Nat /\ cursor' <= fetch[f].synced
    BY <1>0, <2>1
  <2> HIDE DEF none
  <2>5. ASSUME Lines
        PROVE  Lines' /\ (Deaf /\ Course => Course')
    <3>1. \A r \in Rows : r \in known' \/ r \in seeds' => db[r].ver > 0
      BY <2>3, <2>5
    <3>2. (cursor' = fetch[f].synced /\ fetch[f].pc = "read") \/ (cursor' = cursor /\ Reconciling(f))
      BY <2>1
    <3> QED
      BY <2>1, <2>2, <2>4, <2>5, <3>1, <3>2, ToldKeeps
  <2> QED
    BY <2>5
<1>3. CASE Reconcile(f)
  <2> DEFINE lost == Remembered \ (fetch[f].ids \cup NoIds)
  <2>1. /\ env' = env /\ now' = now /\ db' = db /\ gone' = gone /\ idb' = idb /\ declared' = declared
        /\ inbox' = Told(fetch[f].rows, lost) /\ fetch' = [fetch EXCEPT ![f] = NoFetch]
        /\ fetch[f].pc = "listed" /\ cursor' = cursor
        /\ known' = fetch[f].ids \cup In(fetch[f].rows) /\ seeds' = NoIds
    BY <1>3 DEF Reconcile, server
  <2>2. HasRead(f) /\ Reconciling(f)
    BY <2>1 DEF HasRead, Reconciling
  <2>3. lost \in SUBSET Rows
    BY Bounds DEF Remembered, IdSet, SyncTyped, TypeOK
  <2>4. ASSUME Lines
        PROVE  /\ lost \subseteq gone
               /\ \A r \in Rows : r \in known' \/ r \in seeds' => db[r].ver > 0
    <3>1. \A r \in Rows : /\ r \in fetch[f].ids => db[r].ver > 0
                          /\ r \in known \/ r \in seeds => r \in fetch[f].ids \/ r \in gone
      BY <2>1, <2>4 DEF Lines, Accounted, Known
    <3>2. lost \subseteq gone
      BY <2>3, <3>1 DEF Remembered
    <3>3. \A r \in Rows : r \in known' \/ r \in seeds' => db[r].ver > 0
      BY <1>0, <1>1, <2>1, <2>4, <3>1 DEF In, NoIds
    <3> QED
      BY <3>2, <3>3
  <2>5. ASSUME Course PROVE cursor' \in Nat /\ cursor' <= fetch[f].synced
    BY <1>0, <2>1, <2>2, <2>5 DEF Course, CursorOfFetch
  <2> HIDE DEF lost
  <2> QED
    BY <2>1, <2>2, <2>3, <2>4, <2>5, ToldKeeps
<1>4. CASE ReconcileFails(f)
  <2>1. /\ env' = env /\ now' = now /\ db' = db /\ gone' = gone /\ idb' = idb /\ declared' = declared
        /\ inbox' = Told(fetch[f].rows, {}) /\ fetch' = [fetch EXCEPT ![f] = NoFetch]
        /\ fetch[f].pc \in {"ids", "listed"} /\ cursor' = cursor
        /\ known' = known /\ seeds' = seeds
    BY <1>4 DEF ReconcileFails, server
  <2>2. HasRead(f) /\ Reconciling(f) /\ {} \in SUBSET Rows /\ {} \subseteq gone
    BY <2>1 DEF HasRead, Reconciling
  <2>3. ASSUME Lines PROVE \A r \in Rows : r \in known' \/ r \in seeds' => db[r].ver > 0
    BY <2>1, <2>3 DEF Lines, KnownCreated
  <2>4. ASSUME Course PROVE cursor' \in Nat /\ cursor' <= fetch[f].synced
    BY <1>0, <2>1, <2>2, <2>4 DEF Course, CursorOfFetch
  <2> QED
    BY <2>1, <2>2, <2>3, <2>4, ToldKeeps
<1> QED
  BY <1>2, <1>3, <1>4

-----------------------------------------------------------------------------
(* The tabs                                                                 *)

\* What a tab declares of its copy was told to it before.
LEMMA DeclareKeeps ==
    ASSUME SyncTyped, NEW t \in Tabs, NEW inProgress \in BOOLEAN, Declare(t, inProgress)
    PROVE  /\ Lines => Lines'
           /\ Course => Course'
           /\ Deaf => Deaf'
<1>0. /\ env' = env /\ now' = now /\ db' = db /\ gone' = gone /\ inbox' = inbox /\ idb' = idb
      /\ fetch' = fetch /\ syncing' = syncing /\ known' = known
      /\ declared' = declared \cup {t} /\ cursor' \in {0, cursor} /\ Exists' = Exists
      /\ \A q \in Rows : q \in seeds' => q \in seeds \/ idb[q] > 0
  BY DEF Declare, server, Exists, In
<1>1. \A q \in Rows : db[q].ver \in Nat /\ idb[q] \in Nat /\ db[q].at \in Nat
  BY RowIs
<1>2. /\ cursor \in Nat /\ now \in Nat
      /\ \A f \in Fetches : fetch[f].synced \in Nat
  BY FetchIs, Bounds DEF SyncTyped, TypeOK, Times
<1>6. \A u, i, q : Tells(u, i, q)' = Tells(u, i, q)
  BY <1>0 DEF Tells
<1>3. ASSUME Lines PROVE Lines'
  <2>1. OneSync'
    BY <1>0, <1>3 DEF Lines, OneSync, Busy
  <2>2. NotAhead'
    BY <1>0, <1>6, <1>3 DEF Lines, NotAhead
  <2>3. InOrder'
    BY <1>0, <1>6, <1>3 DEF Lines, InOrder
  <2>4. FetchLast'
    BY <1>0, <1>6, <1>3 DEF Lines, FetchLast, HasRead
  <2>5. KnownCreated'
    <3>1. \A q \in Rows : idb[q] > 0 => db[q].ver > 0
      BY <1>1, <1>3 DEF Lines, NotAhead
    <3> QED
      BY <1>0, <1>3, <3>1 DEF Lines, KnownCreated
  <2>6. Accounted'
    <3>1. \A f \in Fetches : \A q \in Rows : Known(f, q)' => Known(f, q)
      BY <1>0, <1>6 DEF Known
    <3> QED
      BY <1>0, <1>3, <3>1 DEF Lines, Accounted
  <2>7. Orphaned'
    BY <1>0, <1>3 DEF Lines, Orphaned
  <2> QED
    BY <2>1, <2>2, <2>3, <2>4, <2>5, <2>6, <2>7 DEF Lines
<1>4. ASSUME Course PROVE Course'
  <2>a. cursor' \in Nat /\ cursor' <= cursor
    BY <1>0, <1>2
  <2>1. Clock'
    BY <1>0, <1>2, <1>4 DEF Course, Clock
  <2>2. Aligned'
    BY <1>0, <1>4 DEF Course, Aligned
  <2>3. AsRead'
    BY <1>0, <1>4 DEF Course, AsRead, HasRead
  <2>4. CursorOfFetch'
    BY <1>0, <1>2, <1>4, <2>a DEF Course, CursorOfFetch, Reconciling
  <2>5. Follows'
    <3>1. \A q \in Exists : Here(q)' <=> Here(q)
      BY <1>0, <1>6 DEF Here
    <3>2. \A q \in Exists : db[q].at < cursor' => db[q].at < cursor
      BY <1>1, <1>2, <2>a DEF Exists
    <3>3. Follows
      BY <1>4 DEF Course
    <3> QED
      BY <1>0, <3>1, <3>2, <3>3 DEF Follows, Reconciling
  <2> QED
    BY <2>1, <2>2, <2>3, <2>4, <2>5 DEF Course
<1>5. Deaf => Deaf'
  BY <1>0 DEF Deaf
<1> QED
  BY <1>3, <1>4, <1>5

\* A broadcast that is written is the oldest that any tab still holds.
LEMMA HandleKeeps ==
    ASSUME SyncTyped, NEW t \in Tabs, HandleData(t)
    PROVE  /\ Lines => Lines'
           /\ Undisturbed /\ Lines /\ Course => Course'
           /\ Deaf => Deaf'
<1> DEFINE msg == inbox[t][1]
<1>0. /\ env' = env /\ now' = now /\ db' = db /\ gone' = gone /\ fetch' = fetch
      /\ declared' = declared /\ cursor' = cursor /\ syncing' = syncing /\ known' = known /\ seeds' = seeds
      /\ idb' = Put(msg) /\ Exists' = Exists
  BY HandleTyped DEF server, worker, Exists
<1>1. /\ \A u \in Tabs \ {t} : inbox'[u] = inbox[u]
      /\ Len(inbox[t]) \in Nat \ {0} /\ Len(inbox'[t]) = Len(inbox[t]) - 1
      /\ \A i \in 1 .. Len(inbox'[t]) : inbox'[t][i] = inbox[t][i + 1]
      /\ 1 \in 1 .. Len(inbox[t]) /\ inbox[t] # <<>>
  BY TakenFirst, HandleTyped
<1>2. \A q \in Rows :
        /\ idb'[q] = IF msg.rows[q] > 0 THEN msg.rows[q] ELSE IF q \in msg.orphans THEN 0 ELSE idb[q]
        /\ msg.rows[q] = Tells(t, 1, q)
  BY <1>0 DEF Put, Tells
<1>3. \A u \in Tabs : Len(inbox[u]) \in Nat
  <2>1. \A u \in Tabs : inbox[u] \in Seq(Message)
    BY DEF SyncTyped
  <2> QED
    BY <2>1, LenProperties
<1>4. \A u \in Tabs : \A i \in 1 .. Len(inbox'[u]) :
          \E j \in 1 .. Len(inbox[u]) :
              /\ inbox'[u][i] = inbox[u][j]
              /\ j = IF u = t THEN i + 1 ELSE i
  BY <1>1, <1>3
<1>5. \A u \in Tabs : \A i \in 1 .. Len(inbox'[u]) :
          \E j \in 1 .. Len(inbox[u]) :
              /\ \A q \in Rows : Tells(u, i, q)' = Tells(u, j, q)
              /\ inbox'[u][i] = inbox[u][j]
              /\ j = IF u = t THEN i + 1 ELSE i
  BY <1>4 DEF Tells
<1>6. \A q \in Rows : /\ db[q].ver \in Nat /\ idb[q] \in Nat /\ db[q].at \in Nat
                      /\ \A u \in Tabs : \A i \in 1 .. Len(inbox[u]) : Tells(u, i, q) \in Nat
  BY RowIs, TellsIs
<1> HIDE DEF msg
<1>7. ASSUME Lines PROVE Lines'
  <2>1. OneSync'
    BY <1>0, <1>7 DEF Lines, OneSync, Busy
  <2>2. NotAhead'
    <3> SUFFICES ASSUME NEW q \in Rows
                 PROVE  /\ idb'[q] <= db[q].ver
                        /\ \A f \in Fetches : fetch[f].rows[q] <= db[q].ver
                        /\ \A u \in Tabs : \A i \in 1 .. Len(inbox'[u]) : Tells(u, i, q)' <= db[q].ver
      BY <1>0 DEF NotAhead
    <3>1. /\ idb[q] <= db[q].ver
          /\ \A f \in Fetches : fetch[f].rows[q] <= db[q].ver
          /\ \A u \in Tabs : \A i \in 1 .. Len(inbox[u]) : Tells(u, i, q) <= db[q].ver
      BY <1>7 DEF Lines, NotAhead
    <3>2. idb'[q] <= db[q].ver
      BY <1>1, <1>2, <1>6, <3>1
    <3>3. \A u \in Tabs : \A i \in 1 .. Len(inbox'[u]) : Tells(u, i, q)' <= db[q].ver
      BY <1>5, <3>1
    <3> QED
      BY <3>1, <3>2, <3>3
  <2>3. InOrder'
    <3> SUFFICES ASSUME NEW u \in Tabs, NEW i \in 1 .. Len(inbox'[u]), NEW j \in 1 .. Len(inbox'[u]),
                        NEW q \in Rows, i < j, Tells(u, i, q)' = db[q].ver
                 PROVE  Tells(u, j, q)' \in {0, db[q].ver}
      BY <1>0 DEF InOrder
    <3>1. PICK a \in 1 .. Len(inbox[u]) : Tells(u, i, q)' = Tells(u, a, q) /\ a = IF u = t THEN i + 1 ELSE i
      BY <1>5
    <3>2. PICK b \in 1 .. Len(inbox[u]) : Tells(u, j, q)' = Tells(u, b, q) /\ b = IF u = t THEN j + 1 ELSE j
      BY <1>5
    <3>3. a < b
      BY <3>1, <3>2
    <3>4. InOrder
      BY <1>7 DEF Lines
    <3>5. Tells(u, a, q) = db[q].ver
      BY <3>1
    <3>6. Tells(u, b, q) \in {0, db[q].ver}
      BY <3>3, <3>4, <3>5 DEF InOrder
    <3> QED
      BY <3>2, <3>6
  <2>4. FetchLast'
    <3> SUFFICES ASSUME NEW f \in Fetches, NEW u \in Tabs, NEW i \in 1 .. Len(inbox'[u]),
                        NEW q \in Rows, HasRead(f), Tells(u, i, q)' = db[q].ver
                 PROVE  fetch[f].rows[q] \in {0, db[q].ver}
      BY <1>0 DEF FetchLast, HasRead
    <3>1. PICK a \in 1 .. Len(inbox[u]) : Tells(u, i, q)' = Tells(u, a, q)
      BY <1>5
    <3> QED
      BY <1>7, <3>1, ZenonT(60) DEF Lines, FetchLast
  <2>5. KnownCreated'
    BY <1>0, <1>7 DEF Lines, KnownCreated
  <2>6. Accounted'
    <3>1. ASSUME NEW f \in Fetches, NEW q \in Rows, Known(f, q)' PROVE Known(f, q)
      <4>1. idb'[q] > 0 => idb[q] > 0 \/ Tells(t, 1, q) > 0
        BY <1>2
      <4>2. (\E u \in Tabs : \E i \in 1 .. Len(inbox'[u]) : Tells(u, i, q)' > 0)
              => \E u \in Tabs : \E i \in 1 .. Len(inbox[u]) : Tells(u, i, q) > 0
        BY <1>5
      <4> QED
        BY <1>0, <1>1, <3>1, <4>1, <4>2 DEF Known
    <3> QED
      BY <1>0, <1>7, <3>1 DEF Lines, Accounted
  <2>7. Orphaned'
    <3>1. Orphaned
      BY <1>7 DEF Lines
    <3> QED
      BY <1>0, <1>4, <3>1 DEF Orphaned
  <2> QED
    BY <2>1, <2>2, <2>3, <2>4, <2>5, <2>6, <2>7 DEF Lines
<1>8. ASSUME Undisturbed, Lines, Course PROVE Course'
  <2>0. \A u \in Tabs : Len(inbox[u]) <= Len(inbox[t])
    BY <1>8 DEF HandleData, Undisturbed
  <2>1. Clock'
    BY <1>0, <1>8 DEF Course, Clock
  <2>2. AsRead' /\ CursorOfFetch'
    <3>1. AsRead'
      BY <1>0, <1>8 DEF Course, AsRead, HasRead
    <3>2. CursorOfFetch'
      BY <1>0, <1>8 DEF Course, CursorOfFetch, Reconciling
    <3> QED
      BY <3>1, <3>2
  <2>3. \A a, b, c \in Nat : b <= a /\ 1 <= c /\ c <= b =>
            a - b + c \in 1 .. a
    OBVIOUS
  <2>9. \A a, b, c, d \in Nat : d - a + (a - b + c) = d - b + c
    OBVIOUS
  \* Each broadcast is the one of the longest inbox as far from the end.
  <2>4. \A u \in Tabs : \A k \in 1 .. Len(inbox[u]) :
            /\ Len(inbox[t]) - Len(inbox[u]) + k \in 1 .. Len(inbox[t])
            /\ inbox[u][k] = inbox[t][Len(inbox[t]) - Len(inbox[u]) + k]
    <3> SUFFICES ASSUME NEW u \in Tabs, NEW k \in 1 .. Len(inbox[u])
                 PROVE  /\ Len(inbox[t]) - Len(inbox[u]) + k \in 1 .. Len(inbox[t])
                        /\ inbox[u][k] = inbox[t][Len(inbox[t]) - Len(inbox[u]) + k]
      OBVIOUS
    <3>1. Len(inbox[u]) \in Nat /\ Len(inbox[t]) \in Nat /\ k \in Nat /\ 1 <= k /\ k <= Len(inbox[u])
      BY <1>3
    <3>2. Len(inbox[t]) - Len(inbox[u]) + k \in 1 .. Len(inbox[t])
      BY <2>0, <2>3, <3>1
    <3>3. Aligned
      BY <1>8 DEF Course
    <3> QED
      BY <2>0, <3>2, <3>3 DEF Aligned
  <2>5. \A u \in Tabs : \A k \in 1 .. Len(inbox'[u]) :
            /\ Len(inbox[t]) - Len(inbox'[u]) + k \in 1 .. Len(inbox[t])
            /\ inbox'[u][k] = inbox[t][Len(inbox[t]) - Len(inbox'[u]) + k]
    <3> SUFFICES ASSUME NEW u \in Tabs, NEW k \in 1 .. Len(inbox'[u])
                 PROVE  /\ Len(inbox[t]) - Len(inbox'[u]) + k \in 1 .. Len(inbox[t])
                        /\ inbox'[u][k] = inbox[t][Len(inbox[t]) - Len(inbox'[u]) + k]
      OBVIOUS
    <3>1. CASE u = t
      <4>1. \A a \in Nat \ {0} : \A c \in 1 .. a - 1 : a - (a - 1) + c = c + 1 /\ c + 1 \in 1 .. a
        OBVIOUS
      <4>2. Len(inbox[t]) - Len(inbox'[u]) + k = k + 1 /\ k + 1 \in 1 .. Len(inbox[t])
        BY <1>1, <3>1, <4>1
      <4> QED
        BY <1>1, <3>1, <4>2
    <3>2. CASE u # t
      <4>1. inbox'[u] = inbox[u]
        BY <1>1, <3>2
      <4> QED
        BY <2>4, <4>1
    <3> QED
      BY <3>1, <3>2
  <2>6. Aligned'
    <3> SUFFICES ASSUME NEW v \in Tabs, NEW u \in Tabs, Len(inbox'[u]) <= Len(inbox'[v]),
                        NEW k \in 1 .. Len(inbox'[u])
                 PROVE  inbox'[u][k] = inbox'[v][Len(inbox'[v]) - Len(inbox'[u]) + k]
      BY DEF Aligned
    <3>1. /\ Len(inbox'[u]) \in Nat /\ Len(inbox'[v]) \in Nat /\ Len(inbox[t]) \in Nat
          /\ Len(inbox'[v]) <= Len(inbox[t])
          /\ k \in Nat /\ 1 <= k /\ k <= Len(inbox'[u])
      BY <1>1, <1>3, <2>0
    <3>2. /\ Len(inbox'[v]) - Len(inbox'[u]) + k \in 1 .. Len(inbox'[v])
          /\ Len(inbox[t]) - Len(inbox'[v]) + (Len(inbox'[v]) - Len(inbox'[u]) + k)
                = Len(inbox[t]) - Len(inbox'[u]) + k
      <4>1. Len(inbox'[v]) - Len(inbox'[u]) + k \in 1 .. Len(inbox'[v])
        BY <2>3, <3>1
      <4>2. Len(inbox[t]) - Len(inbox'[v]) + (Len(inbox'[v]) - Len(inbox'[u]) + k)
                = Len(inbox[t]) - Len(inbox'[u]) + k
        <5>1. PICK a \in Nat : a = Len(inbox'[v])
          BY <3>1
        <5>2. PICK b \in Nat : b = Len(inbox'[u])
          BY <3>1
        <5>3. PICK d \in Nat : d = Len(inbox[t])
          BY <3>1
        <5>4. d - a + (a - b + k) = d - b + k
          BY <2>9, <3>1
        <5> QED
          BY <5>1, <5>2, <5>3, <5>4
      <4> QED
        BY <4>1, <4>2
    <3> QED
      BY <2>5, <3>2
  <2>7. ASSUME NEW q \in Exists, Here(q) PROVE Here(q)'
    <3>1. q \in Rows /\ q \notin gone /\ db[q].ver > 0 /\ db[q].ver \in Nat
      BY <1>6 DEF Exists
    <3>2. CASE \E u \in Tabs : \E i \in 1 .. Len(inbox'[u]) : Tells(u, i, q)' = db[q].ver
      BY <1>0, <3>2 DEF Here
    <3>3. CASE ~\E u \in Tabs : \E i \in 1 .. Len(inbox'[u]) : Tells(u, i, q)' = db[q].ver
      <4>1. CASE \E u \in Tabs : \E i \in 1 .. Len(inbox[u]) : Tells(u, i, q) = db[q].ver
        <5>1. PICK u \in Tabs : \E i \in 1 .. Len(inbox[u]) : Tells(u, i, q) = db[q].ver
          BY <4>1
        <5>2. PICK i \in 1 .. Len(inbox[u]) : Tells(u, i, q) = db[q].ver
          BY <5>1
        <5>3. PICK j \in 1 .. Len(inbox[t]) : inbox[u][i] = inbox[t][j]
          BY <2>4
        <5>4. Tells(t, j, q) = db[q].ver
          BY <5>2, <5>3 DEF Tells
        <5>5. j = 1
          <6>1. ASSUME j # 1 PROVE FALSE
            <7>1. j - 1 \in 1 .. Len(inbox'[t]) /\ (j - 1) + 1 = j
              BY <1>1, <6>1
            <7>2. PICK k \in 1 .. Len(inbox'[t]) : k + 1 = j
              BY <7>1
            <7>3. inbox'[t][k] = inbox[t][j]
              BY <1>1, <7>2
            <7>4. Tells(t, k, q)' = db[q].ver
              BY <5>4, <7>3 DEF Tells
            <7> QED
              BY <3>3, <7>2, <7>4
          <6> QED
            BY <6>1
        <5>6. idb'[q] = db[q].ver
          BY <1>2, <3>1, <5>4, <5>5
        <5>7. \A v \in Tabs : \A k \in 1 .. Len(inbox'[v]) : Tells(v, k, q)' = 0
          <6> SUFFICES ASSUME NEW v \in Tabs, NEW k \in 1 .. Len(inbox'[v]) PROVE Tells(v, k, q)' = 0
            OBVIOUS
          <6>1. PICK n \in 1 .. Len(inbox[t]) : inbox'[v][k] = inbox[t][n]
            BY <2>5
          <6>2. Tells(v, k, q)' = Tells(t, n, q)
            BY <6>1 DEF Tells
          <6>3. n = 1 \/ 1 < n
            BY <1>1
          <6>4. Tells(t, n, q) \in {0, db[q].ver}
            <7>1. InOrder
              BY <1>8 DEF Lines
            <7> QED
              BY <1>1, <3>1, <5>4, <5>5, <6>3, <7>1 DEF InOrder
          <6> QED
            BY <3>3, <6>2, <6>4
        <5> QED
          BY <1>0, <5>6, <5>7 DEF Here
      <4>2. CASE idb[q] = db[q].ver /\ \A u \in Tabs : \A i \in 1 .. Len(inbox[u]) : Tells(u, i, q) = 0
        <5>1. Tells(t, 1, q) = 0 /\ q \notin msg.orphans
          <6>1. Orphaned
            BY <1>8 DEF Lines
          <6> QED
            BY <1>1, <3>1, <4>2, <6>1 DEF Orphaned, msg
        <5>2. idb'[q] = db[q].ver
          <6>1. ~(0 > 0)
            OBVIOUS
          <6> QED
            BY <1>2, <3>1, <4>2, <5>1, <6>1
        <5>3. \A u \in Tabs : \A i \in 1 .. Len(inbox'[u]) : Tells(u, i, q)' = 0
          BY <1>5, <3>1, <4>2
        <5> QED
          BY <1>0, <5>2, <5>3 DEF Here
      <4> QED
        BY <2>7, <4>1, <4>2 DEF Here
    <3> QED
      BY <3>2, <3>3
  <2>8. Follows'
    <3>1. Follows
      BY <1>8 DEF Course
    <3> QED
      BY <1>0, <2>7, <3>1 DEF Follows, Reconciling
  <2> QED
    BY <2>1, <2>2, <2>6, <2>8 DEF Course
<1>9. ASSUME Deaf PROVE Deaf'
  <2>1. t \in declared
    BY <1>1, <1>9 DEF Deaf
  <2> QED
    BY <1>0, <1>1, <1>9, <2>1 DEF Deaf
<1> QED
  BY <1>7, <1>8, <1>9

\* Nothing of a SharedWorker is left when its last tab closes, except the copy.
LEMMA RestartKeeps ==
    ASSUME SyncTyped, Restart
    PROVE  /\ Lines => Lines'
           /\ Course => Course'
           /\ Deaf'
<1>0. /\ env' = env /\ now' = now /\ db' = db /\ gone' = gone /\ idb' = idb
      /\ cursor' = 0 /\ known' = NoIds /\ seeds' = NoIds
      /\ \A f \in Fetches : fetch'[f] = NoFetch
      /\ \A t \in Tabs : inbox'[t] = <<>> /\ Len(inbox'[t]) = 0
  <2>1. Len(<<>>) = 0
    BY EmptySeq
  <2> QED
    BY <2>1 DEF Restart, server
<1>1. \A f \in Fetches : ~Busy(f)' /\ ~HasRead(f)' /\ ~Reconciling(f)'
  BY <1>0, NoFetchTyped DEF Busy, HasRead, Reconciling
<1>2. \A t \in Tabs : \A i \in 1 .. Len(inbox'[t]) : FALSE
  BY <1>0
<1>3. \A q \in Rows : db[q].at \in Nat /\ db[q].ver \in Nat /\ q # 0 /\ fetch \in [Fetches -> Fetch]
  BY RowIs, Bounds DEF SyncTyped, TypeOK
<1>4. ASSUME Lines PROVE Lines'
  <2>1. OneSync'
    BY <1>1 DEF OneSync
  <2>2. NotAhead'
    <3>1. \A f \in Fetches : \A q \in Rows : fetch'[f].rows[q] = 0
      BY <1>0, NoFetchTyped DEF NoRows
    <3> QED
      BY <1>0, <1>2, <1>3, <1>4, <3>1 DEF Lines, NotAhead
  <2>3. InOrder' /\ Orphaned'
    BY <1>2 DEF InOrder, Orphaned
  <2>4. FetchLast' /\ Accounted'
    BY <1>1 DEF FetchLast, Accounted, HasRead
  <2>5. KnownCreated'
    BY <1>0, <1>3 DEF KnownCreated, NoIds
  <2> QED
    BY <2>1, <2>2, <2>3, <2>4, <2>5 DEF Lines
<1>5. ASSUME Course PROVE Course'
  <2>0. now \in Nat /\ 0 <= now
    BY Bounds DEF SyncTyped, TypeOK, Times
  <2>1. Clock'
    <3>1. \A f \in Fetches : fetch'[f].since = 0 /\ fetch'[f].synced = 0
      BY <1>0 DEF NoFetch
    <3> QED
      BY <1>0, <1>5, <2>0, <3>1 DEF Course, Clock
  <2>2. Aligned'
    BY <1>2 DEF Aligned
  <2>3. AsRead' /\ CursorOfFetch'
    BY <1>1 DEF AsRead, CursorOfFetch
  <2>4. Follows'
    <3>1. \A f \in Fetches : fetch'[f].pc # "sent" /\ fetch'[f].pc # "read"
      BY <1>1 DEF Busy
    <3>2. \A q \in Rows : ~(db[q].at < 0)
      BY <1>3
    <3> QED
      BY <1>0, <3>1, <3>2 DEF Follows, Exists
  <2> QED
    BY <2>1, <2>2, <2>3, <2>4 DEF Course
<1>6. Deaf'
  BY <1>0 DEF Deaf
<1> QED
  BY <1>4, <1>5, <1>6

\* A tab that has not declared is told nothing.
LEMMA DeafKeeps ==
    ASSUME SyncTyped, Deaf, NEW f \in Fetches, RunSync(f) \/ ResetCursor(f) \/ FetchStep(f)
    PROVE  Deaf'
<1>1. declared' = declared
  BY DEF RunSync, ResetCursor, FetchStep, ReadChanged, FetchFails, Merge, FetchIds, ReadIds, Reconcile,
         ReconcileFails, Sends, worker
<1>2. inbox' = inbox \/ \E page, orphans : inbox' = Told(page, orphans)
  BY DEF RunSync, ResetCursor, FetchStep, ReadChanged, FetchFails, Merge, FetchIds, ReadIds, Reconcile,
         ReconcileFails, Sends, worker
<1>3. \A t \in Tabs \ declared : inbox'[t] = inbox[t]
  BY <1>2 DEF Told
<1> QED
  BY <1>1, <1>3 DEF Deaf

LEMMA EnvStays ==
    ASSUME Next
    PROVE  env' = env
BY DEF Next, Tick, Write, Delete, RunSync, ResetCursor, FetchStep, ReadChanged, FetchFails, Merge, FetchIds,
       ReadIds, Reconcile, ReconcileFails, Declare, HandleData, Restart

\* Every step of the SharedWorker, its tabs and the database keeps the invariant.
LEMMA SyncKeeps ==
    ASSUME SyncInv, Next
    PROVE  SyncInv'
<1>0. SyncTyped /\ Deaf /\ ("reset" \notin env => Lines) /\ (Undisturbed => Course)
  BY DEF SyncInv
<1>1. SyncTyped'
  BY <1>0, NextTyped
<1>2. env' = env /\ (Undisturbed' <=> Undisturbed) /\ (Undisturbed => "reset" \notin env)
  BY EnvStays DEF Undisturbed
<1>3. ASSUME /\ "reset" \notin env => (Lines => Lines')
             /\ Undisturbed => (Lines /\ Deaf /\ Course => Course')
             /\ Deaf'
      PROVE  SyncInv'
  BY <1>0, <1>1, <1>2, <1>3 DEF SyncInv
<1>4. CASE Tick
  <2>1. Deaf'
    BY <1>0, <1>4 DEF Tick, Deaf, worker
  <2> QED
    BY <1>0, <1>3, <1>4, <2>1, TickKeeps
<1>5. ASSUME NEW r \in Rows, NEW at \in Times, Write(r, at) PROVE SyncInv'
  <2>1. Deaf'
    BY <1>0, <1>5 DEF Write, Deaf, worker
  <2> QED
    BY <1>0, <1>3, <1>5, <2>1, WriteKeeps
<1>6. ASSUME NEW r \in Rows, NEW here \in BOOLEAN, Delete(r, here) PROVE SyncInv'
  <2>1. Deaf'
    BY <1>0, <1>6 DEF Delete, Deaf, worker
  <2> QED
    BY <1>0, <1>3, <1>6, <2>1, DeleteKeeps
<1>7. ASSUME NEW f \in Fetches, RunSync(f) \/ ResetCursor(f) \/ FetchStep(f) PROVE SyncInv'
  <2>1. Deaf'
    BY <1>0, <1>7, DeafKeeps
  <2>2. CASE RunSync(f)
    BY <1>0, <1>3, <2>1, <2>2, RunKeeps
  <2>3. CASE ResetCursor(f)
    <3>1. "reset" \in env
      BY <2>3 DEF ResetCursor
    <3> QED
      BY <1>2, <1>3, <2>1, <3>1
  <2>4. CASE ReadChanged(f)
    BY <1>0, <1>3, <2>1, <2>4, ReadKeeps
  <2>5. CASE FetchFails(f)
    BY <1>0, <1>3, <2>1, <2>5, FailKeeps
  <2>6. CASE FetchIds(f)
    BY <1>0, <1>3, <2>1, <2>6, FetchIdsKeeps
  <2>7. CASE ReadIds(f)
    BY <1>0, <1>3, <2>1, <2>7, ReadIdsKeeps
  <2>8. CASE Merge(f) \/ Reconcile(f) \/ ReconcileFails(f)
    BY <1>0, <1>3, <2>1, <2>8, MergeKeeps
  <2> QED
    BY <1>7, <2>2, <2>3, <2>4, <2>5, <2>6, <2>7, <2>8 DEF FetchStep
<1>8. ASSUME NEW t \in Tabs, NEW p \in BOOLEAN, Declare(t, p) PROVE SyncInv'
  BY <1>0, <1>3, <1>8, DeclareKeeps
<1>9. ASSUME NEW t \in Tabs, HandleData(t) PROVE SyncInv'
  BY <1>0, <1>3, <1>9, HandleKeeps
<1>10. CASE Restart
  BY <1>0, <1>3, <1>10, RestartKeeps
<1> QED
  BY <1>4, <1>5, <1>6, <1>7, <1>8, <1>9, <1>10 DEF Next

-----------------------------------------------------------------------------
(* A leading tab                                                            *)

LEMMA NoPullTyped ==
    /\ NoPull \in Pull /\ NoPull.pc = "free" /\ NoPull.since = 0 /\ NoPull.synced = 0
    /\ NoPull.rows = NoRows
BY Bounds DEF NoPull, Pull

\* What the types say of a tab's sync.
LEMMA PullIs ==
    ASSUME BrowserTypeOK, NEW t \in Tabs
    PROVE  /\ pull[t] \in Pull /\ pull[t].rows \in Page
           /\ pull[t].pc \in {"free", "sent", "read", "put"}
           /\ pull[t].since \in Times /\ pull[t].synced \in Times
           /\ pull[t].since \in Nat /\ pull[t].synced \in Nat /\ saved \in Nat
           /\ \A r \in Rows : pull[t].rows[r] \in Nat /\ pull[t].rows[r] \in Versions
<1>1. pull[t] \in Pull /\ saved \in Times
  BY DEF BrowserTypeOK
<1>2. Times \subseteq Nat /\ Versions \subseteq Nat
  BY Bounds DEF Times, Versions
<1> QED
  BY <1>1, <1>2 DEF Pull, Page

LEMMA PullFreed ==
    ASSUME BrowserTypeOK, NEW t \in Tabs, pull' = [pull EXCEPT ![t] = NoPull]
    PROVE  /\ pull' \in [Tabs -> Pull] /\ pull'[t] = NoPull
           /\ \A u \in Tabs \ {t} : pull'[u] = pull[u]
BY NoPullTyped DEF BrowserTypeOK

\* The rows that changed at or after a time.
Changed(since) == [r \in Rows |-> IF r \in Exists /\ db[r].at >= since THEN db[r].ver ELSE 0]

LEMMA PullSent ==
    ASSUME BrowserTypeOK, NEW t \in Tabs,
           pull' = [pull EXCEPT ![t] = [NoPull EXCEPT !.pc = "sent", !.since = saved, !.synced = now]]
    PROVE  /\ pull' \in [Tabs -> Pull]
           /\ pull'[t].pc = "sent" /\ pull'[t].since = saved /\ pull'[t].synced = now
           /\ pull'[t].rows = NoRows
           /\ \A u \in Tabs \ {t} : pull'[u] = pull[u]
<1> DEFINE p == [NoPull EXCEPT !.pc = "sent", !.since = saved, !.synced = now]
<1>1. p \in Pull /\ p.pc = "sent" /\ p.since = saved /\ p.synced = now /\ p.rows = NoRows
  BY NoPullTyped DEF NoPull, BrowserTypeOK, TypeOK, Pull
<1>2. pull' = [pull EXCEPT ![t] = p]
  OBVIOUS
<1> HIDE DEF p
<1>3. pull \in [Tabs -> Pull]
  BY DEF BrowserTypeOK
<1> QED
  BY <1>1, <1>2, <1>3

LEMMA PullRead ==
    ASSUME BrowserTypeOK, NEW t \in Tabs, PullReads(t)
    PROVE  /\ pull' \in [Tabs -> Pull]
           /\ pull'[t].pc = "read" /\ pull'[t].since = pull[t].since /\ pull'[t].synced = pull[t].synced
           /\ pull'[t].rows = Changed(pull[t].since)
           /\ \A u \in Tabs \ {t} : pull'[u] = pull[u]
<1>1. Changed(pull[t].since) \in Page
  BY Bounds DEF Changed, Page, BrowserTypeOK, TypeOK
<1> DEFINE page == Changed(pull[t].since)
<1>2. pull' = [pull EXCEPT ![t].pc = "read", ![t].rows = page]
  BY DEF PullReads, Changed
<1> HIDE DEF page
<1> DEFINE p == [pull[t] EXCEPT !.pc = "read", !.rows = page]
<1>3. pull \in [Tabs -> Pull] /\ pull[t] \in Pull
  BY PullIs DEF BrowserTypeOK
<1>4. p \in Pull /\ p.pc = "read" /\ p.since = pull[t].since /\ p.synced = pull[t].synced /\ p.rows = page
  BY <1>1, <1>3 DEF Pull, page
<1>5. pull' = [pull EXCEPT ![t] = p]
  BY <1>2, <1>3
<1> HIDE DEF p
<1> QED
  BY <1>3, <1>4, <1>5 DEF page

LEMMA PullPut ==
    ASSUME BrowserTypeOK, NEW t \in Tabs, PullPuts(t)
    PROVE  /\ pull' \in [Tabs -> Pull] /\ idb' \in Page /\ setBack' \in SUBSET Rows
           /\ pull'[t].pc = "put" /\ pull'[t].since = 0 /\ pull'[t].synced \in {0, pull[t].synced}
           /\ pull'[t].rows = NoRows
           /\ \A u \in Tabs \ {t} : pull'[u] = pull[u]
           /\ \A r \in Rows : idb'[r] = IF pull[t].rows[r] > 0 THEN pull[t].rows[r] ELSE idb[r]
           /\ \A r \in Rows \ setBack' :
                  r \notin setBack /\ (pull[t].rows[r] > 0 => idb[r] <= pull[t].rows[r])
<1>1. pull \in [Tabs -> Pull] /\ pull[t].synced \in Times /\ 0 \in Times
  BY PullIs, Bounds DEF BrowserTypeOK
<1>2. PICK time \in {0, pull[t].synced} :
          pull' = [pull EXCEPT ![t] = [NoPull EXCEPT !.pc = "put", !.synced = time]]
  BY DEF PullPuts
<1> DEFINE p == [NoPull EXCEPT !.pc = "put", !.synced = time]
<1>3. p \in Pull /\ p.pc = "put" /\ p.since = 0 /\ p.synced = time /\ p.rows = NoRows
  BY <1>1, NoPullTyped DEF NoPull, Pull
<1>4. pull' = [pull EXCEPT ![t] = p]
  BY <1>2
<1> HIDE DEF p
<1>5. pull' \in [Tabs -> Pull] /\ pull'[t] = p /\ \A u \in Tabs \ {t} : pull'[u] = pull[u]
  BY <1>1, <1>3, <1>4
<1>6. idb' = [r \in Rows |-> IF pull[t].rows[r] > 0 THEN pull[t].rows[r] ELSE idb[r]]
  BY DEF PullPuts
<1>7. idb' \in Page
  BY <1>6, PullIs DEF BrowserTypeOK, TypeOK, Page
<1>8. setBack' = setBack \cup {r \in In(pull[t].rows) : pull[t].rows[r] < idb[r]} /\ setBack \in SUBSET Rows
  BY DEF PullPuts, BrowserTypeOK
<1>9. setBack' \in SUBSET Rows
  BY <1>8 DEF In
<1>10. ASSUME NEW r \in Rows, r \notin setBack'
       PROVE  r \notin setBack /\ (pull[t].rows[r] > 0 => idb[r] <= pull[t].rows[r])
  <2>1. pull[t].rows[r] \in Nat /\ idb[r] \in Nat
    BY PullIs, Bounds DEF BrowserTypeOK, TypeOK, Page, Versions
  <2> QED
    BY <1>8, <1>10, <2>1 DEF In
<1> QED
  BY <1>3, <1>5, <1>6, <1>7, <1>9, <1>10

LEMMA VarsStay ==
    ASSUME SyncTyped, UNCHANGED vars
    PROVE  SyncTyped'
BY DEF SyncTyped, TypeOK, vars, server, worker

\* Every step of the election and of a tab's sync keeps the types.
LEMMA TabTyped ==
    ASSUME BrowserTypeOK, SyncTyped, mode = "fallback", Stale \/ \E t \in Tabs : TabStep(t)
    PROVE  BrowserTypeOK' /\ SyncTyped' /\ mode' = mode /\ cursor' = cursor /\ env' = env
<1>0. /\ record \in Record /\ open \in SUBSET Tabs /\ saved \in Times /\ now \in Times /\ setBack \in SUBSET Rows
      /\ leader \in [Tabs -> BOOLEAN] /\ event \in [Tabs -> BOOLEAN] /\ writing \in [Tabs -> BOOLEAN]
      /\ pull \in [Tabs -> Pull] /\ TRUE \in BOOLEAN /\ FALSE \in BOOLEAN
  BY DEF BrowserTypeOK, TypeOK
<1>1. ASSUME vars' = vars, mode' = mode, open' \in SUBSET Tabs, record' \in Record,
             leader' \in [Tabs -> BOOLEAN], event' \in [Tabs -> BOOLEAN], writing' \in [Tabs -> BOOLEAN],
             pull' \in [Tabs -> Pull], saved' \in Times, setBack' = setBack
      PROVE  BrowserTypeOK' /\ SyncTyped' /\ mode' = mode /\ cursor' = cursor /\ env' = env
  <2>1. SyncTyped'
    BY <1>1, VarsStay
  <2>2. cursor' = cursor /\ env' = env
    BY <1>1 DEF vars, worker
  <2> QED
    BY <1>1, <2>1, <2>2 DEF BrowserTypeOK, SyncTyped
<1>2. CASE Stale
  <2>1. record' \in Record
    BY <1>0, <1>2 DEF Stale, Record, Ages
  <2> QED
    BY <1>0, <1>1, <1>2, <2>1 DEF Stale
<1>3. ASSUME NEW t \in Tabs, Close(t) PROVE BrowserTypeOK' /\ SyncTyped' /\ mode' = mode /\ cursor' = cursor /\ env' = env
  <2>1. pull' \in [Tabs -> Pull] /\ open' \in SUBSET Tabs
    BY <1>0, <1>3, PullFreed DEF Close
  <2>2. leader' \in [Tabs -> BOOLEAN] /\ event' \in [Tabs -> BOOLEAN] /\ writing' \in [Tabs -> BOOLEAN]
    BY <1>0, <1>3 DEF Close
  <2> QED
    BY <1>0, <1>1, <1>3, <2>1, <2>2 DEF Close
<1>4. ASSUME NEW t \in Tabs, Evaluate(t) PROVE BrowserTypeOK' /\ SyncTyped' /\ mode' = mode /\ cursor' = cursor /\ env' = env
  <2>1. event' \in [Tabs -> BOOLEAN]
    BY <1>0, <1>4 DEF Evaluate
  <2>2. leader' \in [Tabs -> BOOLEAN]
    BY <1>0, <1>4 DEF Evaluate, Claim
  <2>3. writing' \in [Tabs -> BOOLEAN]
    <3>1. leader[t] = TRUE \/ leader[t] = FALSE
      BY <1>0
    <3>2. (~leader[t]) \in BOOLEAN
      BY <3>1
    <3> QED
      BY <1>0, <1>4, <3>2 DEF Evaluate, Claim
  <2> QED
    BY <1>0, <1>1, <1>4, <2>1, <2>2, <2>3 DEF Evaluate
<1>5. ASSUME NEW t \in Tabs, Written(t) PROVE record' \in Record /\ event' \in [Tabs -> BOOLEAN]
  <2>1. record' \in Record
    BY <1>5 DEF Written, Record, Ages
  <2>2. \A u \in Tabs : (event[u] \/ (u \in open /\ u # t)) \in BOOLEAN
    OBVIOUS
  <2> QED
    BY <1>5, <2>1, <2>2 DEF Written
<1>6. ASSUME NEW t \in Tabs, WriteRecord(t) PROVE BrowserTypeOK' /\ SyncTyped' /\ mode' = mode /\ cursor' = cursor /\ env' = env
  <2>1. record' \in Record /\ event' \in [Tabs -> BOOLEAN]
    BY <1>5, <1>6 DEF WriteRecord
  <2>2. writing' \in [Tabs -> BOOLEAN]
    BY <1>0, <1>6 DEF WriteRecord
  <2> QED
    BY <1>0, <1>1, <1>6, <2>1, <2>2 DEF WriteRecord
<1>7. ASSUME NEW t \in Tabs, Heartbeat(t) PROVE BrowserTypeOK' /\ SyncTyped' /\ mode' = mode /\ cursor' = cursor /\ env' = env
  <2>1. record' \in Record /\ event' \in [Tabs -> BOOLEAN]
    BY <1>5, <1>7 DEF Heartbeat
  <2> QED
    BY <1>0, <1>1, <1>7, <2>1 DEF Heartbeat
<1>8. ASSUME NEW t \in Tabs, PullStarts(t) PROVE BrowserTypeOK' /\ SyncTyped' /\ mode' = mode /\ cursor' = cursor /\ env' = env
  <2>1. pull' \in [Tabs -> Pull]
    BY <1>8, PullSent DEF PullStarts
  <2> QED
    BY <1>0, <1>1, <1>8, <2>1 DEF PullStarts, election
<1>9. ASSUME NEW t \in Tabs, PullReads(t) PROVE BrowserTypeOK' /\ SyncTyped' /\ mode' = mode /\ cursor' = cursor /\ env' = env
  <2>1. pull' \in [Tabs -> Pull]
    BY <1>9, PullRead
  <2> QED
    BY <1>0, <1>1, <1>9, <2>1 DEF PullReads, election
<1>10. ASSUME NEW t \in Tabs, PullPuts(t) PROVE BrowserTypeOK' /\ SyncTyped' /\ mode' = mode /\ cursor' = cursor /\ env' = env
  <2>1. pull' \in [Tabs -> Pull] /\ idb' \in Page /\ setBack' \in SUBSET Rows
    BY <1>10, PullPut
  <2>2. SyncTyped' /\ cursor' = cursor /\ env' = env
    BY <1>10, <2>1 DEF PullPuts, SyncTyped, TypeOK, server, worker
  <2> QED
    BY <1>0, <1>10, <2>1, <2>2 DEF PullPuts, election, BrowserTypeOK, SyncTyped
<1>11. ASSUME NEW t \in Tabs, PullSaves(t) PROVE BrowserTypeOK' /\ SyncTyped' /\ mode' = mode /\ cursor' = cursor /\ env' = env
  <2>1. pull' \in [Tabs -> Pull]
    BY <1>11, PullFreed DEF PullSaves
  <2>2. saved' \in Times
    BY <1>0, <1>11, PullIs DEF PullSaves
  <2> QED
    BY <1>0, <1>1, <1>11, <2>1, <2>2 DEF PullSaves, election
<1>12. ASSUME NEW t \in Tabs, PullFails(t) PROVE BrowserTypeOK' /\ SyncTyped' /\ mode' = mode /\ cursor' = cursor /\ env' = env
  <2>1. pull' \in [Tabs -> Pull]
    BY <1>12, PullFreed DEF PullFails
  <2> QED
    BY <1>0, <1>1, <1>12, <2>1 DEF PullFails, election
<1> QED
  BY <1>2, <1>3, <1>4, <1>6, <1>7, <1>8, <1>9, <1>10, <1>11, <1>12 DEF TabStep, PullStep

\* A write has the time of now, which no cursor is beyond.
LEMMA LeadDatabase ==
    ASSUME BrowserTypeOK, SyncTyped, LeadInv, Database, UNCHANGED tabs
    PROVE  LeadInv'
<1>0. pull' = pull /\ saved' = saved /\ setBack' = setBack
  BY DEF tabs
<1>1. /\ \A r \in Rows : db[r].at \in Nat /\ db[r].ver \in Nat
      /\ now \in Nat /\ saved \in Nat
      /\ \A t \in Tabs : /\ pull[t].since \in Nat /\ pull[t].synced \in Nat
                         /\ \A r \in Rows : pull[t].rows[r] \in Nat
  BY RowIs, PullIs, Bounds DEF BrowserTypeOK, TypeOK, Times
<1>2. CASE Tick
  <2>1. env' = env /\ db' = db /\ idb' = idb /\ Exists' = Exists /\ now' = now + 1
    BY <1>2 DEF Tick, Exists
  <2> QED
    BY <1>0, <1>1, <2>1 DEF LeadInv, Covers
<1>3. ASSUME NEW r \in Rows, NEW at \in Times, Write(r, at) PROVE LeadInv'
  <2>1. env' = env /\ idb' = idb /\ now' = now /\ Exists' \subseteq Exists \cup {r}
    BY <1>3 DEF Write, Exists, SyncTyped, TypeOK
  <2>2. /\ db'[r].at = at /\ db'[r].ver = db[r].ver + 1 /\ \A q \in Rows \ {r} : db'[q] = db[q]
        /\ "late" \notin env => at = now
    BY <1>3 DEF Write, SyncTyped, TypeOK
  <2>3. \A t \in Tabs : \A q \in Rows : pull[t].rows[q] <= db'[q].ver
    BY <1>1, <2>2 DEF LeadInv
  <2> SUFFICES ASSUME "late" \notin env' PROVE LeadInv'
    BY <1>0, <2>3 DEF LeadInv
  <2>4. /\ \A q \in Rows : db[q].at <= now
        /\ saved <= now
        /\ \A t \in Tabs : pull[t].synced <= now /\ pull[t].since <= now
    BY <2>1 DEF LeadInv
  <2>5. \A q \in Rows : db'[q].at <= now
    BY <1>1, <2>1, <2>2, <2>4
  <2>6. \A q \in Rows, time \in Nat : time <= now /\ db'[q].at < time => q # r /\ db'[q] = db[q]
    BY <1>1, <2>1, <2>2
  <2>7. \A q \in Exists' : q # r => q \in Exists
    BY <2>1
  <2>8. \A time \in Nat : time <= now /\ Covers(time) => Covers(time)'
    BY <1>0, <2>1, <2>6, <2>7 DEF Covers, Exists
  <2>9. ASSUME NEW t \in Tabs
        PROVE  /\ pull[t].pc \in {"sent", "read"} => Covers(pull[t].since)'
               /\ pull[t].pc = "read" => \A q \in Exists' :
                     pull[t].since <= db'[q].at /\ db'[q].at < pull[t].synced => pull[t].rows[q] = db'[q].ver
               /\ pull[t].pc = "put" => Covers(pull[t].synced)'
    <3>1. pull'[t] = pull[t] /\ pull[t].since \in Nat /\ pull[t].synced \in Nat
          /\ pull[t].since <= now /\ pull[t].synced <= now
      BY <1>0, <1>1, <2>4
    <3>2. pull[t].pc \in {"sent", "read"} => Covers(pull[t].since)'
      BY <1>0, <2>1, <2>8, <3>1 DEF LeadInv, Covers
    <3>3. pull[t].pc = "put" => Covers(pull[t].synced)'
      BY <1>0, <2>1, <2>8, <3>1 DEF LeadInv, Covers
    <3>4. ASSUME pull[t].pc = "read", NEW q \in Exists',
                 pull[t].since <= db'[q].at, db'[q].at < pull[t].synced
          PROVE  pull[t].rows[q] = db'[q].ver
      <4>1. q \in Rows
        BY DEF Exists
      <4>2. q # r /\ db'[q] = db[q]
        BY <2>6, <3>1, <3>4, <4>1
      <4>3. q \in Exists
        BY <2>7, <4>2
      <4> QED
        BY <2>1, <3>4, <4>2, <4>3 DEF LeadInv
    <3> QED
      BY <3>2, <3>3, <3>4
  <2>10. Covers(saved)'
    BY <1>0, <1>1, <2>1, <2>4, <2>8 DEF LeadInv, Covers
  <2> QED
    BY <1>0, <2>1, <2>3, <2>4, <2>5, <2>9, <2>10 DEF LeadInv
<1>4. ASSUME NEW r \in Rows, NEW here \in BOOLEAN, Delete(r, here) PROVE LeadInv'
  <2>1. /\ env' = env /\ db' = db /\ now' = now /\ Exists' = Exists \ {r}
        /\ \A q \in Rows \ {r} : idb'[q] = idb[q]
    BY <1>4 DEF Delete, Exists, SyncTyped, TypeOK, Page
  <2>2. \A q \in Exists' : q \in Exists /\ idb'[q] = idb[q]
    BY <2>1 DEF Exists
  <2>3. \A time : Covers(time) => Covers(time)'
    BY <1>0, <2>1, <2>2 DEF Covers
  <2>4. \A t \in Tabs : /\ Covers(pull[t].since) => Covers(pull[t].since)'
                        /\ Covers(pull[t].synced) => Covers(pull[t].synced)'
    BY <1>0, <2>1, <2>2 DEF Covers
  <2>5. Covers(saved) => Covers(saved)'
    BY <1>0, <2>1, <2>2 DEF Covers
  <2> QED
    BY <1>0, <2>1, <2>2, <2>4, <2>5 DEF LeadInv
<1> QED
  BY <1>2, <1>3, <1>4 DEF Database

\* A tab's sync puts what changed since the saved cursor before the cursor moves; what
\* it puts over a newer row is set back.
LEMMA LeadTabs ==
    ASSUME BrowserTypeOK, SyncTyped, LeadInv, Stale \/ \E t \in Tabs : TabStep(t)
    PROVE  LeadInv'
<1>7. /\ \A r \in Rows : db[r].at \in Nat /\ db[r].ver \in Nat /\ idb[r] \in Nat
      /\ now \in Nat /\ saved \in Nat
      /\ \A t \in Tabs : /\ pull[t].since \in Nat /\ pull[t].synced \in Nat
                         /\ \A r \in Rows : pull[t].rows[r] \in Nat
  BY RowIs, PullIs, Bounds DEF BrowserTypeOK, TypeOK, Times
<1>1. ASSUME vars' = vars, setBack' = setBack, NEW t \in Tabs,
             saved' = saved \/ (pull[t].pc = "put" /\ saved' = pull[t].synced),
             pull'[t] = NoPull \/ pull'[t] = pull[t], \A u \in Tabs \ {t} : pull'[u] = pull[u]
      PROVE  LeadInv'
  <2>1. env' = env /\ db' = db /\ idb' = idb /\ now' = now /\ Exists' = Exists
    BY <1>1 DEF vars, server, Exists
  <2>2. \A u \in Tabs : pull'[u] = NoPull \/ pull'[u] = pull[u]
    BY <1>1
  <2>3. \A time : Covers(time)' <=> Covers(time)
    BY <1>1, <2>1 DEF Covers
  <2>4. \A u \in Tabs : \A r \in Rows : pull'[u].rows[r] <= db'[r].ver
    BY <1>7, <2>1, <2>2, NoPullTyped DEF LeadInv, NoRows
  <2> SUFFICES ASSUME "late" \notin env PROVE LeadInv'
    BY <2>1, <2>4 DEF LeadInv
  <2>5. saved' <= now /\ Covers(saved)'
    BY <1>1, <2>1, <2>3 DEF LeadInv, Covers
  <2>6. \A u \in Tabs : /\ pull'[u].pc \in {"sent", "read"} => Covers(pull[u].since)'
                        /\ pull'[u].pc = "put" => Covers(pull[u].synced)'
    BY <2>1, <1>1, <2>2, NoPullTyped DEF LeadInv, Covers
  <2>7. \A u \in Tabs : pull'[u].synced <= now /\ pull'[u].since <= now
    BY <1>7, <2>2, NoPullTyped DEF LeadInv
  <2>9. \A u \in Tabs : pull'[u].pc = "read" => \A r \in Exists :
           pull'[u].since <= db[r].at /\ db[r].at < pull'[u].synced => pull'[u].rows[r] = db[r].ver
    BY <2>2, NoPullTyped DEF LeadInv
  <2> QED
    BY <2>1, <2>4, <2>5, <2>6, <2>7, <2>9 DEF LeadInv
<1>2. ASSUME vars' = vars, saved' = saved, pull' = pull, setBack' = setBack PROVE LeadInv'
  <2>1. env' = env /\ db' = db /\ idb' = idb /\ now' = now /\ Exists' = Exists
    BY <1>2 DEF vars, server, Exists
  <2> QED
    BY <1>2, <2>1 DEF LeadInv, Covers
<1>3. ASSUME NEW t \in Tabs, Close(t) PROVE LeadInv'
  <2>1. pull'[t] = NoPull /\ \A u \in Tabs \ {t} : pull'[u] = pull[u]
    BY <1>3, PullFreed DEF Close
  <2> QED
    BY <1>1, <1>3, <2>1 DEF Close
<1>4. ASSUME NEW t \in Tabs, PullFails(t) PROVE LeadInv'
  <2>1. pull'[t] = NoPull /\ \A u \in Tabs \ {t} : pull'[u] = pull[u]
    BY <1>4, PullFreed DEF PullFails
  <2> QED
    BY <1>1, <1>4, <2>1 DEF PullFails
<1>5. ASSUME NEW t \in Tabs, Evaluate(t) \/ WriteRecord(t) \/ Heartbeat(t) PROVE LeadInv'
  BY <1>2, <1>5 DEF Evaluate, WriteRecord, Heartbeat
<1>6. CASE Stale
  BY <1>2, <1>6 DEF Stale
<1>8. ASSUME NEW t \in Tabs, PullStarts(t) PROVE LeadInv'
  <2>1. /\ env' = env /\ db' = db /\ idb' = idb /\ now' = now /\ Exists' = Exists /\ saved' = saved
        /\ setBack' = setBack
    BY <1>8 DEF PullStarts, vars, server, Exists
  <2>2. /\ pull'[t].pc = "sent" /\ pull'[t].since = saved /\ pull'[t].synced = now /\ pull'[t].rows = NoRows
        /\ \A u \in Tabs \ {t} : pull'[u] = pull[u]
    BY <1>8, PullSent DEF PullStarts
  <2>3. \A time : Covers(time)' <=> Covers(time)
    BY <2>1 DEF Covers
  <2>4. ASSUME NEW u \in Tabs, NEW r \in Rows PROVE pull'[u].rows[r] <= db'[r].ver
    <3>1. CASE u = t
      BY <1>7, <2>1, <2>2, <3>1 DEF NoRows
    <3> QED
      BY <2>1, <2>2, <3>1 DEF LeadInv
  <2> SUFFICES ASSUME "late" \notin env PROVE LeadInv'
    BY <2>1, <2>4 DEF LeadInv
  <2>5. \A u \in Tabs : pull'[u].synced <= now /\ pull'[u].since <= now
    BY <1>7, <2>2 DEF LeadInv
  <2>6. \A u \in Tabs : pull'[u].pc \in {"read", "put"} => pull'[u] = pull[u]
    BY <2>2
  <2>7. ASSUME NEW u \in Tabs PROVE pull'[u].pc \in {"sent", "read"} => Covers(pull[u].since)'
    <3>1. CASE u = t
      BY <2>1, <2>2, <3>1 DEF LeadInv, Covers
    <3>2. CASE u # t
      <4>1. pull'[u] = pull[u]
        BY <2>2, <3>2
      <4> QED
        BY <2>1, <4>1 DEF LeadInv, Covers
    <3> QED
      BY <3>1, <3>2
  <2>8. ASSUME NEW u \in Tabs, pull'[u].pc = "put" PROVE Covers(pull[u].synced)'
    <3>1. pull'[u] = pull[u]
      BY <2>6, <2>8
    <3> QED
      BY <2>1, <2>8, <3>1 DEF LeadInv, Covers
  <2>9. Covers(saved)' /\ saved' <= now' /\ \A r \in Rows : db'[r].at <= now'
    BY <2>1 DEF LeadInv, Covers
  <2>10. ASSUME NEW u \in Tabs, pull'[u].pc = "read", NEW r \in Exists',
                pull'[u].since <= db'[r].at, db'[r].at < pull'[u].synced
         PROVE  pull'[u].rows[r] = db'[r].ver
    BY <2>1, <2>6, <2>10 DEF LeadInv
  <2> QED
    BY <2>1, <2>4, <2>5, <2>7, <2>8, <2>9, <2>10 DEF LeadInv
<1>9. ASSUME NEW t \in Tabs, PullReads(t) PROVE LeadInv'
  <2>1. /\ env' = env /\ db' = db /\ idb' = idb /\ now' = now /\ Exists' = Exists /\ saved' = saved
        /\ setBack' = setBack
    BY <1>9 DEF PullReads, vars, server, Exists
  <2>2. /\ pull'[t].pc = "read" /\ pull'[t].since = pull[t].since /\ pull'[t].synced = pull[t].synced
        /\ pull'[t].rows = Changed(pull[t].since) /\ pull[t].pc = "sent"
        /\ \A u \in Tabs \ {t} : pull'[u] = pull[u]
    BY <1>9, PullRead DEF PullReads
  <2>3. \A u \in Tabs : /\ pull'[u].synced = pull[u].synced /\ pull'[u].since = pull[u].since
                        /\ pull'[u].pc \in {"sent", "read"} => pull[u].pc \in {"sent", "read"}
                        /\ pull'[u].pc = "put" => pull[u].pc = "put"
    BY <2>2
  <2>4. ASSUME NEW u \in Tabs, NEW r \in Rows PROVE pull'[u].rows[r] <= db'[r].ver
    <3>1. CASE u = t
      BY <1>7, <2>1, <2>2, <3>1 DEF Changed
    <3> QED
      BY <2>1, <2>2, <3>1 DEF LeadInv
  <2> SUFFICES ASSUME "late" \notin env PROVE LeadInv'
    BY <2>1, <2>4 DEF LeadInv
  <2>5. ASSUME NEW u \in Tabs, pull'[u].pc = "read", NEW r \in Exists',
               pull'[u].since <= db'[r].at, db'[r].at < pull'[u].synced
        PROVE  pull'[u].rows[r] = db'[r].ver
    <3>0. r \in Exists /\ r \in Rows
      BY <2>1 DEF Exists
    <3>1. CASE u = t
      <4>1. db[r].at >= pull[t].since
        BY <1>7, <2>1, <2>2, <2>5, <3>0, <3>1
      <4> QED
        BY <2>1, <2>2, <3>0, <3>1, <4>1 DEF Changed
    <3>2. CASE u # t
      <4>1. pull'[u] = pull[u]
        BY <2>2, <3>2
      <4> QED
        BY <2>1, <2>5, <3>0, <4>1 DEF LeadInv
    <3> QED
      BY <3>1, <3>2
  <2>6. \A u \in Tabs : /\ pull'[u].pc \in {"sent", "read"} => Covers(pull[u].since)'
                        /\ pull'[u].pc = "put" => Covers(pull[u].synced)'
    BY <2>1, <2>3 DEF LeadInv, Covers
  <2>7. /\ Covers(saved)' /\ saved' <= now' /\ \A r \in Rows : db'[r].at <= now'
        /\ \A u \in Tabs : pull'[u].synced <= now' /\ pull'[u].since <= now'
    BY <2>1, <2>3 DEF LeadInv, Covers
  <2> QED
    BY <2>1, <2>4, <2>5, <2>6, <2>7 DEF LeadInv
<1>10. ASSUME NEW t \in Tabs, PullPuts(t) PROVE LeadInv'
  <2>1. env' = env /\ db' = db /\ now' = now /\ Exists' = Exists /\ saved' = saved /\ pull[t].pc = "read"
    BY <1>10 DEF PullPuts, server, Exists
  <2>2. /\ pull'[t].pc = "put" /\ pull'[t].since = 0 /\ pull'[t].synced \in {0, pull[t].synced}
        /\ pull'[t].rows = NoRows
        /\ \A u \in Tabs \ {t} : pull'[u] = pull[u]
        /\ \A r \in Rows : idb'[r] = IF pull[t].rows[r] > 0 THEN pull[t].rows[r] ELSE idb[r]
        /\ \A r \in Rows \ setBack' :
               r \notin setBack /\ (pull[t].rows[r] > 0 => idb[r] <= pull[t].rows[r])
    BY <1>10, PullPut
  <2>3. ASSUME NEW u \in Tabs, NEW r \in Rows PROVE pull'[u].rows[r] <= db'[r].ver
    <3>1. CASE u = t
      BY <1>7, <2>1, <2>2, <3>1 DEF NoRows
    <3> QED
      BY <2>1, <2>2, <3>1 DEF LeadInv
  <2> SUFFICES ASSUME "late" \notin env PROVE LeadInv'
    BY <2>1, <2>3 DEF LeadInv
  <2>4. ASSUME NEW r \in Exists \ setBack', idb[r] = db[r].ver PROVE idb'[r] = db[r].ver
    <3>1. r \in Rows /\ pull[t].rows[r] <= db[r].ver
      BY DEF LeadInv, Exists
    <3> QED
      BY <1>7, <2>2, <2>4, <3>1
  <2>5. \A r \in Rows \ setBack' : r \notin setBack
    BY <2>2
  <2>6. \A time : Covers(time) => Covers(time)'
    BY <2>1, <2>4, <2>5 DEF Covers, Exists
  <2>7. Covers(pull[t].synced)'
    <3> SUFFICES ASSUME NEW r \in Exists \ setBack', db[r].at < pull'[t].synced PROVE idb'[r] = db[r].ver
      BY <2>1 DEF Covers
    <3>0. r \in Rows /\ r \notin setBack /\ db[r].ver > 0
      BY <1>7, <2>5 DEF Exists
    <3>1. pull'[t].synced \in {0, pull[t].synced}
      BY <2>2
    <3>2. db[r].at < pull[t].synced
      BY <1>7, <3>0, <3>1
    <3>3. CASE db[r].at < pull[t].since
      <4>1. idb[r] = db[r].ver
        BY <2>1, <3>0, <3>3 DEF LeadInv, Covers
      <4> QED
        BY <2>4, <4>1
    <3>4. CASE pull[t].since <= db[r].at
      <4>1. pull[t].rows[r] = db[r].ver
        BY <2>1, <3>2, <3>4 DEF LeadInv
      <4> QED
        BY <1>7, <2>2, <3>0, <4>1
    <3> QED
      BY <1>7, <3>0, <3>3, <3>4
  <2>8. ASSUME NEW u \in Tabs
        PROVE  /\ pull'[u].pc \in {"sent", "read"} => Covers(pull[u].since)'
               /\ pull'[u].pc = "put" => Covers(pull[u].synced)'
    <3>1. CASE u = t
      BY <2>1, <2>2, <2>7, <3>1 DEF Covers
    <3>2. CASE u # t
      <4>1. pull'[u] = pull[u]
        BY <2>2, <3>2
      <4>2. /\ pull[u].pc \in {"sent", "read"} => Covers(pull[u].since)
            /\ pull[u].pc = "put" => Covers(pull[u].synced)
        BY DEF LeadInv
      <4> QED
        BY <2>1, <2>4, <2>5, <4>1, <4>2 DEF Covers, Exists
    <3> QED
      BY <3>1, <3>2
  <2>9. ASSUME NEW u \in Tabs, pull'[u].pc = "read", NEW r \in Exists',
               pull'[u].since <= db'[r].at, db'[r].at < pull'[u].synced
        PROVE  pull'[u].rows[r] = db'[r].ver
    <3>1. pull'[u] = pull[u]
      BY <2>2, <2>9
    <3> QED
      BY <2>1, <2>9, <3>1 DEF LeadInv
  <2>10. \A u \in Tabs : pull'[u].synced <= now /\ pull'[u].since <= now
    BY <1>7, <2>2 DEF LeadInv
  <2>11. Covers(saved)' /\ saved' <= now' /\ \A r \in Rows : db'[r].at <= now'
    <3>1. Covers(saved) /\ saved <= now /\ \A r \in Rows : db[r].at <= now
      BY DEF LeadInv
    <3> QED
      BY <2>1, <2>4, <2>5, <3>1 DEF Covers, Exists
  <2> QED
    BY <2>1, <2>3, <2>8, <2>9, <2>10, <2>11 DEF LeadInv
<1>11. ASSUME NEW t \in Tabs, PullSaves(t) PROVE LeadInv'
  <2>1. pull'[t] = NoPull /\ \A u \in Tabs \ {t} : pull'[u] = pull[u]
    BY <1>11, PullFreed DEF PullSaves
  <2>2. vars' = vars /\ setBack' = setBack /\ pull[t].pc = "put" /\ saved' \in {saved, pull[t].synced}
    BY <1>11 DEF PullSaves
  <2> QED
    BY <1>1, <2>1, <2>2
<1> QED
  BY <1>3, <1>4, <1>5, <1>6, <1>8, <1>9, <1>10, <1>11 DEF TabStep, PullStep

-----------------------------------------------------------------------------
(* The browser                                                              *)

LEMMA BrowserStarts ==
    ASSUME BrowserInit
    PROVE  BrowserInv /\ Led
<1>1. /\ \E envs \in {Envs, FallbackEnvs} : InitIn(envs)
      /\ TabsInit /\ mode \in {"SharedWorker", "fallback"}
  BY DEF BrowserInit
<1>2. /\ env \subseteq Circumstances /\ now = 1
      /\ \A r \in Rows : /\ db[r] = [ver |-> 0, at |-> 0] \/ db[r] = [ver |-> 1, at |-> 1]
                         /\ idb[r] \in {0, 1} /\ idb[r] <= db[r].ver
      /\ db \in [Rows -> {[ver |-> 0, at |-> 0], [ver |-> 1, at |-> 1]}] /\ idb \in [Rows -> {0, 1}]
      /\ gone \in SUBSET Rows /\ declared = {} /\ epoch \in BOOLEAN /\ cursor = 0 /\ syncing = FALSE
      /\ count = 0 /\ known = NoIds /\ seeds = NoIds /\ unnoted = FALSE
      /\ fetch = [f \in Fetches |-> NoFetch] /\ inbox = [t \in Tabs |-> <<>>]
  BY <1>1, SyncAssumption, LeaderAssumption DEF InitIn
<1>3. 0 \in Times /\ 1 \in Times /\ 0 \in Versions /\ 1 \in Versions /\ 0 \in 0 .. RECONCILE_EVERY /\ NoIds \in IdSet
  BY Bounds DEF Times, Versions
<1>4. \A t \in Tabs : inbox[t] = <<>> /\ Len(inbox[t]) = 0 /\ inbox[t] \in Seq(Message)
  BY <1>2, EmptySeq
<1>5. SyncTyped
  <2>1. db \in [Rows -> [ver : Versions, at : Times]] /\ idb \in Page
    BY <1>2, <1>3 DEF Page
  <2>2. fetch \in [Fetches -> Fetch]
    BY <1>2, NoFetchTyped
  <2>3. inbox \in [Tabs -> Seq(Message)]
    BY <1>2, EmptySeq
  <2>4. \A t \in Tabs : \A i \in 1 .. Len(inbox[t]) : FALSE
    BY <1>4
  <2> QED
    BY <1>2, <1>3, <2>1, <2>2, <2>3, <2>4 DEF SyncTyped, TypeOK
<1>6. BrowserTypeOK
  <2>1. record \in Record /\ open \in SUBSET Tabs /\ (mode = "SharedWorker" => open = {})
    BY <1>1 DEF TabsInit, Record, Ages
  <2>2. leader \in [Tabs -> BOOLEAN] /\ event \in [Tabs -> BOOLEAN] /\ writing \in [Tabs -> BOOLEAN]
    <3>1. \A t \in Tabs : (t \in open) \in BOOLEAN
      OBVIOUS
    <3> QED
      BY <1>1, <3>1 DEF TabsInit
  <2>3. pull \in [Tabs -> Pull] /\ saved \in Times /\ setBack \in SUBSET Rows
    BY <1>1, <1>3, NoPullTyped DEF TabsInit
  <2> QED
    BY <1>1, <1>5, <2>1, <2>2, <2>3 DEF BrowserTypeOK, SyncTyped
<1>7. SyncInv
  <2>1. \A f \in Fetches : ~Busy(f) /\ ~HasRead(f) /\ ~Reconciling(f) /\ fetch[f] = NoFetch
    BY <1>2, NoFetchTyped DEF Busy, HasRead, Reconciling
  <2>2. Lines
    <3>1. OneSync /\ FetchLast /\ Accounted
      BY <2>1 DEF OneSync, FetchLast, Accounted, HasRead
    <3>2. InOrder /\ Orphaned
      BY <1>4 DEF InOrder, Orphaned
    <3>3. NotAhead
      <4>1. \A f \in Fetches : \A r \in Rows : fetch[f].rows[r] = 0 /\ 0 <= db[r].ver
        BY <1>2, <2>1, NoFetchTyped DEF NoRows
      <4> QED
        BY <1>2, <1>4, <4>1 DEF NotAhead
    <3>4. KnownCreated
      BY <1>2, Bounds DEF KnownCreated
    <3> QED
      BY <3>1, <3>2, <3>3, <3>4 DEF Lines
  <2>3. Course
    <3>1. Clock
      <4>1. \A f \in Fetches : fetch[f].since = 0 /\ fetch[f].synced = 0
        BY <2>1 DEF NoFetch
      <4> QED
        BY <1>2, <4>1 DEF Clock
    <3>2. Aligned
      BY <1>4 DEF Aligned
    <3>3. AsRead /\ CursorOfFetch
      BY <2>1 DEF AsRead, CursorOfFetch
    <3>4. Follows
      <4>1. \A f \in Fetches : fetch[f].pc # "sent" /\ fetch[f].pc # "read"
        BY <2>1 DEF Busy
      <4>2. \A r \in Rows : ~(db[r].at < 0)
        BY <1>2
      <4> QED
        BY <1>2, <4>1, <4>2 DEF Follows, Exists
    <3> QED
      BY <3>1, <3>2, <3>3, <3>4 DEF Course
  <2>4. Deaf
    BY <1>4 DEF Deaf
  <2> QED
    BY <1>5, <2>2, <2>3, <2>4 DEF SyncInv
<1>8. LeadInv
  <2>1. saved = 0 /\ \A t \in Tabs : pull[t] = NoPull
    BY <1>1 DEF TabsInit
  <2>2. \A r \in Rows : ~(db[r].at < 0) /\ db[r].at <= now /\ 0 <= db[r].ver
    BY <1>2
  <2>3. Covers(saved)
    BY <2>1, <2>2 DEF Covers, Exists
  <2>4. \A t \in Tabs : /\ pull[t].pc = "free" /\ pull[t].since = 0 /\ pull[t].synced = 0
                        /\ \A r \in Rows : pull[t].rows[r] = 0
    BY <2>1, NoPullTyped DEF NoRows
  <2> QED
    BY <1>2, <2>1, <2>2, <2>3, <2>4 DEF LeadInv
<1>9. saved = 0
  BY <1>1 DEF TabsInit
<1> QED
  BY <1>2, <1>5, <1>6, <1>7, <1>8, <1>9 DEF BrowserInv, Led

LEMMA BrowserKeeps ==
    ASSUME BrowserInv, [BrowserNext]_browser
    PROVE  BrowserInv'
<1>0. BrowserTypeOK /\ SyncTyped
  BY DEF BrowserInv
<1>1. CASE mode = "SharedWorker" /\ Next /\ UNCHANGED tabs
  <2>1. SyncInv /\ saved = 0
    BY <1>1 DEF BrowserInv
  <2>2. SyncInv' /\ mode' = mode /\ saved' = 0
    BY <1>1, <2>1, SyncKeeps DEF tabs
  <2>3. SyncTyped'
    BY <2>2 DEF SyncInv
  <2>4. BrowserTypeOK'
    BY <1>0, <1>1, <2>3 DEF BrowserTypeOK, SyncTyped, tabs, election
  <2> QED
    BY <1>1, <2>2, <2>3, <2>4 DEF BrowserInv
<1>2. CASE mode = "fallback" /\ Database /\ UNCHANGED tabs
  <2>1. cursor = 0
    BY <1>2 DEF BrowserInv
  <2>2. SyncTyped'
    BY <1>0, <1>2, DatabaseTyped DEF Database
  <2>3. BrowserTypeOK' /\ mode' = mode
    BY <1>0, <1>2, <2>2 DEF BrowserTypeOK, SyncTyped, tabs, election
  <2>4. cursor' = cursor
    BY <1>2 DEF Database, Tick, Write, Delete, worker
  <2> QED
    BY <1>2, <2>1, <2>2, <2>3, <2>4 DEF BrowserInv
<1>3. CASE mode = "fallback" /\ (Stale \/ \E t \in Tabs : TabStep(t))
  <2>1. cursor = 0
    BY <1>3 DEF BrowserInv
  <2>2. BrowserTypeOK' /\ SyncTyped' /\ mode' = mode /\ cursor' = cursor
    BY <1>0, <1>3, TabTyped
  <2> QED
    BY <1>3, <2>1, <2>2 DEF BrowserInv
<1>4. CASE UNCHANGED browser
  <2>1. /\ UNCHANGED <<env, now, db, gone, declared, epoch, cursor, syncing, count, known, seeds, unnoted, fetch, inbox, idb>>
        /\ UNCHANGED <<mode, open, record, leader, event, writing, pull, saved, setBack>>
    BY <1>4 DEF browser, vars, server, worker, tabs, election
  <2>2. BrowserTypeOK' /\ SyncTyped'
    BY <1>0, <2>1 DEF BrowserTypeOK, SyncTyped, TypeOK
  <2>4. SyncInv => SyncInv'
    <3>1. \A t, i, q : Tells(t, i, q)' = Tells(t, i, q)
      BY <2>1 DEF Tells
    <3>2. \A f, q : /\ Known(f, q)' <=> Known(f, q)
                    /\ Busy(f)' <=> Busy(f)
                    /\ HasRead(f)' <=> HasRead(f)
                    /\ Reconciling(f)' <=> Reconciling(f)
                    /\ Here(q)' <=> Here(q)
      BY <2>1, <3>1 DEF Known, Busy, HasRead, Reconciling, Here
    <3>3. Exists' = Exists
      BY <2>1 DEF Exists
    <3>4. Lines => Lines'
      <4>1. (OneSync => OneSync') /\ (KnownCreated => KnownCreated') /\ (Orphaned => Orphaned')
        BY <2>1, <3>2 DEF OneSync, KnownCreated, Orphaned
      <4>2. (NotAhead => NotAhead') /\ (InOrder => InOrder')
        BY <2>1, <3>1 DEF NotAhead, InOrder
      <4>3. (FetchLast => FetchLast') /\ (Accounted => Accounted')
        BY <2>1, <3>1, <3>2 DEF FetchLast, Accounted
      <4> QED
        BY <4>1, <4>2, <4>3 DEF Lines
    <3>5. Course => Course'
      <4>1. (Clock => Clock') /\ (Aligned => Aligned')
        BY <2>1 DEF Clock, Aligned
      <4>2. (AsRead => AsRead') /\ (CursorOfFetch => CursorOfFetch')
        BY <2>1, <3>2 DEF AsRead, CursorOfFetch
      <4>3. Follows => Follows'
        BY <2>1, <3>2, <3>3 DEF Follows
      <4> QED
        BY <4>1, <4>2, <4>3 DEF Course
    <3>6. Deaf => Deaf'
      BY <2>1 DEF Deaf
    <3> QED
      BY <2>1, <2>2, <3>4, <3>5, <3>6 DEF SyncInv, Undisturbed
  <2> QED
    BY <2>1, <2>2, <2>4 DEF BrowserInv
<1> QED
  BY <1>1, <1>2, <1>3, <1>4 DEF BrowserNext

LEMMA LedKeeps ==
    ASSUME BrowserInv, Led, [BrowserNext]_browser
    PROVE  Led'
<1>0. BrowserTypeOK /\ SyncTyped
  BY DEF BrowserInv
<1>1. CASE mode = "SharedWorker" /\ Next /\ UNCHANGED tabs
  BY <1>1 DEF Led, tabs
<1>2. CASE mode = "fallback" /\ Database /\ UNCHANGED tabs
  BY <1>0, <1>2, LeadDatabase DEF Led
<1>3. CASE mode = "fallback" /\ (Stale \/ \E t \in Tabs : TabStep(t))
  BY <1>0, <1>3, LeadTabs DEF Led
<1>4. CASE UNCHANGED browser
  <2>1. /\ env' = env /\ now' = now /\ db' = db /\ idb' = idb /\ gone' = gone
        /\ mode' = mode /\ pull' = pull /\ saved' = saved /\ setBack' = setBack
    BY <1>4 DEF browser, vars, server, tabs
  <2> QED
    BY <2>1 DEF Led, LeadInv, Covers, Exists
<1> QED
  BY <1>1, <1>2, <1>3, <1>4 DEF BrowserNext

LEMMA BrowserHolds == BrowserSpec => []BrowserInv
<1>1. BrowserInit => BrowserInv
  BY BrowserStarts
<1>2. BrowserInv /\ [BrowserNext]_browser => BrowserInv'
  BY BrowserKeeps
<1> QED
  BY <1>1, <1>2, PTL DEF BrowserSpec

\* Whoever syncs, everything keeps its type, and the way of syncing that is not in use
\* does nothing (sync-worker.js, workerClient.ts, SyncManager.ts).
THEOREM BrowserTyped == BrowserSpec => []BrowserTypeOK
<1>1. BrowserInv => BrowserTypeOK
  BY DEF BrowserInv
<1> QED
  BY <1>1, BrowserHolds, PTL

LEMMA InvMissesNothing ==
    ASSUME BrowserInv, Led
    PROVE  NothingBehindCursorMissed
<1>1. \A r \in Rows : db[r].at \in Nat /\ db[r].ver \in Nat /\ idb[r] \in Nat
  BY RowIs DEF BrowserInv
<1>2. NothingMissed
  <2> SUFFICES ASSUME Undisturbed, NEW r \in Exists, db[r].at < cursor
               PROVE  Delivered(r, db[r].ver)
    BY DEF NothingMissed, Undisturbed
  <2>0. r \in Rows
    BY DEF Exists
  <2>1. mode = "SharedWorker"
    BY <1>1, <2>0 DEF BrowserInv, BrowserTypeOK
  <2>2. Follows
    BY <2>1 DEF BrowserInv, SyncInv, Course
  <2>3. Here(r) \/ \E f \in Fetches : Reconciling(f) /\ fetch[f].rows[r] = db[r].ver
    BY <2>2 DEF Follows
  <2> QED
    BY <1>1, <2>0, <2>3 DEF Here, Tells, Reconciling, Delivered
<1>3. LeadersMissNothing
  <2> SUFFICES ASSUME "late" \notin env, NEW r \in Exists \ setBack, db[r].at < saved
               PROVE  idb[r] = db[r].ver
    BY DEF LeadersMissNothing
  <2>0. r \in Rows
    BY DEF Exists
  <2>1. mode = "fallback"
    BY <1>1, <2>0 DEF BrowserInv, BrowserTypeOK
  <2> QED
    BY <2>1 DEF Led, LeadInv, Covers
<1> QED
  BY <1>2, <1>3 DEF NothingBehindCursorMissed

\* Whoever syncs, for any number of tabs and of syncs under way: a row that changed
\* before the cursor is in the copy, or on its way there, in its newest version
\* (sync-worker.js); two leading tabs that sync at once miss none either, but for the
\* rows that one of them puts as it had read them before the other put a newer answer
\* (runSync and fetchAndMerge, SyncManager.ts).
THEOREM BehindCursor == BrowserSpec => []NothingBehindCursorMissed
<1>1. BrowserInit => Led
  BY BrowserStarts
<1>2. BrowserInv /\ Led /\ [BrowserNext]_browser => Led'
  BY LedKeeps
<1>3. BrowserInv /\ Led => NothingBehindCursorMissed
  BY InvMissesNothing
<1> QED
  BY <1>1, <1>2, <1>3, BrowserHolds, PTL DEF BrowserSpec

\* A row leaves the copy only when it has left the database, unless the cursor is reset
\* while a sync is under way: an orphan was known before the ids were asked for
\* (reconcile, sync-worker.js; handleData, workerClient.ts).
THEOREM OnlyGoneRowsLeaveUnlessReset ==
    BrowserSpec => [][env \cap {"reset"} = {} =>
                        \A r \in Rows : idb[r] > 0 /\ idb'[r] = 0 => r \in gone']_browser
<1>1. ASSUME BrowserInv, [BrowserNext]_browser, "reset" \notin env,
             NEW r \in Rows, idb[r] > 0, idb'[r] = 0
      PROVE  r \in gone'
  <2>0. SyncTyped /\ BrowserTypeOK /\ idb[r] \in Nat
    BY <1>1, RowIs DEF BrowserInv
  <2>1. idb' # idb
    BY <1>1, <2>0
  <2>2. ASSUME NEW q \in Rows, NEW here \in BOOLEAN, Delete(q, here) PROVE r \in gone'
    <3>1. q # r => idb'[r] = idb[r]
      BY <2>0, <2>2 DEF Delete, SyncTyped, TypeOK, Page
    <3> QED
      BY <1>1, <2>0, <2>2, <3>1 DEF Delete
  <2>3. ASSUME NEW t \in Tabs, HandleData(t), mode = "SharedWorker" PROVE r \in gone'
    <3>1. idb' = Put(inbox[t][1]) /\ gone' = gone /\ 1 \in 1 .. Len(inbox[t])
      BY <2>0, <2>3, HandleTyped DEF server
    <3>2. inbox[t][1].orphans \subseteq gone
      BY <1>1, <2>3, <3>1 DEF BrowserInv, SyncInv, Lines, Orphaned
    <3>3. r \in inbox[t][1].orphans
      BY <1>1, <2>0, <3>1 DEF Put
    <3> QED
      BY <3>1, <3>2, <3>3
  <2>4. ASSUME NEW t \in Tabs, PullPuts(t) PROVE r \in gone'
    <3>1. idb'[r] = IF pull[t].rows[r] > 0 THEN pull[t].rows[r] ELSE idb[r]
      BY <2>0, <2>4, PullPut
    <3> QED
      BY <1>1, <2>0, <3>1
  <2>5. CASE mode = "SharedWorker" /\ Next
    BY <2>1, <2>2, <2>3, <2>5
       DEF Next, Tick, Write, RunSync, ResetCursor, FetchStep, ReadChanged, FetchFails, Merge, FetchIds, ReadIds,
           Reconcile, ReconcileFails, Declare, Restart
  <2>6. CASE Database
    BY <2>1, <2>2, <2>6 DEF Database, Tick, Write
  <2>7. CASE Stale \/ \E t \in Tabs : TabStep(t)
    BY <2>1, <2>4, <2>7 DEF Stale, TabStep, PullStep, Close, Evaluate, WriteRecord, Heartbeat, PullStarts,
       PullReads, PullSaves, PullFails, vars
  <2>8. CASE UNCHANGED browser
    BY <2>1, <2>8 DEF browser, vars
  <2> QED
    BY <1>1, <2>5, <2>6, <2>7, <2>8 DEF BrowserNext
<1>2. BrowserInv /\ [BrowserNext]_browser =>
        [env \cap {"reset"} = {} => \A r \in Rows : idb[r] > 0 /\ idb'[r] = 0 => r \in gone']_browser
  BY <1>1
<1> QED
  BY <1>2, BrowserHolds, PTL DEF BrowserSpec

=============================================================================

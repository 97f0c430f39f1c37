------------------------------ MODULE TabCalls ------------------------------
(***************************************************************************)
(* Calls of one browser tab to workers (workerConnection.ts): the cached   *)
(* connections, the connection fetches under way, the one refresh under    *)
(* way, and callWorker with its single retry after a 401.  The tab has one *)
(* thread; other events come between two awaits of a function only.        *)
(*                                                                         *)
(* Row and worker change as SessionTokens says, here in one step.  Of a    *)
(* connection it matters whose it is and how good it still is, so that its *)
(* URL and token are abstracted to the state they are in:                  *)
(*   fresh      the worker accepts the token                               *)
(*   stale      it does not: somebody else's rotation, or a torn row       *)
(*   overtaken  it does not, because of a later refresh by this tab        *)
(*   dead       nobody listens at the URL any more                         *)
(***************************************************************************)

CONSTANTS
    Called,
    Callers,    \* calls of the tab that can be under way together
    Absent        \* no connection, no worker

ASSUME TabCallsAssumption == Absent \notin Called

VARIABLES
    cache,      \* _cache
    fetching,   \* _connectionInFlight
    refresh,    \* refreshInFlight and where doRefreshToken is
    caller        \* what each caller is doing

tabVars == <<cache, fetching, refresh, caller>>

Conn == [to : Called, state : {"fresh", "stale", "overtaken", "dead"}]
MaybeConn == Conn \cup {Absent}

\* conn: the answer that is on its way back.
Fetch == [pc : {"none", "sent", "answered"}, conn : MaybeConn]
NoFetch == [pc |-> "none", conn |-> Absent]

\* conn: from the rotation on, the connection this refresh will return.
Refresh == [pc : {"none", "rotate", "reload", "answered"},
            of : Called \cup {Absent}, conn : MaybeConn]
NoRefresh == [pc |-> "none", of |-> Absent, conn |-> Absent]

TabCall == [pc : {"idle", "connecting", "sent", "refused", "refreshing", "resent"},
         to : Called \cup {Absent}, conn : MaybeConn]
NoTabCall == [pc |-> "idle", to |-> Absent, conn |-> Absent]

\* Callers that wait at pc and whose worker is in W.
Waiting(pc, W) == {c \in Callers : caller[c].pc = pc /\ caller[c].to \in W}

\* The callers in C go on with the connection conn.
Resumed(C, pc, conn) ==
    [c \in Callers |-> IF c \in C THEN [caller[c] EXCEPT !.pc = pc, !.conn = conn] ELSE caller[c]]

\* The callers in C get an exception.
Thrown(C) == [c \in Callers |-> IF c \in C THEN NoTabCall ELSE caller[c]]

\* How a connection fares when something happens to worker w: its token is
\* replaced (to "stale" or "overtaken"), or its URL is.
After(w, state, conn) ==
    IF conn = Absent THEN conn
    ELSE IF conn.to = w /\ (conn.state = "fresh" \/ state = "dead")
         THEN [conn EXCEPT !.state = state]
         ELSE conn
FetchesAfter(w, state) == [x \in Called |-> [fetching[x] EXCEPT !.conn = After(w, state, @)]]
CallsAfter(w, state) == [c \in Callers |-> [caller[c] EXCEPT !.conn = After(w, state, @)]]
CacheAfter(w, state) == [x \in Called |-> After(w, state, cache[x])]

-----------------------------------------------------------------------------
(* Faulty variants: what the code would do with one test or one reset less.  *)

\* Every caller that gets the refreshed connection caches it for its own worker.
RefreshResolvedForAll ==
    /\ refresh.pc = "answered"
    /\ cache' = [w \in Called |-> IF Waiting("refreshing", {w}) # {} THEN refresh.conn ELSE cache[w]]
    /\ caller' = Resumed(Waiting("refreshing", Called), "resent", refresh.conn)
    /\ refresh' = NoRefresh
    /\ UNCHANGED fetching

-----------------------------------------------------------------------------
(* getConnection and callWorker *)

\* A call with a cached connection is sent at once, one without joins the
\* fetch for its worker or starts it.
CallStarts(c, w) ==
    /\ caller[c].pc = "idle"
    /\ \/ /\ cache[w] # Absent
          /\ caller' = [caller EXCEPT ![c] = [pc |-> "sent", to |-> w, conn |-> cache[w]]]
          /\ UNCHANGED fetching
       \/ /\ cache[w] = Absent
          /\ caller' = [caller EXCEPT ![c] = [pc |-> "connecting", to |-> w, conn |-> Absent]]
          /\ fetching' = [fetching EXCEPT ![w] =
                             IF @ = NoFetch THEN [pc |-> "sent", conn |-> Absent] ELSE @]
    /\ UNCHANGED <<cache, refresh>>

\* GET /connection: the row may be right, torn or about a tunnel that is gone.
\* When it has expired the route rotates first, which is OtherRotates.
ConnectionAnswered(w) ==
    /\ fetching[w].pc = "sent"
    /\ \E state \in {"fresh", "stale", "dead"} :
          fetching' = [fetching EXCEPT ![w] =
                          [pc |-> "answered", conn |-> [to |-> w, state |-> state]]]
    /\ UNCHANGED <<cache, refresh, caller>>

\* The answer is cached and every caller that waits for it sends its request.
ConnectionReceived(w) ==
    /\ fetching[w].pc = "answered"
    /\ cache' = [cache EXCEPT ![w] = fetching[w].conn]
    /\ caller' = Resumed(Waiting("connecting", {w}), "sent", fetching[w].conn)
    /\ fetching' = [fetching EXCEPT ![w] = NoFetch]
    /\ UNCHANGED refresh

\* The worker is offline, or the fetch fails: the callers see the exception.
ConnectionFailed(w) ==
    /\ fetching[w] # NoFetch
    /\ caller' = Thrown(Waiting("connecting", {w}))
    /\ fetching' = [fetching EXCEPT ![w] = NoFetch]
    /\ UNCHANGED <<cache, refresh>>

\* The request reaches whatever the connection leads to: it is served, or
\* refused with a 401 that is on its way back, or fails.  What comes back for a
\* retry goes to the caller in any case.
WorkerAnswers(c) ==
    /\ caller[c].pc \in {"sent", "resent"}
    /\ caller' = [caller EXCEPT ![c] =
                   IF @.pc = "sent" /\ @.conn.state \in {"stale", "overtaken"}
                   THEN [@ EXCEPT !.pc = "refused", !.conn = Absent]
                   ELSE NoTabCall]
    /\ UNCHANGED <<cache, fetching, refresh>>

\* The connection breaks or the caller aborts.
CallBreaks(c) ==
    /\ caller[c].pc \in {"sent", "refused", "resent"}
    /\ caller' = [caller EXCEPT ![c] = NoTabCall]
    /\ UNCHANGED <<cache, fetching, refresh>>

\* refreshToken: a 401 joins the refresh under way, whichever worker that is
\* for, or starts one, which first drops the cached connection.
RefusalReceived(c) ==
    /\ caller[c].pc = "refused"
    /\ caller' = [caller EXCEPT ![c].pc = "refreshing"]
    /\ IF refresh # NoRefresh
       THEN UNCHANGED <<cache, refresh>>
       ELSE /\ refresh' = [pc |-> "rotate", of |-> caller[c].to, conn |-> Absent]
            /\ cache' = [cache EXCEPT ![caller[c].to] = Absent]
    /\ UNCHANGED fetching

-----------------------------------------------------------------------------
(* doRefreshToken *)

\* GET /refresh-token: the worker gets a new token, and what the tab holds of
\* the old one is overtaken.
TokenRotated ==
    /\ refresh.pc = "rotate"
    /\ cache' = CacheAfter(refresh.of, "overtaken")
    /\ fetching' = FetchesAfter(refresh.of, "overtaken")
    /\ caller' = CallsAfter(refresh.of, "overtaken")
    /\ refresh' = [refresh EXCEPT !.pc = "reload",
                      !.conn = [to |-> refresh.of, state |-> "fresh"]]

\* GET /connection for the URL, the present one or one that is gone; the token
\* stays that of the rotation.
ConnectionReloaded ==
    /\ refresh.pc = "reload"
    /\ refresh' \in {[refresh EXCEPT !.pc = "answered"],
                     [refresh EXCEPT !.pc = "answered", !.conn.state = "dead"]}
    /\ UNCHANGED <<cache, fetching, caller>>

\* The connection is cached for the worker of the refresh and goes to every
\* caller that waits.
RefreshResolved ==
    /\ refresh.pc = "answered"
    /\ cache' = [cache EXCEPT ![refresh.of] = refresh.conn]
    /\ caller' = Resumed(Waiting("refreshing", Called), "resent", refresh.conn)
    /\ refresh' = NoRefresh
    /\ UNCHANGED fetching

\* One of the two requests fails, which refreshInFlight forgets in finally().
RefreshFails ==
    /\ refresh.pc # "none"
    /\ caller' = Thrown(Waiting("refreshing", Called))
    /\ refresh' = NoRefresh
    /\ UNCHANGED <<cache, fetching>>

-----------------------------------------------------------------------------
(* The rest of the world *)

\* What others do to worker w: another browser, a TV or dispatch rotates its
\* token, or its tunnel comes back at another URL.  A refresh between its two
\* requests has the token only.
Overtaken(w, state) ==
    /\ cache' = CacheAfter(w, state)
    /\ fetching' = FetchesAfter(w, state)
    /\ caller' = CallsAfter(w, state)
    /\ refresh' = [refresh EXCEPT !.conn =
                      After(w, IF refresh.pc = "reload" THEN "stale" ELSE state, @)]

OtherRotates(w) == Overtaken(w, "stale")
TunnelMoves(w) == Overtaken(w, "dead")

\* invalidateWorkerConnection: the details panel, a stream or a transfer.
Invalidated(w) ==
    /\ cache' = [cache EXCEPT ![w] = Absent]
    /\ UNCHANGED <<fetching, refresh, caller>>

-----------------------------------------------------------------------------
CallsInit ==
    /\ cache = [w \in Called |-> Absent]
    /\ fetching = [w \in Called |-> NoFetch]
    /\ refresh = NoRefresh
    /\ caller = [c \in Callers |-> NoTabCall]

FetchStep(w) == ConnectionAnswered(w) \/ ConnectionReceived(w) \/ ConnectionFailed(w)
RefreshStep == TokenRotated \/ ConnectionReloaded \/ RefreshResolved \/ RefreshFails

CallsNext ==
    \/ \E c \in Callers, w \in Called : CallStarts(c, w)
    \/ \E c \in Callers : WorkerAnswers(c) \/ CallBreaks(c) \/ RefusalReceived(c)
    \/ \E w \in Called : FetchStep(w) \/ OtherRotates(w) \/ TunnelMoves(w) \/ Invalidated(w)
    \/ RefreshStep

CallsSpec == CallsInit /\ [][CallsNext]_tabVars

-----------------------------------------------------------------------------
(* Correctness *)

CallsTypeOK ==
    /\ cache \in [Called -> MaybeConn]
    /\ fetching \in [Called -> Fetch]
    /\ refresh \in Refresh
    /\ caller \in [Callers -> TabCall]

\* workerConnection.ts:320 "Per-worker connection cache - keyed by workerId".
CacheIsKeyed == \A w \in Called : cache[w] # Absent => cache[w].to = w

FirstTryArrives ==
    \A c \in Callers : caller[c].pc = "sent" => caller[c].conn.to = caller[c].to

\* The one refresh of a tab resumes callers of other workers too, whose retry then
\* goes to the wrong worker (CallReachesItsWorker below fails).  It goes no further:
\* the connection is not kept for the worker of the caller, so that the first
\* request of every call reaches the worker it names, from the cache or from a
\* fetch it shares, whatever was refused, refreshed or dropped before
\* (workerConnection.ts:328-356, 365-371, 404, 434-441).
OnlyRetriesStray == CacheIsKeyed /\ FirstTryArrives

\* workerConnection.ts:409-411: callWorker(workerId, ...) calls "a worker
\* endpoint with automatic 401 retry", the retry like the call at its worker.
CallReachesItsWorker ==
    \A c \in Callers :
        caller[c].pc \in {"sent", "resent"} => caller[c].conn.to = caller[c].to

\* workerConnection.ts:358-359: "concurrent 401s ... must share ONE token
\* rotation", or the retry of a caller would be sent with a token that the tab
\* itself has replaced.
RetryIsNotOvertaken ==
    \A c \in Callers :
        caller[c].pc = "resent" => caller[c].conn.state # "overtaken"
=============================================================================

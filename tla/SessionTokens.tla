--------------------------- MODULE SessionTokens ---------------------------
(***************************************************************************)
(* The session token of a worker, kept twice: by the worker process        *)
(* (_session_token of server.py) and by the workers row of the backend.    *)
(* Rotations (sessionToken.ts) change the worker first and the row later,  *)
(* registrations (register/route.ts) the row first and the worker later;   *)
(* any of them may overlap, fail between the two, or arrive late.          *)
(*                                                                         *)
(* Tokens are only compared, so a fresh random token is any token that     *)
(* nobody holds.  Time is abstracted to what the thresholds tell apart:    *)
(* whether the last heartbeat is younger than 20 s and whether the expiry  *)
(* of the row (4 h) has passed.                                            *)
(***************************************************************************)
EXTENDS Naturals

CONSTANTS
    Workers,
    Uses,       \* routes that rotate, one request of each per worker at a time
    Handlers,   \* threads of a worker that register it: start, watchdog, swap
    Tokens,
    None        \* no token

ASSUME TokensAssumption ==
    /\ None \notin Tokens
    /\ Uses \subseteq {"dispatch", "connection", "refresh", "tv"}

VARIABLES
    token,      \* _session_token of each worker process; None until it registers
    row,        \* sessionToken, sessionTokenExpiry, tunnelUrl of the workers row
    seen,       \* workers whose lastHeartbeat is within ONLINE_THRESHOLD_MS
    rot,        \* rotateSessionToken, by worker and route
    reg,        \* api.register, by worker and thread
    torn        \* history: workers whose last change of token was cut or overlapped

tokenVars == <<token, row, seen, rot, reg, torn>>

MaybeToken == Tokens \cup {None}
Row == [token : MaybeToken, expired : BOOLEAN, url : BOOLEAN]

\* alone: nothing else changed the worker's token since the request began.
Rotation == [pc : {"idle", "asked", "late", "took", "accepted", "saved"},
             token : MaybeToken, alone : BOOLEAN]
Registration == [pc : {"idle", "posted", "late", "stored"},
                 token : MaybeToken, alone : BOOLEAN]
IdleJob == [pc |-> "idle", token |-> None, alone |-> FALSE]

RotationsAt(w) == {u \in Uses : rot[w][u].pc \notin {"idle", "saved"}}
RegistrationsAt(w) == {h \in Handlers : reg[w][h].pc # "idle"}
Quiet(w) == RotationsAt(w) = {} /\ RegistrationsAt(w) = {}

Held ==
    {token[w] : w \in Workers} \cup {row[w].token : w \in Workers}
    \cup {rot[w][u].token : w \in Workers, u \in Uses}
    \cup {reg[w][h].token : w \in Workers, h \in Handlers}

\* The requests about a worker are no longer alone.
Disturbed(jobs) == [j \in DOMAIN jobs |-> [jobs[j] EXCEPT !.alone = FALSE]]

\* A change of both sides of w ended, undisturbed or not.
Changed(w, alone) == torn' = IF alone THEN torn \ {w} ELSE torn \cup {w}
Tear(w) == torn' = torn \cup {w}

-----------------------------------------------------------------------------
(* Faulty variants: what the code would do with one test or one reset less.  *)

\* MayRotate with a test for a missing token instead of an expired one.
MayRotateMissing(u, w) ==
    /\ row[w].url
    /\ u # "refresh" => w \in seen
    /\ u \in {"dispatch", "connection"} => row[w].token = None

\* RotationLost without the test of res.ok: a 503 counts as acceptance.
RotationLostUnchecked(u, w) ==
    /\ rot[w][u].pc \in {"asked", "late"}
    /\ rot' = [rot EXCEPT ![w][u].pc = "accepted"]
    /\ UNCHANGED <<token, row, seen, reg, torn>>

-----------------------------------------------------------------------------
(* rotateSessionToken *)

\* When a route rotates: always for a refresh, which does not look at the
\* heartbeat, or a TV that asks for it, else when the expiry has passed.  A row
\* without an expiry counts as expired.
MayRotate(u, w) ==
    /\ row[w].url
    /\ u # "refresh" => w \in seen
    /\ u \in {"dispatch", "connection"} => row[w].expired

\* A new token t is generated and posted to the worker.
RotationAsked(u, w, t) ==
    /\ rot[w][u].pc = "idle"
    /\ MayRotate(u, w)
    /\ rot' = [rot EXCEPT ![w] = [Disturbed(@) EXCEPT ![u] =
                  [pc |-> "asked", token |-> t, alone |-> Quiet(w)]]]
    /\ reg' = [reg EXCEPT ![w] = Disturbed(@)]
    /\ UNCHANGED <<token, row, seen, torn>>

\* POST /internal/rotate-token: the worker adopts the token, if it has been
\* initialised.  After a timeout nobody waits for the answer.
RotationTaken(u, w) ==
    /\ rot[w][u].pc \in {"asked", "late"}
    /\ token[w] # None
    /\ token' = [token EXCEPT ![w] = rot[w][u].token]
    /\ IF rot[w][u].pc = "late"
       THEN rot' = [rot EXCEPT ![w][u] = IdleJob] /\ Tear(w)
       ELSE rot' = [rot EXCEPT ![w][u].pc = "took"] /\ torn' = torn
    /\ UNCHANGED <<row, seen, reg>>

\* The worker does not get the request, or answers 503.
RotationLost(u, w) ==
    /\ rot[w][u].pc \in {"asked", "late"}
    /\ rot' = [rot EXCEPT ![w][u] = IdleJob]
    /\ UNCHANGED <<token, row, seen, reg, torn>>

\* The 8 seconds pass, before or after the worker took the token: the caller
\* sees an exception and the row is not written.
RotationTimesOut(u, w) ==
    \/ /\ rot[w][u].pc = "asked"
       /\ rot' = [rot EXCEPT ![w][u].pc = "late"]
       /\ UNCHANGED <<token, row, seen, reg, torn>>
    \/ /\ rot[w][u].pc = "took"
       /\ rot' = [rot EXCEPT ![w][u] = IdleJob]
       /\ Tear(w)
       /\ UNCHANGED <<token, row, seen, reg>>

RotationAnswered(u, w) ==
    /\ rot[w][u].pc = "took"
    /\ rot' = [rot EXCEPT ![w][u].pc = "accepted"]
    /\ UNCHANGED <<token, row, seen, reg, torn>>

\* The row is written, whatever it holds by now.
RotationSaved(u, w) ==
    /\ rot[w][u].pc = "accepted"
    /\ row' = [row EXCEPT ![w] = [@ EXCEPT !.token = rot[w][u].token, !.expired = FALSE]]
    /\ rot' = [rot EXCEPT ![w][u].pc = "saved"]
    /\ Changed(w, rot[w][u].alone)
    /\ UNCHANGED <<token, seen, reg>>

\* The token goes back to the caller of the route.
RotationReturns(u, w) ==
    /\ rot[w][u].pc = "saved"
    /\ rot' = [rot EXCEPT ![w][u] = IdleJob]
    /\ UNCHANGED <<token, row, seen, reg, torn>>

-----------------------------------------------------------------------------
(* Registration and heartbeats *)

\* api.register: at the start, after a reconnect, after a hot swap.
RegistrationPosted(h, w) ==
    /\ reg[w][h].pc = "idle"
    /\ reg' = [reg EXCEPT ![w] = [Disturbed(@) EXCEPT ![h] =
                  [pc |-> "posted", token |-> None, alone |-> Quiet(w)]]]
    /\ rot' = [rot EXCEPT ![w] = Disturbed(@)]
    /\ UNCHANGED <<token, row, seen, torn>>

\* POST /api/worker/register writes the row with a new token t.  Nobody waits
\* for the answer to a late one.
RegistrationStored(h, w, t) ==
    /\ reg[w][h].pc \in {"posted", "late"}
    /\ row' = [row EXCEPT ![w] = [token |-> t, expired |-> FALSE, url |-> TRUE]]
    /\ seen' = seen \cup {w}
    /\ IF reg[w][h].pc = "late"
       THEN reg' = [reg EXCEPT ![w][h] = IdleJob] /\ Tear(w)
       ELSE reg' = [reg EXCEPT ![w][h] = [@ EXCEPT !.pc = "stored", !.token = t]] /\ torn' = torn
    /\ UNCHANGED <<token, rot>>

\* The answer arrives: init_server or update_session_token.
RegistrationAdopted(h, w) ==
    /\ reg[w][h].pc = "stored"
    /\ token' = [token EXCEPT ![w] = reg[w][h].token]
    /\ reg' = [reg EXCEPT ![w][h] = IdleJob]
    /\ Changed(w, reg[w][h].alone)
    /\ UNCHANGED <<row, seen, rot>>

\* The answer is lost: _post sends the request again, or gives up.
RegistrationUnanswered(h, w) ==
    /\ reg[w][h].pc = "stored"
    /\ \/ reg' = [reg EXCEPT ![w][h] = [@ EXCEPT !.pc = "posted", !.token = None]]
       \/ reg' = [reg EXCEPT ![w][h] = IdleJob]
    /\ Tear(w)
    /\ UNCHANGED <<token, row, seen, rot>>

\* Every attempt fails before the row is written, but the backend may still
\* come to the last one after its 30 seconds.
RegistrationLost(h, w) ==
    /\ \/ /\ reg[w][h].pc = "posted"
          /\ reg' = [reg EXCEPT ![w][h].pc = "late"]
       \/ /\ reg[w][h].pc \in {"posted", "late"}
          /\ reg' = [reg EXCEPT ![w][h] = IdleJob]
    /\ UNCHANGED <<token, row, seen, rot, torn>>

\* A registration whose sender is gone.
Orphaned(r) ==
    IF r.pc \in {"posted", "late"} THEN [r EXCEPT !.pc = "late", !.alone = FALSE] ELSE IdleJob

\* The process ends and another one starts, without a token until it has
\* registered; requests of the old one may still arrive.
Restart(w) ==
    /\ token' = [token EXCEPT ![w] = None]
    /\ reg' = [reg EXCEPT ![w] = [h \in Handlers |-> Orphaned(reg[w][h])]]
    /\ rot' = [rot EXCEPT ![w] = Disturbed(@)]
    /\ Tear(w)
    /\ UNCHANGED <<row, seen>>

\* POST /api/worker/heartbeat brings the URL back, if the tunnel has one, but
\* not the token.
Heartbeat(w) ==
    /\ token[w] # None
    /\ seen' = seen \cup {w}
    /\ \E tunnelUp \in BOOLEAN : row' = [row EXCEPT ![w].url = @ \/ tunnelUp]
    /\ UNCHANGED <<token, rot, reg, torn>>

HeartbeatAges(w) ==
    /\ seen' = seen \ {w}
    /\ UNCHANGED <<token, row, rot, reg, torn>>

\* SESSION_TOKEN_TTL_MS has passed.  The worker does not look at the expiry.
Expires(w) ==
    /\ row' = [row EXCEPT ![w].expired = TRUE]
    /\ UNCHANGED <<token, seen, rot, reg, torn>>

ClearedRow == [token |-> None, expired |-> TRUE, url |-> FALSE]

\* clearStaleWorkerConnections, at every reading of the status of workers.
StaleCleared ==
    /\ row' = [w \in Workers |-> IF w \in seen THEN row[w] ELSE ClearedRow]
    /\ UNCHANGED <<token, seen, rot, reg, torn>>

-----------------------------------------------------------------------------
Init ==
    /\ token = [w \in Workers |-> None]
    /\ row = [w \in Workers |-> ClearedRow]
    /\ seen = {}
    /\ rot = [w \in Workers |-> [u \in Uses |-> IdleJob]]
    /\ reg = [w \in Workers |-> [h \in Handlers |-> IdleJob]]
    /\ torn = Workers

\* generateSessionToken: one of the tokens nobody holds; which one makes no
\* difference.
Unused == CHOOSE t \in Tokens : t \notin Held

RotationStep(u, w) ==
    \/ RotationAsked(u, w, Unused) \/ RotationTaken(u, w) \/ RotationLost(u, w)
    \/ RotationTimesOut(u, w) \/ RotationAnswered(u, w) \/ RotationSaved(u, w)
    \/ RotationReturns(u, w)

RegistrationStep(h, w) ==
    \/ RegistrationPosted(h, w) \/ RegistrationStored(h, w, Unused)
    \/ RegistrationAdopted(h, w) \/ RegistrationUnanswered(h, w) \/ RegistrationLost(h, w)

WorkerStep(w) == Restart(w) \/ Heartbeat(w) \/ HeartbeatAges(w) \/ Expires(w)

Next ==
    /\ Tokens \ Held # {}
    /\ \/ \E u \in Uses, w \in Workers : RotationStep(u, w)
       \/ \E h \in Handlers, w \in Workers : RegistrationStep(h, w)
       \/ \E w \in Workers : WorkerStep(w)
       \/ StaleCleared

Spec == Init /\ [][Next]_tokenVars

\* dispatch is repeated for ever, a rotation it asks for is taken and answered in
\* time now and then, a request does not stay under way for ever, and time passes.
Fairness ==
    \A w \in Workers :
        /\ SF_tokenVars(RotationAsked("dispatch", w, Unused))
        /\ SF_tokenVars(rot[w]["dispatch"].pc = "asked" /\ RotationTaken("dispatch", w))
        /\ SF_tokenVars(RotationAnswered("dispatch", w))
        /\ WF_tokenVars(RotationSaved("dispatch", w))
        /\ WF_tokenVars(RotationReturns("dispatch", w))
        /\ WF_tokenVars(RotationLost("dispatch", w))
        /\ WF_tokenVars(Expires(w))

FairSpec == Spec /\ Fairness

-----------------------------------------------------------------------------
(* Correctness *)

TypeOK ==
    /\ token \in [Workers -> MaybeToken]
    /\ row \in [Workers -> Row]
    /\ seen \subseteq Workers
    /\ rot \in [Workers -> [Uses -> Rotation]]
    /\ reg \in [Workers -> [Handlers -> Registration]]
    /\ torn \subseteq Workers

\* A row without a token counts as expired, so that whoever reads it rotates
\* instead of calling the worker without one (dispatch/route.ts:166-167 and
\* connection/route.ts:69-70 test the expiry only).
NullTokenIsExpired ==
    \A w \in Workers : row[w].token = None => row[w].expired

\* The row names another token than the worker's only while a change is under
\* way or after one that was cut short or overlapped by another
\* (sessionToken.ts:46-74, register/route.ts:49-67).
AgreeUnlessTorn ==
    \A w \in Workers :
        Quiet(w) /\ w \notin torn => row[w].token \in {token[w], None}

\* Dispatch never refreshes a token that the worker refuses (sync-worker.js:
\* 757-763 only tries again).  Still it is not locked out for ever: sooner or
\* later the row is right, at the latest when its token expires, unless others
\* keep changing it.
DispatchGetsThrough ==
    \A w \in Workers :
        []<>(\/ token[w] = None \/ w \notin seen \/ ~row[w].url
             \/ row[w].token = token[w]
             \/ RegistrationsAt(w) # {}
             \/ RotationsAt(w) \ {"dispatch"} # {})
=============================================================================

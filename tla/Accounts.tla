------------------------------ MODULE Accounts -----------------------------
(***************************************************************************)
(* Workspaces, accounts and sessions (sessionAuth.ts, accountAuth.ts and   *)
(* the routes api/auth and api/session), seen by the browser that holds    *)
(* the cookie.                                                             *)
(*                                                                         *)
(* Requests carry the cookie of the moment they were sent; answers set or  *)
(* clear it, in any order.  Workspaces and sessions are numbered in the    *)
(* order of their creation, an account is its e-mail, 0 and Nobody are     *)
(* none.  Thirty days without a request are one step.                      *)
(***************************************************************************)
EXTENDS Naturals, Sequences, FiniteSets

CONSTANTS
    Requests,       \* requests that may be under way
    Emails,
    Nobody,         \* no account: an anonymous workspace or session
    MaxSpaces,      \* bound on the workspaces
    MaxSessions     \* bound on the sessions

ASSUME NobodyIsNone == Nobody \notin Emails

VARIABLES
    spaces,     \* workspaces: owner and expiry
    sessions,   \* auth_sessions: workspace, user, not revoked
    cookie,     \* sl_session of the browser
    req,        \* the requests
    signed,     \* history: the account whose sign-in was answered last
    crossed     \* history: another request was under way then

acctVars == <<spaces, sessions, cookie, req, signed, crossed>>
browser == <<cookie, signed, crossed>>

Owner == Emails \cup {Nobody}
Kinds == {"me", "init", "tv", "register", "login", "logout"}
Space == [owner : Owner, expires : {"never", "later", "past"}]
Session == [space : Nat, user : Owner, live : BOOLEAN]
\* sent: the cookie it carries; session, owner: what validateSessionToken read.
WebRequest == [kind : Kinds, pc : {"idle", "asked", "known", "read", "slid", "refused", "new", "claimed", "answered"},
            sent : Nat, space : Nat, owner : Owner, email : Owner, sets : Nat, clears : BOOLEAN]

Numbers(s) == 1 .. Len(s)
NoRequest == [kind |-> "me", pc |-> "idle", sent |-> 0, space |-> 0, owner |-> Nobody,
         email |-> Nobody, sets |-> 0, clears |-> FALSE]
Busy == {r \in Requests : req[r].pc # "idle"}
Users == {spaces[w].owner : w \in Numbers(spaces)} \ {Nobody}

\* The session a token opens: not revoked, its workspace not expired, and of the
\* workspace's owner.
Opens(t) ==
    /\ t # 0 /\ sessions[t].live
    /\ spaces[sessions[t].space].expires # "past"
    /\ spaces[sessions[t].space].owner = sessions[t].user

To(r, pc) == req' = [req EXCEPT ![r].pc = pc]
\* The answer sets the cookie to t, or leaves it alone if t is 0.
Answers(r, t) == req' = [req EXCEPT ![r] = [@ EXCEPT !.pc = "answered", !.sets = t]]
AnswersClearing(r) == req' = [req EXCEPT ![r] = [@ EXCEPT !.pc = "answered", !.clears = TRUE]]
Revoked(t) == [sessions EXCEPT ![t].live = FALSE]

-----------------------------------------------------------------------------
(* Faulty variants: what the code would do with one test or one step less.   *)

\* The claim without the test of ownerUserId.
ClaimUntested(r) ==
    /\ req[r].kind = "register" /\ req[r].pc = "new" /\ Len(sessions) < MaxSessions
    /\ req[r].email \notin Users
    /\ spaces' = [spaces EXCEPT ![req[r].space] = [owner |-> req[r].email, expires |-> "never"]]
    /\ sessions' = Append(sessions, [space |-> req[r].space, user |-> req[r].email, live |-> TRUE])
    /\ req' = [req EXCEPT ![r] = [@ EXCEPT !.pc = "claimed", !.sets = Len(sessions) + 1]]
    /\ UNCHANGED <<browser>>

\* Every session of the workspace is revoked, the new one too.
RevokesSpace(r) ==
    /\ req[r].pc = "claimed"
    /\ sessions' = IF req[r].sent = 0 THEN sessions
                   ELSE [t \in Numbers(sessions) |->
                           IF sessions[t].space = sessions[req[r].sent].space
                           THEN [sessions[t] EXCEPT !.live = FALSE] ELSE sessions[t]]
    /\ To(r, "answered")
    /\ UNCHANGED <<spaces, browser>>

-----------------------------------------------------------------------------
(* The browser                                                               *)

\* A page asks who it is (and so does any other request that is let in), is sent to
\* init, or signs in or out.  A paired TV asks for its workspace.
Sent(r, kind, email) ==
    /\ req[r].pc = "idle"
    /\ req' = [req EXCEPT ![r] = [NoRequest EXCEPT !.kind = kind, !.pc = "asked", !.sent = cookie, !.email = email]]
    /\ signed' = IF kind \in {"register", "login", "logout"} THEN Nobody ELSE signed
    /\ UNCHANGED <<spaces, sessions, cookie, crossed>>

Sends(r) ==
    \/ \E kind \in {"me", "init", "logout"} : Sent(r, kind, Nobody)
    \/ \E kind \in {"register", "login"}, e \in Emails : Sent(r, kind, e)

TvSends(r, w) ==
    /\ req[r].pc = "idle"
    /\ req' = [req EXCEPT ![r] = [NoRequest EXCEPT !.kind = "tv", !.pc = "asked", !.space = w]]
    /\ UNCHANGED <<spaces, sessions, browser>>

\* The browser stores what the answer sets.
Heard(r) ==
    LET q == req[r]
        ok == q.sets # 0
    IN
    /\ q.pc = "answered"
    /\ cookie' = IF ok THEN q.sets ELSE IF q.clears THEN 0 ELSE cookie
    /\ IF q.kind \in {"register", "login"} /\ ok /\ q.sets # q.sent
       THEN signed' = q.email /\ crossed' = \E s \in Busy \ {r} : req[s].kind # "tv"
       ELSE UNCHANGED <<signed, crossed>>
    /\ req' = [req EXCEPT ![r] = NoRequest]
    /\ UNCHANGED <<spaces, sessions>>

\* The connection is lost: the request is not served, or its answer not heard.
Lost(r) ==
    /\ req[r].pc \in {"asked", "answered"}
    /\ req' = [req EXCEPT ![r] = NoRequest]
    /\ UNCHANGED <<spaces, sessions, browser>>

-----------------------------------------------------------------------------
(* The server                                                                *)

\* The expiry a request that is let in writes: permanent workspaces have none.
Slid(owner) == IF owner = Nobody THEN "later" ELSE "never"

\* validateSessionToken and requireTvDevice: one row is read ...
Validates(r) ==
    LET q == req[r] IN
    /\ q.pc = IF q.kind = "login" THEN "known" ELSE "asked"
    /\ IF q.kind = "tv"
       THEN IF spaces[q.space].expires = "past" THEN Answers(r, 0)
            ELSE req' = [req EXCEPT ![r] = [@ EXCEPT !.pc = "read", !.owner = spaces[q.space].owner]]
       ELSE IF Opens(q.sent)
            THEN req' = [req EXCEPT ![r] = [@ EXCEPT !.pc = "read", !.space = sessions[q.sent].space,
                                                     !.owner = sessions[q.sent].user]]
            ELSE To(r, "refused")
    /\ UNCHANGED <<spaces, sessions, browser>>

\* ... and the expiry is written by what was read.
Slides(r) ==
    LET q == req[r]
        w == IF q.kind = "tv" THEN q.space ELSE sessions[q.sent].space
    IN
    /\ q.pc = "read"
    /\ spaces' = [spaces EXCEPT ![w].expires = Slid(q.owner)]
    /\ To(r, "slid")
    /\ UNCHANGED <<sessions, browser>>

\* A request that was let in: me renews the cookie it was sent with, init too.
Serves(r) ==
    /\ req[r].pc = "slid" /\ req[r].kind # "login"
    /\ CASE req[r].kind \in {"me", "init"} -> Answers(r, req[r].sent) /\ sessions' = sessions
         [] req[r].kind = "tv" -> Answers(r, 0) /\ sessions' = sessions
         [] req[r].kind = "logout" -> AnswersClearing(r) /\ sessions' = Revoked(req[r].sent)
         [] req[r].kind = "register" -> sessions' = sessions
                /\ IF req[r].owner # Nobody THEN Answers(r, req[r].sent) ELSE To(r, "new")
    /\ UNCHANGED <<spaces, browser>>

\* One that was not: logout clears the cookie, me one that was sent, init and register make an
\* anonymous workspace with its first session.
Refuses(r) ==
    /\ req[r].pc = "refused" /\ req[r].kind # "login"
    /\ CASE req[r].kind = "logout" -> AnswersClearing(r) /\ UNCHANGED <<spaces, sessions>>
         [] req[r].kind = "me" -> UNCHANGED <<spaces, sessions>>
                /\ IF req[r].sent = 0 THEN Answers(r, 0) ELSE AnswersClearing(r)
         [] OTHER ->
              /\ Len(spaces) < MaxSpaces /\ Len(sessions) < MaxSessions
              /\ spaces' = Append(spaces, [owner |-> Nobody, expires |-> "later"])
              /\ sessions' = Append(sessions, [space |-> Len(spaces) + 1, user |-> Nobody, live |-> TRUE])
              /\ LET t == Len(sessions) + 1 IN
                 IF req[r].kind = "init" THEN Answers(r, t)
                 ELSE req' = [req EXCEPT ![r] = [@ EXCEPT !.pc = "new", !.sent = t, !.space = Len(spaces) + 1]]
    /\ UNCHANGED <<browser>>

\* registerWorkspaceAccount: e-mail and owner are tested by the transaction that
\* writes them; a failure leaves the browser with the session it had.
ClaimsSpace(r) ==
    LET q == req[r] IN
    /\ q.kind = "register" /\ q.pc = "new" /\ Len(sessions) < MaxSessions
    /\ IF q.email \in Users \/ spaces[q.space].owner # Nobody
       THEN Answers(r, q.sent) /\ UNCHANGED <<spaces, sessions>>
       ELSE /\ spaces' = [spaces EXCEPT ![q.space] = [owner |-> q.email, expires |-> "never"]]
            /\ sessions' = Append(sessions, [space |-> q.space, user |-> q.email, live |-> TRUE])
            /\ req' = [req EXCEPT ![r] = [@ EXCEPT !.pc = "claimed", !.sets = Len(sessions) + 1]]
    /\ UNCHANGED <<browser>>

\* authenticateAccount: the workspace of the account becomes permanent again.
Authenticates(r) ==
    LET q == req[r] IN
    /\ q.kind = "login" /\ q.pc = "asked"
    /\ IF q.email \in Users
       THEN LET w == CHOOSE w \in Numbers(spaces) : spaces[w].owner = q.email IN
            /\ spaces' = [spaces EXCEPT ![w].expires = "never"]
            /\ To(r, "known")
       ELSE Answers(r, 0) /\ UNCHANGED <<spaces>>
    /\ UNCHANGED <<sessions, browser>>

\* createUserSession, after the session the browser had before was looked up.
Starts(r) ==
    LET q == req[r]
        old == IF q.pc = "slid" THEN q.sent ELSE 0
    IN
    /\ q.kind = "login" /\ q.pc \in {"slid", "refused"} /\ Len(sessions) < MaxSessions
    /\ \E w \in Numbers(spaces) :
          /\ spaces[w].owner = q.email
          /\ sessions' = Append(sessions, [space |-> w, user |-> q.email, live |-> TRUE])
    /\ req' = [req EXCEPT ![r] = [@ EXCEPT !.pc = "claimed", !.sets = Len(sessions) + 1, !.sent = old]]
    /\ UNCHANGED <<spaces, browser>>

\* The session the browser had before is revoked last, before the answer is heard.
RevokesOld(r) ==
    /\ req[r].pc = "claimed"
    /\ sessions' = IF req[r].sent = 0 THEN sessions ELSE Revoked(req[r].sent)
    /\ To(r, "answered")
    /\ UNCHANGED <<spaces, browser>>

\* A month without a request: anonymous workspaces, sessions and the cookie expire.
MonthPasses ==
    /\ Busy = {} /\ cookie # 0
    /\ spaces' = [w \in Numbers(spaces) |->
                     IF spaces[w].expires = "later" THEN [spaces[w] EXCEPT !.expires = "past"] ELSE spaces[w]]
    /\ sessions' = [t \in Numbers(sessions) |-> [sessions[t] EXCEPT !.live = FALSE]]
    /\ cookie' = 0 /\ signed' = Nobody
    /\ UNCHANGED <<crossed, req>>

-----------------------------------------------------------------------------
\* A browser that has been given an anonymous workspace.
AccountsInit ==
    /\ spaces = <<[owner |-> Nobody, expires |-> "later"]>>
    /\ sessions = <<[space |-> 1, user |-> Nobody, live |-> TRUE]>>
    /\ cookie = 1
    /\ req = [r \in Requests |-> NoRequest]
    /\ signed = Nobody /\ crossed = FALSE

Server(r) ==
    \/ Validates(r) \/ Slides(r) \/ Serves(r) \/ Refuses(r)
    \/ ClaimsSpace(r) \/ Authenticates(r) \/ Starts(r) \/ RevokesOld(r)

AccountsNext ==
    \/ \E r \in Requests : Sends(r) \/ Heard(r) \/ Lost(r) \/ Server(r)
    \/ \E r \in Requests, w \in Numbers(spaces) : TvSends(r, w)
    \/ MonthPasses

AccountsSpec == AccountsInit /\ [][AccountsNext]_acctVars

-----------------------------------------------------------------------------
(* Correctness *)

AccountsTypeOK ==
    /\ spaces \in Seq(Space) /\ sessions \in Seq(Session)
    /\ cookie \in 0 .. Len(sessions)
    /\ req \in [Requests -> WebRequest]
    /\ signed \in Owner /\ crossed \in BOOLEAN

\* An account owns one workspace and every session of a user is of the workspace he
\* owns, however registrations of one workspace or one e-mail overlap
\* (accountAuth.ts:220-347).
OneWorkspacePerAccount ==
    \A t \in Numbers(sessions) :
        sessions[t].user # Nobody =>
            {w \in Numbers(spaces) : spaces[w].owner = sessions[t].user} = {sessions[t].space}

\* A workspace with an owner does not expire: "Permanent account workspaces stay
\* permanent" (sessionAuth.ts:111), "Permanent workspaces never expire" (tvAuth.ts:43).
PermanentStays ==
    \A w \in Numbers(spaces) : spaces[w].owner # Nobody => spaces[w].expires = "never"

\* A browser whose sign-in was answered holds a session of the account until it
\* signs out, unless another request was under way when the answer came
\* (register/route.ts:34-35, session/me/route.ts:24-60).
SignedInUnlessCrossed ==
    signed # Nobody /\ ~crossed =>
        cookie # 0 /\ sessions[cookie].user = signed /\ sessions[cookie].live

\* The same with no exception: "the browser never loses access during the upgrade"
\* (register/route.ts:34-35).
NeverLosesAccess ==
    signed # Nobody => cookie # 0 /\ sessions[cookie].user = signed
=============================================================================

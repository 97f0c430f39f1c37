--------------------------- MODULE IdentityProofs ---------------------------
(***************************************************************************)
(* Who a browser and a TV are: an account owns one workspace, and a        *)
(* browser that signed in stays signed in; the TV's token stays the one    *)
(* its device has, and a TV that was approved is not told to start again.  *)
(* For any numbers of requests, accounts, workspaces, sessions, codes,     *)
(* tokens and approvals.                                                   *)
(***************************************************************************)
EXTENDS Accounts, Pairing, SequenceTheorems, FiniteSetTheorems, NaturalsInduction, TLAPS

-----------------------------------------------------------------------------
(* Accounts and sessions: the inductive invariant                           *)

\* The numbers a request carries are of the n sessions and m workspaces that there are.
Carries(q, n, m) ==
    /\ q.sent \in 0 .. n /\ q.sets \in 0 .. n /\ q.space \in 0 .. m
    /\ q.pc # "idle" /\ q.kind \in {"register", "login"} => q.email \in Emails
    /\ q.pc # "idle" /\ q.kind = "tv" => q.space # 0 /\ q.sets = 0 /\ ~q.clears
    /\ q.pc \in {"read", "slid"} /\ q.kind # "tv" => q.sent # 0 /\ q.space # 0
    /\ q.pc = "refused" => q.kind # "tv"
    /\ q.pc = "new" => q.sent # 0 /\ q.space # 0 /\ q.kind = "register"
    /\ q.pc = "claimed" => q.kind \in {"register", "login"}

\* So do the requests.
Requested == req \in [Requests -> WebRequest] /\ \A r \in Requests : Carries(req[r], Len(sessions), Len(spaces))

\* No two workspaces have the same owner, and the sessions of a user are of his.
Owned ==
    /\ spaces \in Seq(Space) /\ sessions \in Seq(Session)
    /\ \A v, w \in Numbers(spaces) : spaces[v].owner = spaces[w].owner /\ spaces[v].owner # Nobody => v = w
    /\ \A t \in Numbers(sessions) :
          /\ sessions[t].space \in Numbers(spaces)
          /\ sessions[t].user # Nobody => spaces[sessions[t].space].owner = sessions[t].user

\* Session t lets user e in.
LetsIn(t, e) ==
    /\ sessions[t].user = e /\ sessions[t].live
    /\ spaces[sessions[t].space].expires # "past"

\* It will after the step.
LetsInThen(t, e) ==
    /\ sessions'[t].user = e /\ sessions'[t].live
    /\ spaces'[sessions'[t].space].expires # "past"

\* A request with the session of a sign-in for its answer: nobody else has it yet.
Gives(q) ==
    /\ q.pc \in {"claimed", "answered"} /\ q.kind \in {"register", "login"}
    /\ q.sets # 0 /\ q.sets # q.sent

\* What it gives lets its account in.
NewIsOwn ==
    \A r \in Requests : Gives(req[r]) =>
        /\ LetsIn(req[r].sets, req[r].email) /\ cookie # req[r].sets
        /\ \A s \in Requests : req[s].sent # req[r].sets /\ (s # r => req[s].sets # req[r].sets)

\* A sign-in whose password was right waits for its session: the workspace of the
\* account cannot expire before it has one.
Awaits(q) == q.kind = "login" /\ q.pc \in {"known", "read", "slid", "refused"}

NotPast(e) == \A w \in Numbers(spaces) : spaces[w].owner = e => spaces[w].expires # "past"
NotPastThen(e) == \A w \in Numbers(spaces') : spaces'[w].owner = e => spaces'[w].expires # "past"

\* It has not expired.
OpenOnLogin == \A r \in Requests : Awaits(req[r]) => NotPast(req[r].email)

\* Once signed in, the browser sends its cookie with requests that leave it alone.
Harmless(q) ==
    q.pc # "idle" /\ q.kind # "tv" =>
        /\ q.kind \in {"me", "init"} /\ q.sent = cookie
        /\ q.pc \in {"asked", "read", "slid", "answered"}
        /\ ~q.clears /\ q.sets \in {0, cookie}

\* The cookie lets in who signed in.
SignedIn ==
    signed # Nobody /\ ~crossed =>
        cookie # 0 /\ LetsIn(cookie, signed) /\ \A r \in Requests : Harmless(req[r])

BrowserTyped == cookie \in 0 .. Len(sessions) /\ signed \in Owner /\ crossed \in BOOLEAN

AccountsInv == BrowserTyped /\ Requested /\ Owned /\ NewIsOwn /\ OpenOnLogin /\ SignedIn

-----------------------------------------------------------------------------
(* Helpers                                                                  *)

\* What is appended comes last.
LEMMA Appended ==
    ASSUME NEW S, NEW s \in Seq(S), NEW e \in S
    PROVE  /\ Append(s, e) \in Seq(S) /\ Len(Append(s, e)) = Len(s) + 1 /\ Len(s) \in Nat
           /\ \A i \in 1 .. Len(s) : Append(s, e)[i] = s[i]
           /\ Append(s, e)[Len(s) + 1] = e
<1>1. Len(s) \in Nat
  BY LenProperties
<1>. QED
  BY <1>1

\* A sequence that is rewritten place by place keeps its length.
LEMMA Rewritten ==
    ASSUME NEW S, NEW n \in Nat, NEW f \in [1 .. n -> S]
    PROVE  f \in Seq(S) /\ Len(f) = n
<1>1. f \in Seq(S)
  OBVIOUS
<1>. QED
  BY <1>1, LenProperties

\* The steps that make no session and no workspace for nothing: the old ones stay
\* as they are but for those of T, which may be revoked.
Kept(T) ==
    /\ Len(sessions) \in Nat /\ Len(sessions') \in Nat /\ Len(sessions) <= Len(sessions')
    /\ Len(spaces) \in Nat /\ Len(spaces') \in Nat /\ Len(spaces) <= Len(spaces')
    /\ \A t \in Numbers(sessions) \ T : \A e \in Owner : LetsIn(t, e) => LetsInThen(t, e)
    /\ \A e \in Emails : NotPast(e) => NotPastThen(e)

\* What request r becomes leaves the others and the cookie alone.
Follows(r, q) ==
    /\ q \in WebRequest /\ req' = [req EXCEPT ![r] = q]
    /\ UNCHANGED <<cookie, crossed>> /\ signed' \in {signed, Nobody}
    /\ q.sent \in {0, req[r].sent, cookie} \/ q.sent = Len(sessions) + 1
    /\ q.sets \in {0, req[r].sets, req[r].sent} \/ q.sets = Len(sessions) + 1
    /\ q.sent = Len(sessions) + 1 => q.sets # Len(sessions) + 1 \/ q.sets = q.sent

\* The server's steps: the request stays within what there is, gives a session
\* only if it gave it before or made it, and revokes no session that is another's.
LEMMA ServerGoesOn ==
    ASSUME AccountsInv, NEW r \in Requests, NEW q, Follows(r, q), NEW T, Kept(T), Owned',
           Carries(q, Len(sessions'), Len(spaces')),
           T \subseteq {req[r].sent},
           T # {} => req[r].pc # "idle" /\ req[r].kind \in {"register", "login", "logout"},
           Gives(q) => \/ Gives(req[r]) /\ q.sets = req[r].sets /\ q.email = req[r].email
                       \/ q.sets = Len(sessions) + 1 /\ LetsInThen(q.sets, q.email),
           Awaits(q) => NotPastThen(q.email),
           Harmless(req[r]) /\ signed' # Nobody /\ ~crossed /\ LetsIn(cookie, signed) => Harmless(q)
    PROVE  AccountsInv'
<1>1. /\ BrowserTyped /\ Requested /\ Owned /\ NewIsOwn /\ OpenOnLogin /\ SignedIn /\ Kept(T)
      /\ q \in WebRequest /\ req' = [req EXCEPT ![r] = q]
      /\ cookie' = cookie /\ signed' \in {signed, Nobody} /\ crossed' = crossed
  BY DEF AccountsInv, Follows
<1>2. req \in [Requests -> WebRequest] /\ req'[r] = q /\ \A s \in Requests \ {r} : req'[s] = req[s]
  BY <1>1 DEF Requested
<1>3. BrowserTyped'
  BY <1>1 DEF BrowserTyped, Kept, Owner
<1>4. Requested'
  <2>1. req' \in [Requests -> WebRequest]
    BY <1>1, <1>2
  <2>2. ASSUME NEW s \in Requests, s # r PROVE Carries(req'[s], Len(sessions'), Len(spaces'))
    BY <1>1, <1>2, <2>2 DEF Requested, Carries, Kept
  <2>. QED
    BY <1>2, <2>1, <2>2 DEF Requested, Carries
<1>5. NewIsOwn'
  <2>1. ASSUME NEW s \in Requests, Gives(req'[s])
        PROVE  /\ LetsInThen(req'[s].sets, req'[s].email) /\ cookie # req'[s].sets
               /\ \A u \in Requests : req'[u].sent # req'[s].sets /\ (u # s => req'[u].sets # req'[s].sets)
    <3>1. /\ \A u \in Requests : req[u].sent \in 0 .. Len(sessions) /\ req[u].sets \in 0 .. Len(sessions)
          /\ cookie \in 0 .. Len(sessions) /\ Len(sessions) \in Nat
      BY <1>1 DEF Requested, Carries, BrowserTyped, Kept
    <3>2. ASSUME Gives(req[s]), req'[s].sets = req[s].sets, req'[s].email = req[s].email,
                 req'[s].sent # req'[s].sets
          PROVE  /\ LetsInThen(req'[s].sets, req'[s].email) /\ cookie # req'[s].sets
                 /\ \A u \in Requests : req'[u].sent # req'[s].sets /\ (u # s => req'[u].sets # req'[s].sets)
      <4>1. req[s].sets \in Numbers(sessions) /\ req[s].email \in Owner
        BY <1>2, <3>1, <3>2 DEF Gives, Numbers, WebRequest
      <4>2. /\ LetsIn(req[s].sets, req[s].email) /\ cookie # req[s].sets
            /\ \A u \in Requests : req[u].sent # req[s].sets /\ (u # s => req[u].sets # req[s].sets)
        BY <1>1, <3>2 DEF NewIsOwn
      <4>3. LetsInThen(req[s].sets, req[s].email)
        BY <1>1, <4>1, <4>2 DEF Kept
      <4>4. s # r => q.sent # req[s].sets /\ q.sets # req[s].sets
        BY <1>1, <3>1, <4>1, <4>2 DEF Follows, Numbers
      <4>. QED
        BY <1>1, <1>2, <3>2, <4>1, <4>2, <4>3, <4>4
    <3>3. CASE s # r
      BY <1>2, <2>1, <3>2, <3>3 DEF Gives
    <3>4. CASE s = r /\ Gives(req[r]) /\ q.sets = req[r].sets /\ q.email = req[r].email
      BY <1>2, <2>1, <3>2, <3>4 DEF Gives
    <3>5. CASE s = r /\ q.sets = Len(sessions) + 1 /\ LetsInThen(q.sets, q.email)
      <4>1. q.sets # cookie /\ \A u \in Requests : req[u].sent # q.sets /\ req[u].sets # q.sets
        BY <3>1, <3>5
      <4>. QED
        BY <1>2, <2>1, <3>5, <4>1 DEF Gives
    <3>. QED
      BY <1>2, <2>1, <3>3, <3>4, <3>5
  <2>. QED
    BY <1>1, <2>1 DEF NewIsOwn, LetsIn, LetsInThen, Gives
<1>6. SignedIn'
  <2>. SUFFICES ASSUME signed' # Nobody, signed # Nobody, ~crossed, signed' = signed
                PROVE  cookie # 0 /\ LetsInThen(cookie, signed) /\ \A s \in Requests : Harmless(req[s])'
    BY <1>1 DEF SignedIn, LetsIn, LetsInThen
  <2>1. cookie # 0 /\ LetsIn(cookie, signed) /\ \A s \in Requests : Harmless(req[s])
    BY <1>1 DEF SignedIn
  <2>2. T = {}
    BY <2>1 DEF Harmless
  <2>3. LetsInThen(cookie, signed)
    BY <1>1, <2>1, <2>2 DEF Kept, BrowserTyped, Numbers
  <2>4. Harmless(q)
    BY <2>1
  <2>. QED
    BY <1>1, <1>2, <2>1, <2>3, <2>4 DEF Harmless
<1>7. OpenOnLogin'
  <2>1. ASSUME NEW s \in Requests, Awaits(req'[s]) PROVE NotPastThen(req'[s].email)
    <3>1. CASE s = r
      BY <1>2, <2>1, <3>1
    <3>2. CASE s # r
      <4>1. Awaits(req[s]) /\ NotPast(req[s].email) /\ req[s].email \in Emails
        BY <1>1, <1>2, <2>1, <3>2 DEF OpenOnLogin, Requested, Carries, Awaits
      <4>. QED
        BY <1>1, <1>2, <3>2, <4>1 DEF Kept
    <3>. QED
      BY <3>1, <3>2
  <2>. QED
    BY <2>1 DEF OpenOnLogin, Awaits, NotPast, NotPastThen
<1>. QED
  BY <1>3, <1>4, <1>5, <1>6, <1>7 DEF AccountsInv
-----------------------------------------------------------------------------
(* The steps                                                                *)

\* Nothing is rewritten but the request.
LEMMA StoreStays ==
    ASSUME AccountsInv, UNCHANGED <<spaces, sessions>>
    PROVE  Kept({}) /\ Owned'
BY LenProperties DEF AccountsInv, Owned, Kept, LetsIn, LetsInThen, Numbers, NotPast, NotPastThen

\* A workspace's expiry is written, not to the past.
LEMMA ExpiryWritten ==
    ASSUME AccountsInv, NEW w \in Numbers(spaces), NEW x \in {"never", "later"},
           spaces' = [spaces EXCEPT ![w].expires = x], sessions' = sessions
    PROVE  Kept({}) /\ Owned'
<1>. DEFINE e == [spaces[w] EXCEPT !.expires = x]
<1>1. spaces \in Seq(Space) /\ sessions \in Seq(Session) /\ spaces[w] \in Space
  BY ElementOfSeq DEF AccountsInv, Owned, Numbers
<1>2. spaces' = [spaces EXCEPT ![w] = e] /\ e \in Space /\ e.owner = spaces[w].owner /\ e.expires = x
  BY <1>1 DEF Space
<1>. HIDE DEF e
<1>3. /\ spaces' \in Seq(Space) /\ Len(spaces') = Len(spaces) /\ Len(spaces) \in Nat /\ Len(sessions) \in Nat
      /\ spaces'[w] = e /\ \A v \in Numbers(spaces) \ {w} : spaces'[v] = spaces[v]
  <2>1. Len(spaces) \in Nat /\ Len(sessions) \in Nat
    BY <1>1, LenProperties
  <2>2. /\ [spaces EXCEPT ![w] = e] \in Seq(Space) /\ Len([spaces EXCEPT ![w] = e]) = Len(spaces)
        /\ \A j \in 1 .. Len(spaces) : [spaces EXCEPT ![w] = e][j] = IF j = w THEN e ELSE spaces[j]
    BY <1>1, <1>2, ExceptSeq DEF Numbers
  <2>. QED
    BY <1>2, <2>1, <2>2 DEF Numbers
<1>4. \A v \in Numbers(spaces) : spaces'[v].owner = spaces[v].owner
  BY <1>2, <1>3
<1>5. Owned'
  BY <1>3, <1>4 DEF AccountsInv, Owned, Numbers
<1>6. \A v \in Numbers(spaces) : spaces[v].expires # "past" => spaces'[v].expires # "past"
  BY <1>2, <1>3
<1>7. \A t \in Numbers(sessions) : sessions[t].space \in Numbers(spaces)
  BY DEF AccountsInv, Owned
<1>8. \A u \in Emails : NotPast(u) => NotPastThen(u)
  BY <1>3, <1>4, <1>6 DEF NotPast, NotPastThen, Numbers
<1>. QED
  BY <1>3, <1>5, <1>6, <1>7, <1>8 DEF Kept, LetsIn, LetsInThen

\* A session is revoked.
LEMMA SessionRevoked ==
    ASSUME AccountsInv, NEW t \in Numbers(sessions), sessions' = Revoked(t), spaces' = spaces
    PROVE  Kept({t}) /\ Owned'
<1>. DEFINE e == [sessions[t] EXCEPT !.live = FALSE]
<1>1. spaces \in Seq(Space) /\ sessions \in Seq(Session) /\ sessions[t] \in Session
  BY ElementOfSeq DEF AccountsInv, Owned, Numbers
<1>2. /\ sessions' = [sessions EXCEPT ![t] = e] /\ e \in Session
      /\ e.space = sessions[t].space /\ e.user = sessions[t].user
  BY <1>1 DEF Session, Revoked
<1>. HIDE DEF e
<1>3. /\ sessions' \in Seq(Session) /\ Len(sessions') = Len(sessions)
      /\ Len(spaces) \in Nat /\ Len(sessions) \in Nat
      /\ sessions'[t] = e /\ \A s \in Numbers(sessions) \ {t} : sessions'[s] = sessions[s]
  BY <1>1, <1>2, ExceptSeq, LenProperties DEF Numbers
<1>4. \A s \in Numbers(sessions) : sessions'[s].space = sessions[s].space /\ sessions'[s].user = sessions[s].user
  BY <1>2, <1>3
<1>5. Owned'
  BY <1>3, <1>4 DEF AccountsInv, Owned, Numbers
<1>6. \A u \in Emails : NotPast(u) => NotPastThen(u)
  BY DEF NotPast, NotPastThen
<1>. QED
  BY <1>3, <1>5, <1>6 DEF Kept, LetsIn, LetsInThen

\* A session is made, of a workspace that there is and of its owner or of nobody.
LEMMA SessionMade ==
    ASSUME AccountsInv, NEW w \in Numbers(spaces), NEW u \in Owner, u # Nobody => spaces[w].owner = u,
           sessions' = Append(sessions, [space |-> w, user |-> u, live |-> TRUE]), spaces' = spaces
    PROVE  /\ Kept({}) /\ Owned' /\ Len(sessions') = Len(sessions) + 1
           /\ spaces[w].expires # "past" => LetsInThen(Len(sessions) + 1, u)
<1>. DEFINE e == [space |-> w, user |-> u, live |-> TRUE]
<1>1. /\ spaces \in Seq(Space) /\ sessions \in Seq(Session) /\ Len(spaces) \in Nat
      /\ e \in Session /\ e.space = w /\ e.user = u /\ e.live
  BY LenProperties DEF AccountsInv, Owned, Numbers, Session
<1>. HIDE DEF e
<1>2. /\ sessions' \in Seq(Session) /\ Len(sessions') = Len(sessions) + 1 /\ Len(sessions) \in Nat
      /\ \A s \in Numbers(sessions) : sessions'[s] = sessions[s]
      /\ sessions'[Len(sessions) + 1] = e
  BY <1>1, Appended DEF Numbers, e
<1>3. Numbers(sessions') = Numbers(sessions) \cup {Len(sessions) + 1}
  BY <1>2 DEF Numbers
<1>4. Owned'
  <2>. DEFINE n == Len(sessions) + 1
  <2>1. sessions'[n].space \in Numbers(spaces) /\ (sessions'[n].user # Nobody => spaces[sessions'[n].space].owner = sessions'[n].user)
    BY <1>1, <1>2
  <2>2. \A t \in Numbers(sessions) :
          /\ sessions'[t].space \in Numbers(spaces)
          /\ sessions'[t].user # Nobody => spaces[sessions'[t].space].owner = sessions'[t].user
    BY <1>2 DEF AccountsInv, Owned
  <2>. HIDE DEF n
  <2>3. Numbers(sessions') = Numbers(sessions) \cup {n}
    BY <1>3 DEF n
  <2>. QED
    BY <1>1, <1>2, <2>1, <2>2, <2>3, ZenonT(60) DEF AccountsInv, Owned
<1>5. \A t \in Numbers(sessions) : \A o \in Owner : LetsIn(t, o) => LetsInThen(t, o)
  BY <1>2 DEF LetsIn, LetsInThen
<1>6. spaces[w].expires # "past" => LetsInThen(Len(sessions) + 1, u)
  BY <1>1, <1>2 DEF LetsInThen
<1>7. \A o \in Emails : NotPast(o) => NotPastThen(o)
  BY DEF NotPast, NotPastThen
<1>. QED
  BY <1>1, <1>2, <1>4, <1>5, <1>6, <1>7 DEF Kept

\* An anonymous workspace is made, with its first session.
LEMMA SpaceMade ==
    ASSUME AccountsInv,
           spaces' = Append(spaces, [owner |-> Nobody, expires |-> "later"]),
           sessions' = Append(sessions, [space |-> Len(spaces) + 1, user |-> Nobody, live |-> TRUE])
    PROVE  Kept({}) /\ Owned' /\ Len(sessions') = Len(sessions) + 1 /\ Len(spaces') = Len(spaces) + 1
<1>. DEFINE n == Len(spaces) + 1
            m == Len(sessions) + 1
            e == [space |-> n, user |-> Nobody, live |-> TRUE]
            o == [owner |-> Nobody, expires |-> "later"]
<1>1. spaces \in Seq(Space) /\ sessions \in Seq(Session)
  BY DEF AccountsInv, Owned
<1>2. Len(spaces) \in Nat /\ Len(sessions) \in Nat /\ n \in Nat
  BY <1>1, LenProperties
<1>3. e \in Session /\ e.space = n /\ e.user = Nobody /\ o \in Space /\ o.owner = Nobody
  BY <1>2 DEF Session, Space, Owner
<1>. HIDE DEF e, o
<1>4. /\ sessions' \in Seq(Session) /\ Len(sessions') = m
      /\ \A t \in 1 .. Len(sessions) : sessions'[t] = sessions[t]
      /\ sessions'[m] = e
  BY <1>1, <1>3, Appended DEF e
<1>5. /\ spaces' \in Seq(Space) /\ Len(spaces') = n
      /\ \A w \in 1 .. Len(spaces) : spaces'[w] = spaces[w]
      /\ spaces'[n] = o
  BY <1>1, <1>3, Appended DEF o
<1>6. Numbers(sessions') = Numbers(sessions) \cup {m} /\ Numbers(spaces') = Numbers(spaces) \cup {n}
  BY <1>2, <1>4, <1>5 DEF Numbers
<1>7. Len(sessions') = Len(sessions) + 1 /\ Len(spaces') = Len(spaces) + 1
  BY <1>4, <1>5
<1>8. Len(sessions) <= Len(sessions') /\ Len(spaces) <= Len(spaces') /\ Len(sessions') \in Nat /\ Len(spaces') \in Nat
  BY <1>2, <1>7
<1>. HIDE DEF n, m
<1>9. \A t \in Numbers(sessions) : sessions'[t] = sessions[t] /\ sessions[t].space \in Numbers(spaces)
  BY <1>4 DEF AccountsInv, Owned, Numbers
<1>10. \A w \in Numbers(spaces) : spaces'[w] = spaces[w]
  BY <1>5 DEF Numbers
<1>11. Kept({})
  <2>1. \A t \in Numbers(sessions) : \A x \in Owner : LetsIn(t, x) => LetsInThen(t, x)
    BY <1>9, <1>10 DEF LetsIn, LetsInThen
  <2>2. \A x \in Emails : NotPast(x) => NotPastThen(x)
    BY <1>3, <1>5, <1>6, <1>10, NobodyIsNone DEF NotPast, NotPastThen
  <2>. QED
    BY <1>2, <1>8, <2>1, <2>2 DEF Kept
<1>12. \A v, w \in Numbers(spaces') : spaces'[v].owner = spaces'[w].owner /\ spaces'[v].owner # Nobody => v = w
  BY <1>3, <1>5, <1>6, <1>10, ZenonT(60) DEF AccountsInv, Owned
<1>13. \A t \in Numbers(sessions') :
          /\ sessions'[t].space \in Numbers(spaces')
          /\ sessions'[t].user # Nobody => spaces'[sessions'[t].space].owner = sessions'[t].user
  <2>1. ASSUME NEW t \in Numbers(sessions)
        PROVE  /\ sessions'[t].space \in Numbers(spaces')
               /\ sessions'[t].user # Nobody => spaces'[sessions'[t].space].owner = sessions'[t].user
    BY <1>6, <1>9, <1>10, ZenonT(60) DEF AccountsInv, Owned
  <2>. QED
    BY <1>3, <1>4, <1>6, <2>1
<1>. QED
  BY <1>4, <1>5, <1>7, <1>11, <1>12, <1>13 DEF Owned

\* An anonymous workspace is claimed for an account that has none, with a session.
LEMMA SpaceClaimed ==
    ASSUME AccountsInv, NEW w \in Numbers(spaces), NEW u \in Emails, u \notin Users,
           spaces[w].owner = Nobody,
           spaces' = [spaces EXCEPT ![w] = [owner |-> u, expires |-> "never"]],
           sessions' = Append(sessions, [space |-> w, user |-> u, live |-> TRUE])
    PROVE  /\ Kept({}) /\ Owned' /\ Len(sessions') = Len(sessions) + 1 /\ Len(spaces') = Len(spaces)
           /\ LetsInThen(Len(sessions) + 1, u)
<1>. DEFINE m == Len(sessions) + 1
            e == [space |-> w, user |-> u, live |-> TRUE]
            o == [owner |-> u, expires |-> "never"]
<1>1. spaces \in Seq(Space) /\ sessions \in Seq(Session)
  BY DEF AccountsInv, Owned
<1>2. Len(spaces) \in Nat /\ Len(sessions) \in Nat /\ w \in 1 .. Len(spaces)
  BY <1>1, LenProperties DEF Numbers
<1>3. /\ e \in Session /\ e.space = w /\ e.user = u /\ e.live
      /\ o \in Space /\ o.owner = u /\ o.expires # "past" /\ u # Nobody
  BY <1>2, NobodyIsNone DEF Session, Space, Owner
<1>. HIDE DEF e, o
<1>4. /\ sessions' \in Seq(Session) /\ Len(sessions') = m
      /\ \A t \in 1 .. Len(sessions) : sessions'[t] = sessions[t]
      /\ sessions'[m] = e
  BY <1>1, <1>3, Appended DEF e
<1>5. /\ [spaces EXCEPT ![w] = o] \in Seq(Space) /\ Len([spaces EXCEPT ![w] = o]) = Len(spaces)
      /\ \A j \in 1 .. Len(spaces) : [spaces EXCEPT ![w] = o][j] = IF j = w THEN o ELSE spaces[j]
  BY <1>1, <1>2, <1>3, ExceptSeq
<1>6. /\ spaces' \in Seq(Space) /\ Len(spaces') = Len(spaces)
      /\ spaces'[w] = o /\ \A v \in Numbers(spaces) \ {w} : spaces'[v] = spaces[v]
  BY <1>2, <1>5 DEF Numbers, o
<1>7. Numbers(sessions') = Numbers(sessions) \cup {m} /\ Numbers(spaces') = Numbers(spaces)
  BY <1>2, <1>4, <1>6 DEF Numbers
<1>8. Len(sessions') = Len(sessions) + 1 /\ Len(sessions) <= Len(sessions') /\ Len(sessions') \in Nat
  BY <1>2, <1>4
<1>. HIDE DEF m
<1>9. \A t \in Numbers(sessions) : sessions'[t] = sessions[t] /\ sessions[t].space \in Numbers(spaces)
  BY <1>4 DEF AccountsInv, Owned, Numbers
<1>10. \A v \in Numbers(spaces) : spaces[v].owner # u
  BY <1>3 DEF Users
<1>11. \A t \in Numbers(sessions) : sessions[t].space = w => sessions[t].user = Nobody
  BY DEF AccountsInv, Owned
<1>12. Kept({})
  <2>1. \A v \in Numbers(spaces) : spaces[v].expires # "past" => spaces'[v].expires # "past"
    BY <1>3, <1>6
  <2>2. \A t \in Numbers(sessions) : \A x \in Owner : LetsIn(t, x) => LetsInThen(t, x)
    BY <1>9, <2>1 DEF LetsIn, LetsInThen
  <2>3. \A x \in Emails : NotPast(x) => NotPastThen(x)
    BY <1>3, <1>6, <1>7, <2>1 DEF NotPast, NotPastThen
  <2>. QED
    BY <1>2, <1>6, <1>8, <2>2, <2>3 DEF Kept
<1>13. \A v, x \in Numbers(spaces') : spaces'[v].owner = spaces'[x].owner /\ spaces'[v].owner # Nobody => v = x
  BY <1>3, <1>6, <1>7, <1>10 DEF AccountsInv, Owned
<1>14. \A t \in Numbers(sessions') :
          /\ sessions'[t].space \in Numbers(spaces')
          /\ sessions'[t].user # Nobody => spaces'[sessions'[t].space].owner = sessions'[t].user
  <2>1. ASSUME NEW t \in Numbers(sessions)
        PROVE  /\ sessions'[t].space \in Numbers(spaces')
               /\ sessions'[t].user # Nobody => spaces'[sessions'[t].space].owner = sessions'[t].user
    <3>1. sessions[t].user # Nobody => spaces[sessions[t].space].owner = sessions[t].user
      BY DEF AccountsInv, Owned
    <3>. QED
      BY <1>6, <1>7, <1>9, <1>11, <3>1
  <2>2. /\ sessions'[m].space \in Numbers(spaces')
        /\ sessions'[m].user # Nobody => spaces'[sessions'[m].space].owner = sessions'[m].user
    BY <1>3, <1>4, <1>6, <1>7
  <2>. QED
    BY <1>7, <2>1, <2>2
<1>15. LetsInThen(Len(sessions) + 1, u)
  BY <1>3, <1>4, <1>6 DEF LetsInThen, m
<1>. QED
  BY <1>4, <1>6, <1>8, <1>12, <1>13, <1>14, <1>15 DEF Owned

\* What is known of a request that the server works on.
LEMMA Served ==
    ASSUME AccountsInv, NEW r \in Requests
    PROVE  /\ req \in [Requests -> WebRequest] /\ req[r] \in WebRequest /\ Carries(req[r], Len(sessions), Len(spaces))
           /\ Len(sessions) \in Nat /\ Len(spaces) \in Nat
           /\ cookie \in 0 .. Len(sessions)
           /\ \A w \in Numbers(spaces) : spaces[w] \in Space
           /\ \A t \in Numbers(sessions) : sessions[t] \in Session /\ sessions[t].space \in Numbers(spaces)
BY LenProperties, ElementOfSeq DEF AccountsInv, Requested, BrowserTyped, Owned, Numbers

\* The answers and the moves of a request, as the record it becomes.
LEMMA Moves ==
    ASSUME AccountsInv, NEW r \in Requests, NEW pc, To(r, pc),
           pc \in {"idle", "asked", "known", "read", "slid", "refused", "new", "claimed", "answered"}
    PROVE  \E q \in WebRequest :
              /\ req' = [req EXCEPT ![r] = q] /\ q.pc = pc
              /\ q.kind = req[r].kind /\ q.sent = req[r].sent /\ q.space = req[r].space /\ q.email = req[r].email
              /\ q.sets = req[r].sets /\ q.clears = req[r].clears
<1>1. req \in [Requests -> WebRequest] /\ req[r] \in WebRequest
  BY Served
<1>. DEFINE q == [req[r] EXCEPT !.pc = pc]
<1>2. /\ q \in WebRequest /\ q.pc = pc
      /\ q.kind = req[r].kind /\ q.sent = req[r].sent /\ q.space = req[r].space /\ q.email = req[r].email
      /\ q.sets = req[r].sets /\ q.clears = req[r].clears
  BY <1>1 DEF WebRequest
<1>3. req' = [req EXCEPT ![r] = q]
  BY <1>1 DEF To
<1>. QED
  BY <1>2, <1>3

\* The answer sets a session, or none.
LEMMA AnswersSet ==
    ASSUME AccountsInv, NEW r \in Requests, NEW t \in Nat, Answers(r, t)
    PROVE  \E q \in WebRequest :
              /\ req' = [req EXCEPT ![r] = q] /\ q.pc = "answered"
              /\ q.kind = req[r].kind /\ q.sent = req[r].sent /\ q.space = req[r].space /\ q.email = req[r].email
              /\ q.sets = t /\ q.clears = req[r].clears
<1>1. req \in [Requests -> WebRequest] /\ req[r] \in WebRequest
  BY Served
<1>. DEFINE q == [req[r] EXCEPT !.pc = "answered", !.sets = t]
<1>2. /\ q \in WebRequest /\ q.pc = "answered"
      /\ q.kind = req[r].kind /\ q.sent = req[r].sent /\ q.space = req[r].space /\ q.email = req[r].email
      /\ q.sets = t /\ q.clears = req[r].clears
  BY <1>1 DEF WebRequest
<1>3. req' = [req EXCEPT ![r] = q]
  BY <1>1 DEF Answers
<1>. QED
  BY <1>2, <1>3

\* The answer clears the cookie.
LEMMA AnswersCleared ==
    ASSUME AccountsInv, NEW r \in Requests, AnswersClearing(r)
    PROVE  \E q \in WebRequest :
              /\ req' = [req EXCEPT ![r] = q] /\ q.pc = "answered"
              /\ q.kind = req[r].kind /\ q.sent = req[r].sent /\ q.space = req[r].space /\ q.email = req[r].email
              /\ q.sets = req[r].sets
<1>1. req \in [Requests -> WebRequest] /\ req[r] \in WebRequest
  BY Served
<1>. DEFINE q == [req[r] EXCEPT !.pc = "answered", !.clears = TRUE]
<1>2. /\ q \in WebRequest /\ q.pc = "answered"
      /\ q.kind = req[r].kind /\ q.sent = req[r].sent /\ q.space = req[r].space /\ q.email = req[r].email
      /\ q.sets = req[r].sets
  BY <1>1 DEF WebRequest
<1>3. req' = [req EXCEPT ![r] = q]
  BY <1>1 DEF AnswersClearing
<1>. QED
  BY <1>2, <1>3

\* A session lets in who is read of it.
LEMMA ValidatesKeeps ==
    ASSUME AccountsInv, NEW r \in Requests, Validates(r)
    PROVE  AccountsInv'
<1>1. UNCHANGED <<spaces, sessions, browser>>
  BY DEF Validates
<1>2. Kept({}) /\ Owned'
  BY <1>1, StoreStays
<1>3. /\ req[r].pc = IF req[r].kind = "login" THEN "known" ELSE "asked"
      /\ req \in [Requests -> WebRequest] /\ req[r] \in WebRequest /\ Carries(req[r], Len(sessions), Len(spaces))
      /\ Len(sessions) \in Nat /\ Len(spaces) \in Nat
      /\ \A w \in Numbers(spaces) : spaces[w] \in Space
      /\ \A t \in Numbers(sessions) : sessions[t] \in Session /\ sessions[t].space \in Numbers(spaces)
  BY Served DEF Validates
<1>4. PICK q \in WebRequest :
          /\ req' = [req EXCEPT ![r] = q]
          /\ q.kind = req[r].kind /\ q.sent = req[r].sent /\ q.email = req[r].email /\ q.clears = req[r].clears
          /\ \/ /\ q.kind = "tv" /\ q.pc = "answered" /\ q.sets = 0 /\ q.space = req[r].space
             \/ /\ q.kind = "tv" /\ q.pc = "read" /\ q.sets = req[r].sets /\ q.space = req[r].space
             \/ /\ q.kind # "tv" /\ Opens(req[r].sent) /\ q.pc = "read" /\ q.sets = req[r].sets
                /\ q.space = sessions[req[r].sent].space
             \/ /\ q.kind # "tv" /\ ~Opens(req[r].sent) /\ q.pc = "refused" /\ q.sets = req[r].sets
                /\ q.space = req[r].space
  <2>1. CASE req[r].kind = "tv" /\ Answers(r, 0)
    <3>1. \E q \in WebRequest :
              /\ req' = [req EXCEPT ![r] = q] /\ q.pc = "answered"
              /\ q.kind = req[r].kind /\ q.sent = req[r].sent /\ q.space = req[r].space /\ q.email = req[r].email
              /\ q.sets = 0 /\ q.clears = req[r].clears
      <4>1. 0 \in Nat
        OBVIOUS
      <4>. QED
        BY <2>1, <4>1, AnswersSet
    <3>. QED
      BY <2>1, <3>1
  <2>2. CASE req[r].kind = "tv" /\ ~Answers(r, 0)
    <3>. DEFINE q == [req[r] EXCEPT !.pc = "read", !.owner = spaces[req[r].space].owner]
    <3>1. req' = [req EXCEPT ![r] = q]
      BY <1>3, <2>2 DEF Validates
    <3>2. /\ q.kind = req[r].kind /\ q.sent = req[r].sent /\ q.email = req[r].email
          /\ q.clears = req[r].clears /\ q.pc = "read" /\ q.sets = req[r].sets /\ q.space = req[r].space
      BY <1>3 DEF WebRequest
    <3>3. req[r].space \in Numbers(spaces)
      BY <1>3, <2>2 DEF Carries, Numbers
    <3>4. q \in WebRequest
      BY <1>3, <3>3 DEF WebRequest, Space
    <3>. QED
      BY <2>2, <3>1, <3>2, <3>4
  <2>3. CASE req[r].kind # "tv" /\ Opens(req[r].sent)
    <3>. DEFINE q == [req[r] EXCEPT !.pc = "read", !.space = sessions[req[r].sent].space,
                                    !.owner = sessions[req[r].sent].user]
    <3>1. req' = [req EXCEPT ![r] = q]
      BY <1>3, <2>3 DEF Validates
    <3>2. /\ q.kind = req[r].kind /\ q.sent = req[r].sent /\ q.email = req[r].email
          /\ q.clears = req[r].clears /\ q.pc = "read" /\ q.sets = req[r].sets
          /\ q.space = sessions[req[r].sent].space
      BY <1>3 DEF WebRequest
    <3>3. req[r].sent \in Numbers(sessions)
      BY <1>3, <2>3 DEF Carries, Numbers, Opens
    <3>4. q \in WebRequest
      BY <1>3, <3>3 DEF WebRequest, Session
    <3>. QED
      BY <2>3, <3>1, <3>2, <3>4
  <2>4. CASE req[r].kind # "tv" /\ ~Opens(req[r].sent)
    <3>1. To(r, "refused")
      BY <2>4 DEF Validates
    <3>. QED
      BY <2>4, <3>1, Moves
  <2>. QED
    BY <2>1, <2>2, <2>3, <2>4
<1>5. Follows(r, q)
  BY <1>1, <1>4 DEF Follows, browser
<1>6. Carries(q, Len(sessions'), Len(spaces'))
  <2>1. Opens(req[r].sent) => req[r].sent # 0 /\ sessions[req[r].sent].space \in 1 .. Len(spaces)
    <3>1. Opens(req[r].sent) => req[r].sent # 0
      BY DEF Opens
    <3>2. req[r].sent # 0 => req[r].sent \in Numbers(sessions)
      BY <1>3 DEF Carries, Numbers
    <3>. QED
      BY <1>3, <3>1, <3>2 DEF Numbers
  <2>2. Carries(q, Len(sessions), Len(spaces))
    BY <1>3, <1>4, <2>1 DEF Carries
  <2>. QED
    BY <1>1, <2>2
<1>7. ~Gives(q)
  BY <1>4 DEF Gives
<1>8. Harmless(req[r]) /\ signed' # Nobody /\ ~crossed /\ LetsIn(cookie, signed) => Harmless(q)
  <2>. SUFFICES ASSUME Harmless(req[r]), signed # Nobody, ~crossed, LetsIn(cookie, signed), q.kind # "tv",
                       req[r].sent = cookie
                PROVE  Harmless(q)
    BY <1>1, <1>3, <1>4 DEF Harmless, browser
  <2>1. Opens(req[r].sent)
    <3>1. cookie # 0 /\ cookie \in Numbers(sessions)
      BY Served DEF AccountsInv, SignedIn, Numbers
    <3>2. spaces[sessions[cookie].space].owner = signed
      BY <3>1 DEF AccountsInv, Owned, LetsIn
    <3>. QED
      BY <3>1, <3>2 DEF Opens, LetsIn
  <2>. QED
    BY <1>3, <1>4, <2>1 DEF Harmless
<1>9. {} \subseteq {req[r].sent} /\ ({} # {} => req[r].pc # "idle" /\ req[r].kind \in {"register", "login", "logout"})
  BY <1>3
<1>10. Awaits(q) => NotPastThen(q.email)
  <2>. SUFFICES ASSUME Awaits(q) PROVE NotPastThen(q.email)
    OBVIOUS
  <2>1. Awaits(req[r]) /\ req[r].email \in Emails
    BY <1>3, <1>4 DEF Awaits, Carries
  <2>. QED
    BY <1>2, <1>4, <2>1 DEF AccountsInv, OpenOnLogin, Kept
<1>. QED
  BY <1>2, <1>5, <1>6, <1>7, <1>8, <1>9, <1>10, ServerGoesOn

\* The expiry is written.
LEMMA SlidesKeeps ==
    ASSUME AccountsInv, NEW r \in Requests, Slides(r)
    PROVE  AccountsInv'
<1>1. /\ req \in [Requests -> WebRequest] /\ req[r] \in WebRequest /\ req[r].pc = "read"
      /\ Carries(req[r], Len(sessions), Len(spaces))
      /\ Len(sessions) \in Nat /\ Len(spaces) \in Nat
      /\ \A t \in Numbers(sessions) : sessions[t].space \in Numbers(spaces)
      /\ sessions' = sessions /\ UNCHANGED browser
  BY Served DEF Slides
<1>2. PICK w : /\ w \in Numbers(spaces) /\ spaces' = [spaces EXCEPT ![w].expires = Slid(req[r].owner)]
  <2>1. req[r].kind = "tv" => req[r].space \in Numbers(spaces)
    BY <1>1 DEF Carries, Numbers
  <2>2. req[r].kind # "tv" => req[r].sent \in Numbers(sessions)
    BY <1>1 DEF Carries, Numbers
  <2>. QED
    BY <1>1, <2>1, <2>2 DEF Slides
<1>3. Kept({}) /\ Owned' /\ Len(spaces') = Len(spaces)
  <2>1. Slid(req[r].owner) \in {"never", "later"}
    BY DEF Slid
  <2>2. Kept({}) /\ Owned'
    BY <1>1, <1>2, <2>1, ExpiryWritten
  <2>3. spaces' \in Seq(Space) /\ DOMAIN spaces' = DOMAIN spaces /\ spaces \in Seq(Space)
    BY <1>2, <2>2 DEF Owned, AccountsInv
  <2>. QED
    BY <2>2, <2>3, LenProperties
<1>4. PICK q \in WebRequest :
          /\ req' = [req EXCEPT ![r] = q] /\ q.pc = "slid"
          /\ q.kind = req[r].kind /\ q.sent = req[r].sent /\ q.space = req[r].space /\ q.email = req[r].email
          /\ q.sets = req[r].sets /\ q.clears = req[r].clears
  BY Moves DEF Slides
<1>5. Follows(r, q) /\ Carries(q, Len(sessions'), Len(spaces')) /\ ~Gives(q)
  BY <1>1, <1>3, <1>4 DEF Follows, browser, Carries, Gives
<1>6. Harmless(req[r]) => Harmless(q)
  BY <1>1, <1>4 DEF Harmless
<1>7. {} \subseteq {req[r].sent} /\ ({} # {} => req[r].pc # "idle" /\ req[r].kind \in {"register", "login", "logout"})
  BY <1>1
<1>8. Awaits(q) => NotPastThen(q.email)
  <2>. SUFFICES ASSUME Awaits(q) PROVE NotPastThen(q.email)
    OBVIOUS
  <2>1. Awaits(req[r]) /\ req[r].email \in Emails
    BY <1>1, <1>4 DEF Awaits, Carries
  <2>. QED
    BY <1>3, <1>4, <2>1 DEF AccountsInv, OpenOnLogin, Kept
<1>. QED
  BY <1>3, <1>5, <1>6, <1>7, <1>8, ServerGoesOn

\* A request that was let in is answered, and a logout revokes its session.
LEMMA ServesKeeps ==
    ASSUME AccountsInv, NEW r \in Requests, Serves(r)
    PROVE  AccountsInv'
<1>1. /\ req \in [Requests -> WebRequest] /\ req[r] \in WebRequest /\ req[r].pc = "slid" /\ req[r].kind # "login"
      /\ Carries(req[r], Len(sessions), Len(spaces))
      /\ Len(sessions) \in Nat /\ Len(spaces) \in Nat
      /\ req[r].sent \in Nat /\ req[r].clears \in BOOLEAN /\ 0 \in Nat
      /\ spaces' = spaces /\ UNCHANGED browser
  BY Served DEF Serves, WebRequest
<1>. DEFINE T == IF sessions' = sessions THEN {} ELSE {req[r].sent}
<1>2. /\ Kept(T) /\ Owned' /\ Len(sessions') = Len(sessions)
      /\ T = {} \/ (T = {req[r].sent} /\ req[r].kind = "logout")
  <2>1. CASE sessions' = sessions
    <3>1. Kept({}) /\ Owned'
      BY <1>1, <2>1, StoreStays
    <3>2. Len(sessions') = Len(sessions)
      BY <2>1
    <3>. QED
      BY <2>1, <3>1, <3>2
  <2>2. CASE sessions' # sessions
    <3>1. req[r].kind = "logout" /\ sessions' = Revoked(req[r].sent) /\ req[r].sent \in Numbers(sessions)
      <4>1. req[r].kind \in {"me", "init", "tv", "logout", "register"}
        BY <1>1 DEF WebRequest, Kinds
      <4>2. req[r].kind = "logout" /\ sessions' = Revoked(req[r].sent)
        BY <2>2, <4>1 DEF Serves
      <4>. QED
        BY <1>1, <4>2 DEF Carries, Numbers
    <3>2. Kept({req[r].sent}) /\ Owned'
      BY <1>1, <3>1, SessionRevoked
    <3>3. sessions' \in Seq(Session) /\ DOMAIN sessions' = DOMAIN sessions /\ sessions \in Seq(Session)
      BY <3>1, <3>2 DEF Owned, AccountsInv, Revoked
    <3>. QED
      BY <2>2, <3>1, <3>2, <3>3, LenProperties
  <2>. QED
    BY <2>1, <2>2
<1>3. PICK q \in WebRequest :
          /\ req' = [req EXCEPT ![r] = q]
          /\ q.kind = req[r].kind /\ q.sent = req[r].sent /\ q.space = req[r].space /\ q.email = req[r].email
          /\ \/ /\ q.pc = "answered" /\ q.kind \in {"me", "init", "register"} /\ q.sets = q.sent
                /\ q.clears = req[r].clears
             \/ q.pc = "answered" /\ q.kind = "tv" /\ q.sets = 0 /\ q.clears = req[r].clears
             \/ q.pc = "answered" /\ q.kind = "logout" /\ q.sets = req[r].sets
             \/ q.pc = "new" /\ q.kind = "register" /\ q.sets = req[r].sets
  <2>1. CASE Answers(r, req[r].sent) /\ req[r].kind \in {"me", "init", "register"}
    <3>1. \E q \in WebRequest :
              /\ req' = [req EXCEPT ![r] = q] /\ q.pc = "answered"
              /\ q.kind = req[r].kind /\ q.sent = req[r].sent /\ q.space = req[r].space /\ q.email = req[r].email
              /\ q.sets = req[r].sent /\ q.clears = req[r].clears
      BY <1>1, <2>1, AnswersSet
    <3>. QED
      BY <2>1, <3>1
  <2>2. CASE Answers(r, 0) /\ req[r].kind = "tv"
    <3>1. \E q \in WebRequest :
              /\ req' = [req EXCEPT ![r] = q] /\ q.pc = "answered"
              /\ q.kind = req[r].kind /\ q.sent = req[r].sent /\ q.space = req[r].space /\ q.email = req[r].email
              /\ q.sets = 0 /\ q.clears = req[r].clears
      BY <1>1, <2>2, AnswersSet
    <3>. QED
      BY <2>2, <3>1
  <2>3. CASE AnswersClearing(r) /\ req[r].kind = "logout"
    BY <2>3, AnswersCleared
  <2>4. CASE To(r, "new") /\ req[r].kind = "register"
    BY <2>4, Moves
  <2>. QED
    <3>1. req[r].kind \in {"me", "init", "tv", "logout", "register"}
      BY <1>1 DEF WebRequest, Kinds
    <3>2. \/ Answers(r, req[r].sent) /\ req[r].kind \in {"me", "init", "register"}
          \/ Answers(r, 0) /\ req[r].kind = "tv"
          \/ AnswersClearing(r) /\ req[r].kind = "logout"
          \/ To(r, "new") /\ req[r].kind = "register"
      BY <3>1 DEF Serves
    <3>. QED
      BY <2>1, <2>2, <2>3, <2>4, <3>2
<1>4. Follows(r, q) /\ Carries(q, Len(sessions'), Len(spaces')) /\ ~Gives(q)
  <2>1. Follows(r, q)
    BY <1>1, <1>3 DEF Follows, browser
  <2>2. Carries(q, Len(sessions), Len(spaces))
    BY <1>1, <1>3 DEF Carries, WebRequest
  <2>3. ~Gives(q)
    BY <1>3 DEF Gives
  <2>. QED
    BY <1>1, <1>2, <2>1, <2>2, <2>3
<1>5. Harmless(req[r]) => Harmless(q)
  BY <1>1, <1>3 DEF Harmless
<1>6. T \subseteq {req[r].sent} /\ (T # {} => req[r].pc # "idle" /\ req[r].kind \in {"register", "login", "logout"})
  BY <1>1, <1>2
<1>7. ~Awaits(q)
  BY <1>1, <1>3 DEF Awaits
<1>. QED
  BY <1>2, <1>4, <1>5, <1>6, <1>7, ServerGoesOn

\* A request that was not let in is answered, or made a workspace for.
LEMMA RefusesKeeps ==
    ASSUME AccountsInv, NEW r \in Requests, Refuses(r)
    PROVE  AccountsInv'
<1>1. /\ req \in [Requests -> WebRequest] /\ req[r] \in WebRequest /\ req[r].pc = "refused" /\ req[r].kind # "login"
      /\ Carries(req[r], Len(sessions), Len(spaces))
      /\ Len(sessions) \in Nat /\ Len(spaces) \in Nat
      /\ req[r].sent \in Nat /\ req[r].clears \in BOOLEAN /\ 0 \in Nat /\ Len(sessions) + 1 \in Nat
      /\ UNCHANGED browser
  BY Served DEF Refuses, WebRequest
<1>2. \/ req[r].kind = "logout" /\ AnswersClearing(r) /\ UNCHANGED <<spaces, sessions>>
      \/ req[r].kind = "me" /\ AnswersClearing(r) /\ UNCHANGED <<spaces, sessions>>
      \/ req[r].kind = "me" /\ Answers(r, 0) /\ UNCHANGED <<spaces, sessions>>
      \/ /\ req[r].kind \notin {"logout", "me", "login"}
         /\ spaces' = Append(spaces, [owner |-> Nobody, expires |-> "later"])
         /\ sessions' = Append(sessions, [space |-> Len(spaces) + 1, user |-> Nobody, live |-> TRUE])
         /\ IF req[r].kind = "init" THEN Answers(r, Len(sessions) + 1)
            ELSE req' = [req EXCEPT ![r] = [@ EXCEPT !.pc = "new", !.sent = Len(sessions) + 1,
                                                     !.space = Len(spaces) + 1]]
  BY <1>1 DEF Refuses
<1>3. /\ Kept({}) /\ Owned'
      /\ \/ Len(sessions') = Len(sessions) /\ Len(spaces') = Len(spaces)
         \/ Len(sessions') = Len(sessions) + 1 /\ Len(spaces') = Len(spaces) + 1
  <2>1. CASE UNCHANGED <<spaces, sessions>>
    BY <2>1, StoreStays
  <2>2. CASE ~UNCHANGED <<spaces, sessions>>
    BY <1>2, <2>2, SpaceMade
  <2>. QED
    BY <2>1, <2>2
<1>4. PICK q \in WebRequest :
          /\ req' = [req EXCEPT ![r] = q] /\ q.kind = req[r].kind
          /\ \/ /\ q.pc = "answered" /\ q.kind \in {"logout", "me"} /\ q.sets \in {0, req[r].sets}
                /\ q.sent = req[r].sent /\ q.space = req[r].space
             \/ /\ q.pc = "answered" /\ q.kind = "init" /\ q.sets = Len(sessions) + 1
                /\ q.sent = req[r].sent /\ q.space = req[r].space
                /\ Len(sessions') = Len(sessions) + 1 /\ Len(spaces') = Len(spaces) + 1
             \/ /\ q.pc = "new" /\ q.kind \notin {"logout", "me", "login", "init"} /\ q.sets = req[r].sets
                /\ q.sent = Len(sessions) + 1 /\ q.space = Len(spaces) + 1 /\ q.email = req[r].email
                /\ Len(sessions') = Len(sessions) + 1 /\ Len(spaces') = Len(spaces) + 1
                /\ q.clears = req[r].clears
  <2>1. CASE req[r].kind \in {"logout", "me"} /\ AnswersClearing(r)
    <3>1. \E q \in WebRequest :
              /\ req' = [req EXCEPT ![r] = q] /\ q.pc = "answered"
              /\ q.kind = req[r].kind /\ q.sent = req[r].sent /\ q.space = req[r].space /\ q.email = req[r].email
              /\ q.sets = req[r].sets
      BY <2>1, AnswersCleared
    <3>. QED
      BY <2>1, <3>1
  <2>2. CASE req[r].kind = "me" /\ Answers(r, 0)
    <3>1. \E q \in WebRequest :
              /\ req' = [req EXCEPT ![r] = q] /\ q.pc = "answered"
              /\ q.kind = req[r].kind /\ q.sent = req[r].sent /\ q.space = req[r].space /\ q.email = req[r].email
              /\ q.sets = 0 /\ q.clears = req[r].clears
      BY <1>1, <2>2, AnswersSet
    <3>. QED
      BY <2>2, <3>1
  <2>3. ASSUME req[r].kind \notin {"logout", "me", "login"},
               spaces' = Append(spaces, [owner |-> Nobody, expires |-> "later"]),
               sessions' = Append(sessions, [space |-> Len(spaces) + 1, user |-> Nobody, live |-> TRUE])
        PROVE  Len(sessions') = Len(sessions) + 1 /\ Len(spaces') = Len(spaces) + 1
    BY <2>3, SpaceMade
  <2>4. CASE req[r].kind = "init" /\ Answers(r, Len(sessions) + 1)
    <3>1. \E q \in WebRequest :
              /\ req' = [req EXCEPT ![r] = q] /\ q.pc = "answered"
              /\ q.kind = req[r].kind /\ q.sent = req[r].sent /\ q.space = req[r].space /\ q.email = req[r].email
              /\ q.sets = Len(sessions) + 1 /\ q.clears = req[r].clears
      BY <1>1, <2>4, AnswersSet
    <3>2. Len(sessions') = Len(sessions) + 1 /\ Len(spaces') = Len(spaces) + 1
      BY <1>2, <2>3, <2>4
    <3>. QED
      BY <2>4, <3>1, <3>2
  <2>5. CASE /\ req[r].kind \notin {"logout", "me", "login", "init"}
             /\ req' = [req EXCEPT ![r] = [@ EXCEPT !.pc = "new", !.sent = Len(sessions) + 1,
                                                     !.space = Len(spaces) + 1]]
    <3>. DEFINE q == [req[r] EXCEPT !.pc = "new", !.sent = Len(sessions) + 1, !.space = Len(spaces) + 1]
    <3>1. Len(sessions') = Len(sessions) + 1 /\ Len(spaces') = Len(spaces) + 1
      BY <1>2, <2>3, <2>5
    <3>2. /\ q.pc = "new" /\ q.kind = req[r].kind /\ q.sets = req[r].sets
          /\ q.sent = Len(sessions) + 1 /\ q.space = Len(spaces) + 1 /\ q.email = req[r].email
          /\ q.clears = req[r].clears
      BY <1>1 DEF WebRequest
    <3>3. q \in WebRequest
      <4>1. Len(spaces) + 1 \in Nat
        BY <1>1
      <4>. QED
        BY <1>1, <4>1 DEF WebRequest
    <3>4. req' = [req EXCEPT ![r] = q]
      BY <1>1, <2>5
    <3>. QED
      BY <2>5, <3>1, <3>2, <3>3, <3>4
  <2>. QED
    BY <1>2, <2>1, <2>2, <2>4, <2>5
<1>5. req[r].kind # "tv"
  BY <1>1 DEF Carries
<1>6. Follows(r, q)
  BY <1>1, <1>4 DEF Follows, browser
<1>7. Carries(q, Len(sessions'), Len(spaces'))
  <2>1. q.kind \notin {"logout", "me", "login", "init"} => q.kind = "register"
    BY <1>1, <1>4, <1>5 DEF WebRequest, Kinds
  <2>. QED
    BY <1>1, <1>3, <1>4, <1>5, <2>1 DEF Carries, WebRequest
<1>8. ~Gives(q)
  BY <1>4, <1>5 DEF Gives
<1>9. ~Harmless(req[r])
  BY <1>1, <1>5 DEF Harmless
<1>10. {} \subseteq {req[r].sent} /\ ({} # {} => req[r].pc # "idle" /\ req[r].kind \in {"register", "login", "logout"})
  BY <1>1
<1>11. ~Awaits(q)
  BY <1>1, <1>4 DEF Awaits
<1>. QED
  BY <1>3, <1>6, <1>7, <1>8, <1>9, <1>10, <1>11, ServerGoesOn

\* A workspace is claimed, or not.
LEMMA ClaimsKeeps ==
    ASSUME AccountsInv, NEW r \in Requests, ClaimsSpace(r)
    PROVE  AccountsInv'
<1>1. /\ req \in [Requests -> WebRequest] /\ req[r] \in WebRequest /\ req[r].pc = "new" /\ req[r].kind = "register"
      /\ Carries(req[r], Len(sessions), Len(spaces))
      /\ Len(sessions) \in Nat /\ Len(spaces) \in Nat
      /\ req[r].sent \in Nat /\ UNCHANGED browser
      /\ \A w \in Numbers(spaces) : spaces[w] \in Space
  BY Served DEF ClaimsSpace, WebRequest
<1>2. req[r].space \in Numbers(spaces) /\ req[r].sent # 0 /\ req[r].email \in Emails
  BY <1>1 DEF Carries, Numbers
<1>3. {} \subseteq {req[r].sent} /\ ({} # {} => req[r].pc # "idle" /\ req[r].kind \in {"register", "login", "logout"})
  BY <1>1
<1>4. ~Harmless(req[r])
  BY <1>1 DEF Harmless
<1>5. CASE req[r].email \in Users \/ spaces[req[r].space].owner # Nobody
  <2>1. PICK q \in WebRequest :
              /\ req' = [req EXCEPT ![r] = q] /\ q.pc = "answered"
              /\ q.kind = req[r].kind /\ q.sent = req[r].sent /\ q.space = req[r].space /\ q.email = req[r].email
              /\ q.sets = req[r].sent /\ q.clears = req[r].clears
    BY <1>1, <1>5, AnswersSet DEF ClaimsSpace
  <2>2. Kept({}) /\ Owned' /\ spaces' = spaces /\ sessions' = sessions
    BY <1>5, StoreStays DEF ClaimsSpace
  <2>3. Follows(r, q) /\ Carries(q, Len(sessions'), Len(spaces')) /\ ~Gives(q)
    BY <1>1, <1>2, <2>1, <2>2 DEF Follows, browser, Carries, Gives
  <2>4. ~Awaits(q)
    BY <2>1 DEF Awaits
  <2>. QED
    BY <1>3, <1>4, <2>2, <2>3, <2>4, ServerGoesOn
<1>6. CASE ~(req[r].email \in Users \/ spaces[req[r].space].owner # Nobody)
  <2>. DEFINE n == Len(sessions) + 1
              q == [req[r] EXCEPT !.pc = "claimed", !.sets = n]
  <2>1. /\ Kept({}) /\ Owned' /\ Len(sessions') = Len(sessions) + 1 /\ Len(spaces') = Len(spaces)
        /\ LetsInThen(Len(sessions) + 1, req[r].email)
    BY <1>2, <1>6, SpaceClaimed DEF ClaimsSpace
  <2>7. n \in Nat /\ n = Len(sessions) + 1
    BY <1>1
  <2>3. req' = [req EXCEPT ![r] = q]
    BY <1>1, <1>6 DEF ClaimsSpace
  <2>. HIDE DEF n
  <2>2. /\ q \in WebRequest /\ q.pc = "claimed" /\ q.sets = Len(sessions) + 1
        /\ q.kind = req[r].kind /\ q.sent = req[r].sent /\ q.space = req[r].space /\ q.email = req[r].email
        /\ q.clears = req[r].clears
    BY <1>1, <2>7 DEF WebRequest
  <2>. HIDE DEF q
  <2>4. Follows(r, q)
    BY <1>1, <2>2, <2>3 DEF Follows, browser, Carries
  <2>5. Carries(q, Len(sessions'), Len(spaces'))
    BY <1>1, <1>2, <2>1, <2>2 DEF Carries
  <2>6. Gives(q) => q.sets = Len(sessions) + 1 /\ LetsInThen(q.sets, q.email)
    BY <2>1, <2>2
  <2>8. ~Awaits(q)
    BY <2>2 DEF Awaits
  <2>. QED
    BY <1>3, <1>4, <2>1, <2>4, <2>5, <2>6, <2>8, ServerGoesOn
<1>. QED
  BY <1>5, <1>6

\* The password is right: the workspace of the account is permanent again.
LEMMA AuthenticatesKeeps ==
    ASSUME AccountsInv, NEW r \in Requests, Authenticates(r)
    PROVE  AccountsInv'
<1>1. /\ req \in [Requests -> WebRequest] /\ req[r] \in WebRequest /\ req[r].pc = "asked" /\ req[r].kind = "login"
      /\ Carries(req[r], Len(sessions), Len(spaces)) /\ 0 \in Nat
      /\ Len(sessions) \in Nat /\ Len(spaces) \in Nat
      /\ sessions' = sessions /\ UNCHANGED browser
  BY Served DEF Authenticates
<1>2. {} \subseteq {req[r].sent} /\ ({} # {} => req[r].pc # "idle" /\ req[r].kind \in {"register", "login", "logout"})
  BY <1>1
<1>3. ~Harmless(req[r])
  BY <1>1 DEF Harmless
<1>4. CASE req[r].email \in Users
  <2>. DEFINE w == CHOOSE w \in Numbers(spaces) : spaces[w].owner = req[r].email
  <2>1. w \in Numbers(spaces)
    BY <1>4 DEF Users
  <2>2. spaces' = [spaces EXCEPT ![w].expires = "never"] /\ To(r, "known")
    BY <1>4 DEF Authenticates
  <2>. HIDE DEF w
  <2>3. Kept({}) /\ Owned'
    BY <1>1, <2>1, <2>2, ExpiryWritten
  <2>4. Len(spaces') = Len(spaces)
    <3>1. spaces' \in Seq(Space) /\ DOMAIN spaces' = DOMAIN spaces /\ spaces \in Seq(Space)
      BY <2>2, <2>3 DEF Owned, AccountsInv
    <3>. QED
      BY <3>1, LenProperties
  <2>5. PICK q \in WebRequest :
          /\ req' = [req EXCEPT ![r] = q] /\ q.pc = "known"
          /\ q.kind = req[r].kind /\ q.sent = req[r].sent /\ q.space = req[r].space /\ q.email = req[r].email
          /\ q.sets = req[r].sets /\ q.clears = req[r].clears
    BY <2>2, Moves
  <2>6. Follows(r, q) /\ Carries(q, Len(sessions'), Len(spaces')) /\ ~Gives(q)
    BY <1>1, <2>4, <2>5 DEF Follows, browser, Carries, Gives
  <2>7. NotPastThen(q.email)
    <3>1. /\ spaces \in Seq(Space) /\ \A v \in Numbers(spaces) : spaces'[v].owner = spaces[v].owner
          /\ spaces'[w].expires = "never" /\ Numbers(spaces') = Numbers(spaces)
          /\ \A v \in Numbers(spaces) : v # w => spaces[v].owner # req[r].email
      <4>1. spaces \in Seq(Space) /\ spaces[w] \in Space /\ spaces[w].owner = req[r].email
        BY <1>4, <2>1, ElementOfSeq DEF AccountsInv, Owned, Numbers, Users, w
      <4>2. req[r].email # Nobody
        BY <1>1, NobodyIsNone DEF Carries
      <4>3. \A v \in Numbers(spaces) : v # w => spaces[v].owner # req[r].email
        BY <2>1, <4>1, <4>2 DEF AccountsInv, Owned
      <4>4. /\ spaces'[w].expires = "never" /\ spaces'[w].owner = spaces[w].owner
            /\ \A v \in Numbers(spaces) \ {w} : spaces'[v] = spaces[v]
        BY <2>1, <2>2, <4>1, LenProperties DEF Space, Numbers
      <4>. QED
        BY <2>4, <4>1, <4>3, <4>4 DEF Numbers
    <3>. QED
      BY <2>5, <3>1 DEF NotPastThen
  <2>. QED
    BY <1>2, <1>3, <2>3, <2>6, <2>7, ServerGoesOn
<1>5. CASE req[r].email \notin Users
  <2>1. PICK q \in WebRequest :
              /\ req' = [req EXCEPT ![r] = q] /\ q.pc = "answered"
              /\ q.kind = req[r].kind /\ q.sent = req[r].sent /\ q.space = req[r].space /\ q.email = req[r].email
              /\ q.sets = 0 /\ q.clears = req[r].clears
    BY <1>1, <1>5, AnswersSet DEF Authenticates
  <2>2. Kept({}) /\ Owned' /\ spaces' = spaces
    BY <1>1, <1>5, StoreStays DEF Authenticates
  <2>3. Follows(r, q) /\ Carries(q, Len(sessions'), Len(spaces')) /\ ~Gives(q)
    BY <1>1, <2>1, <2>2 DEF Follows, browser, Carries, Gives
  <2>4. ~Awaits(q)
    BY <2>1 DEF Awaits
  <2>. QED
    BY <1>2, <1>3, <2>2, <2>3, <2>4, ServerGoesOn
<1>. QED
  BY <1>4, <1>5

\* The session of the sign-in is made.
LEMMA StartsKeeps ==
    ASSUME AccountsInv, NEW r \in Requests, Starts(r)
    PROVE  AccountsInv'
<1>1. /\ req \in [Requests -> WebRequest] /\ req[r] \in WebRequest
      /\ req[r].pc \in {"slid", "refused"} /\ req[r].kind = "login"
      /\ Carries(req[r], Len(sessions), Len(spaces)) /\ 0 \in Nat
      /\ Len(sessions) \in Nat /\ Len(spaces) \in Nat
      /\ spaces' = spaces /\ UNCHANGED browser
  BY Served DEF Starts
<1>2. {} \subseteq {req[r].sent} /\ ({} # {} => req[r].pc # "idle" /\ req[r].kind \in {"register", "login", "logout"})
  BY <1>1
<1>3. ~Harmless(req[r]) /\ req[r].email \in Emails
  BY <1>1 DEF Harmless, Carries
<1>4. PICK w \in Numbers(spaces) :
          /\ spaces[w].owner = req[r].email
          /\ sessions' = Append(sessions, [space |-> w, user |-> req[r].email, live |-> TRUE])
  BY DEF Starts
<1>5. /\ Kept({}) /\ Owned' /\ Len(sessions') = Len(sessions) + 1
      /\ spaces[w].expires # "past" => LetsInThen(Len(sessions) + 1, req[r].email)
  <2>1. req[r].email \in Owner
    BY <1>3 DEF Owner
  <2>. QED
    BY <1>1, <1>4, <2>1, SessionMade
<1>. DEFINE n == Len(sessions) + 1
            old == IF req[r].pc = "slid" THEN req[r].sent ELSE 0
            q == [req[r] EXCEPT !.pc = "claimed", !.sets = n, !.sent = old]
<1>6. req' = [req EXCEPT ![r] = q]
  <2>1. req' = [req EXCEPT ![r] = [req[r] EXCEPT !.pc = "claimed", !.sets = Len(sessions) + 1, !.sent = old]]
    BY <1>1 DEF Starts
  <2>. QED
    BY <2>1
<1>7. n \in Nat /\ n = Len(sessions) + 1 /\ old \in Nat /\ old \in {0, req[r].sent}
  BY <1>1 DEF WebRequest
<1>. HIDE DEF n, old
<1>8. /\ q \in WebRequest /\ q.pc = "claimed" /\ q.sets = Len(sessions) + 1
      /\ q.kind = req[r].kind /\ q.sent \in {0, req[r].sent} /\ q.space = req[r].space /\ q.email = req[r].email
      /\ q.clears = req[r].clears
  BY <1>1, <1>7 DEF WebRequest
<1>. HIDE DEF q
<1>9. Follows(r, q)
  BY <1>1, <1>6, <1>8 DEF Follows, browser, Carries
<1>10. Carries(q, Len(sessions'), Len(spaces'))
  BY <1>1, <1>5, <1>8 DEF Carries
<1>11. spaces[w].expires # "past"
  BY <1>1, <1>4 DEF AccountsInv, OpenOnLogin, Awaits, NotPast
<1>12. Gives(q) => q.sets = Len(sessions) + 1 /\ LetsInThen(q.sets, q.email)
  BY <1>5, <1>8, <1>11
<1>13. ~Awaits(q)
  BY <1>8 DEF Awaits
<1>. QED
  BY <1>2, <1>3, <1>5, <1>9, <1>10, <1>12, <1>13, ServerGoesOn

\* The old session is revoked.
LEMMA RevokesOldKeeps ==
    ASSUME AccountsInv, NEW r \in Requests, RevokesOld(r)
    PROVE  AccountsInv'
<1>1. /\ req \in [Requests -> WebRequest] /\ req[r] \in WebRequest
      /\ req[r].pc = "claimed" /\ req[r].kind \in {"register", "login"}
      /\ Carries(req[r], Len(sessions), Len(spaces))
      /\ Len(sessions) \in Nat /\ Len(spaces) \in Nat
      /\ spaces' = spaces /\ UNCHANGED browser
  BY Served DEF RevokesOld, Carries
<1>2. CASE req[r].sent = 0
  <2>1. Kept({}) /\ Owned' /\ sessions' = sessions
    BY <1>1, <1>2, StoreStays DEF RevokesOld
  <2>2. PICK q \in WebRequest :
          /\ req' = [req EXCEPT ![r] = q] /\ q.pc = "answered"
          /\ q.kind = req[r].kind /\ q.sent = req[r].sent /\ q.space = req[r].space /\ q.email = req[r].email
          /\ q.sets = req[r].sets /\ q.clears = req[r].clears
    BY Moves DEF RevokesOld
  <2>3. Follows(r, q) /\ Carries(q, Len(sessions'), Len(spaces'))
    BY <1>1, <2>1, <2>2 DEF Follows, browser, Carries
  <2>4. Gives(q) => Gives(req[r]) /\ q.sets = req[r].sets /\ q.email = req[r].email
    BY <1>1, <2>2 DEF Gives
  <2>5. {} \subseteq {req[r].sent} /\ ({} # {} => req[r].pc # "idle" /\ req[r].kind \in {"register", "login", "logout"})
    BY <1>1
  <2>6. ~Harmless(req[r])
    BY <1>1 DEF Harmless
  <2>7. ~Awaits(q)
    BY <2>2 DEF Awaits
  <2>. QED
    BY <2>1, <2>3, <2>4, <2>5, <2>6, <2>7, ServerGoesOn
<1>3. CASE req[r].sent # 0
  <2>1. Kept({req[r].sent}) /\ Owned' /\ sessions' = Revoked(req[r].sent)
    <3>1. req[r].sent \in Numbers(sessions)
      BY <1>1, <1>3 DEF Carries, Numbers
    <3>. QED
      BY <1>1, <1>3, <3>1, SessionRevoked DEF RevokesOld
  <2>2. PICK q \in WebRequest :
          /\ req' = [req EXCEPT ![r] = q] /\ q.pc = "answered"
          /\ q.kind = req[r].kind /\ q.sent = req[r].sent /\ q.space = req[r].space /\ q.email = req[r].email
          /\ q.sets = req[r].sets /\ q.clears = req[r].clears
    BY Moves DEF RevokesOld
  <2>3. Len(sessions') = Len(sessions)
    <3>1. sessions' \in Seq(Session) /\ DOMAIN sessions' = DOMAIN sessions /\ sessions \in Seq(Session)
      BY <2>1 DEF Owned, AccountsInv, Revoked
    <3>. QED
      BY <3>1, LenProperties
  <2>4. Follows(r, q) /\ Carries(q, Len(sessions'), Len(spaces'))
    BY <1>1, <2>2, <2>3 DEF Follows, browser, Carries
  <2>5. Gives(q) => Gives(req[r]) /\ q.sets = req[r].sets /\ q.email = req[r].email
    BY <1>1, <2>2 DEF Gives
  <2>6. /\ {req[r].sent} \subseteq {req[r].sent}
        /\ {req[r].sent} # {} => req[r].pc # "idle" /\ req[r].kind \in {"register", "login", "logout"}
    BY <1>1
  <2>7. ~Harmless(req[r])
    BY <1>1 DEF Harmless
  <2>8. ~Awaits(q)
    BY <2>2 DEF Awaits
  <2>. QED
    BY <2>1, <2>4, <2>5, <2>6, <2>7, <2>8, ServerGoesOn
<1>. QED
  BY <1>2, <1>3

\* A request is sent with the cookie, or given up.
LEMMA SendsKeeps ==
    ASSUME AccountsInv, NEW r \in Requests,
           Sends(r) \/ Lost(r) \/ \E w \in Numbers(spaces) : TvSends(r, w)
    PROVE  AccountsInv'
<1>1. /\ req \in [Requests -> WebRequest] /\ req[r] \in WebRequest
      /\ Len(sessions) \in Nat /\ Len(spaces) \in Nat /\ cookie \in 0 .. Len(sessions)
      /\ spaces' = spaces /\ sessions' = sessions
  BY Served DEF Sends, Sent, Lost, TvSends
<1>2. Kept({}) /\ Owned'
  BY <1>1, StoreStays
<1>3. PICK q \in WebRequest :
        /\ Follows(r, q) /\ q.sets = 0 /\ ~q.clears /\ q.pc \in {"idle", "asked"}
        /\ q.pc = "asked" =>
              \/ q.kind \in {"me", "init"} /\ q.sent = cookie /\ q.space = 0
              \/ q.kind \in {"register", "login", "logout"} /\ q.sent = cookie /\ q.space = 0 /\ signed' = Nobody
                 /\ (q.kind # "logout" => q.email \in Emails)
              \/ q.kind = "tv" /\ q.sent = 0 /\ q.space \in Numbers(spaces)
        /\ q.pc = "idle" => q = NoRequest
  <2>1. ASSUME NEW kind \in {"me", "init", "logout", "register", "login"}, NEW e \in Owner, Sent(r, kind, e),
               kind \in {"register", "login"} => e \in Emails
        PROVE  \E q \in WebRequest :
                 /\ Follows(r, q) /\ q.sets = 0 /\ ~q.clears /\ q.pc = "asked" /\ q.kind = kind
                 /\ q.sent = cookie /\ q.space = 0 /\ q.email = e
                 /\ kind \in {"register", "login", "logout"} => signed' = Nobody
    <3>. DEFINE q == [NoRequest EXCEPT !.kind = kind, !.pc = "asked", !.sent = cookie, !.email = e]
    <3>1. /\ q.sets = 0 /\ ~q.clears /\ q.pc = "asked" /\ q.kind = kind
          /\ q.sent = cookie /\ q.space = 0 /\ q.email = e
      BY DEF NoRequest
    <3>2. q \in WebRequest
      <4>1. NoRequest \in WebRequest
        BY DEF NoRequest, WebRequest, Kinds, Owner
      <4>2. cookie \in Nat /\ kind \in Kinds
        BY <1>1 DEF Kinds
      <4>. QED
        BY <4>1, <4>2 DEF WebRequest
    <3>3. req' = [req EXCEPT ![r] = q]
      BY <2>1 DEF Sent
    <3>. HIDE DEF q
    <3>4. Follows(r, q)
      BY <1>1, <2>1, <3>1, <3>2, <3>3 DEF Follows, Sent
    <3>. QED
      BY <2>1, <3>1, <3>2, <3>4 DEF Sent
  <2>2. CASE Sends(r)
    <3>1. CASE \E kind \in {"me", "init", "logout"} : Sent(r, kind, Nobody)
      BY <2>1, <3>1 DEF Owner
    <3>2. CASE \E kind \in {"register", "login"}, e \in Emails : Sent(r, kind, e)
      BY <2>1, <3>2 DEF Owner
    <3>. QED
      BY <2>2, <3>1, <3>2 DEF Sends
  <2>3. CASE Lost(r)
    <3>1. NoRequest \in WebRequest /\ NoRequest.sets = 0 /\ ~NoRequest.clears /\ NoRequest.pc = "idle" /\ NoRequest.sent = 0
      BY DEF NoRequest, WebRequest, Kinds, Owner
    <3>2. Follows(r, NoRequest)
      BY <1>1, <2>3, <3>1 DEF Follows, Lost, browser
    <3>. QED
      BY <3>1, <3>2
  <2>4. ASSUME NEW w \in Numbers(spaces), TvSends(r, w)
        PROVE  \E q \in WebRequest :
                 /\ Follows(r, q) /\ q.sets = 0 /\ ~q.clears /\ q.pc = "asked" /\ q.kind = "tv"
                 /\ q.sent = 0 /\ q.space = w
    <3>. DEFINE q == [NoRequest EXCEPT !.kind = "tv", !.pc = "asked", !.space = w]
    <3>1. /\ q.sets = 0 /\ ~q.clears /\ q.pc = "asked" /\ q.kind = "tv" /\ q.sent = 0 /\ q.space = w
      BY DEF NoRequest
    <3>2. q \in WebRequest
      <4>1. NoRequest \in WebRequest
        BY DEF NoRequest, WebRequest, Kinds, Owner
      <4>2. w \in Nat /\ "tv" \in Kinds
        BY <1>1 DEF Kinds, Numbers
      <4>. QED
        BY <4>1, <4>2 DEF WebRequest
    <3>3. req' = [req EXCEPT ![r] = q]
      BY <2>4 DEF TvSends
    <3>. HIDE DEF q
    <3>4. Follows(r, q)
      BY <1>1, <2>4, <3>1, <3>2, <3>3 DEF Follows, TvSends, browser
    <3>. QED
      BY <3>1, <3>2, <3>4
  <2>. QED
    BY <2>2, <2>3, <2>4
<1>4. Carries(q, Len(sessions'), Len(spaces'))
  BY <1>1, <1>3 DEF Carries, Numbers, NoRequest
<1>5. ~Gives(q) /\ ~Awaits(q)
  BY <1>3 DEF Gives, Awaits
<1>6. signed' # Nobody => Harmless(q)
  BY <1>3 DEF Harmless
<1>7. {} \subseteq {req[r].sent} /\ ({} # {} => req[r].pc # "idle" /\ req[r].kind \in {"register", "login", "logout"})
  OBVIOUS
<1>. QED
  BY <1>2, <1>3, <1>4, <1>5, <1>6, <1>7, ServerGoesOn

\* The browser stores what an answer sets.
LEMMA HeardKeeps ==
    ASSUME AccountsInv, NEW r \in Requests, Heard(r)
    PROVE  AccountsInv'
<1>. DEFINE q == req[r]
            ok == q.sets # 0
            in == q.kind \in {"register", "login"} /\ ok /\ q.sets # q.sent
<1>1. /\ req \in [Requests -> WebRequest] /\ q \in WebRequest /\ q.pc = "answered"
      /\ Carries(q, Len(sessions), Len(spaces))
      /\ Len(sessions) \in Nat /\ Len(spaces) \in Nat /\ cookie \in 0 .. Len(sessions)
      /\ spaces' = spaces /\ sessions' = sessions
      /\ req' = [req EXCEPT ![r] = NoRequest]
  BY Served DEF Heard
<1>2. /\ cookie' = IF ok THEN q.sets ELSE IF q.clears THEN 0 ELSE cookie
      /\ IF in THEN signed' = q.email /\ crossed' = \E s \in Busy \ {r} : req[s].kind # "tv"
         ELSE UNCHANGED <<signed, crossed>>
  BY DEF Heard
<1>3. NoRequest \in WebRequest /\ Carries(NoRequest, Len(sessions), Len(spaces)) /\ NoRequest.sent = 0 /\ NoRequest.sets = 0 /\ NoRequest.pc = "idle"
  BY <1>1 DEF NoRequest, WebRequest, Kinds, Owner, Carries
<1>4. req'[r] = NoRequest /\ \A s \in Requests \ {r} : req'[s] = req[s]
  BY <1>1
<1>5. BrowserTyped'
  BY <1>1, <1>2 DEF AccountsInv, BrowserTyped, Carries, WebRequest
<1>6. Requested'
  BY <1>1, <1>3, <1>4 DEF AccountsInv, Requested
<1>7. Owned'
  BY <1>1, StoreStays
<1>8. OpenOnLogin'
  BY <1>1, <1>3, <1>4 DEF AccountsInv, OpenOnLogin, Awaits, NotPast
<1>9. NewIsOwn'
  <2>. SUFFICES ASSUME NEW s \in Requests, Gives(req'[s])
                PROVE  /\ LetsIn(req'[s].sets, req'[s].email) /\ cookie' # req'[s].sets
                       /\ \A u \in Requests : req'[u].sent # req'[s].sets /\ (u # s => req'[u].sets # req'[s].sets)
    BY <1>1 DEF NewIsOwn, LetsIn, Gives
  <2>1. s # r /\ req'[s] = req[s] /\ Gives(req[s]) /\ req[s].sets # 0
    BY <1>3, <1>4 DEF Gives
  <2>2. /\ LetsIn(req[s].sets, req[s].email) /\ cookie # req[s].sets
        /\ \A u \in Requests : req[u].sent # req[s].sets /\ (u # s => req[u].sets # req[s].sets)
    BY <2>1 DEF AccountsInv, NewIsOwn
  <2>3. cookie' # req[s].sets
    BY <1>2, <2>1, <2>2
  <2>. QED
    BY <1>3, <1>4, <2>1, <2>2, <2>3
<1>10. SignedIn'
  <2>. SUFFICES ASSUME signed' # Nobody, ~crossed'
                PROVE  cookie' # 0 /\ LetsIn(cookie', signed') /\ \A s \in Requests : Harmless(req[s])'
    BY <1>1 DEF SignedIn, LetsIn
  <2>1. CASE in
    <3>1. cookie' = q.sets /\ signed' = q.email /\ LetsIn(q.sets, q.email) /\ q.sets # 0
      BY <1>1, <1>2, <2>1 DEF AccountsInv, NewIsOwn, Gives
    <3>2. ASSUME NEW s \in Requests PROVE Harmless(req[s])'
      BY <1>2, <1>3, <1>4, <2>1 DEF Harmless, Busy
    <3>. QED
      BY <3>1, <3>2
  <2>2. CASE ~in
    <3>1. signed' = signed /\ crossed' = crossed
      BY <1>2, <2>2
    <3>2. cookie # 0 /\ LetsIn(cookie, signed) /\ \A s \in Requests : Harmless(req[s])
      BY <3>1 DEF AccountsInv, SignedIn
    <3>3. cookie' = cookie
      BY <1>1, <1>2, <3>2 DEF Harmless, Carries
    <3>4. ASSUME NEW s \in Requests PROVE Harmless(req[s])'
      BY <1>3, <1>4, <3>2, <3>3 DEF Harmless
    <3>. QED
      BY <3>1, <3>2, <3>3, <3>4
  <2>. QED
    BY <2>1, <2>2
<1>. QED
  BY <1>5, <1>6, <1>7, <1>8, <1>9, <1>10 DEF AccountsInv

\* A month passes.
LEMMA MonthKeeps ==
    ASSUME AccountsInv, MonthPasses
    PROVE  AccountsInv'
<1>1. /\ Busy = {} /\ cookie' = 0 /\ signed' = Nobody /\ crossed' = crossed /\ req' = req
      /\ spaces \in Seq(Space) /\ sessions \in Seq(Session)
  BY DEF MonthPasses, AccountsInv, Owned
<1>2. /\ Len(sessions) \in Nat /\ Len(spaces) \in Nat
      /\ \A w \in 1 .. Len(spaces) : spaces[w] \in Space
      /\ \A t \in 1 .. Len(sessions) : sessions[t] \in Session
  BY <1>1, LenProperties, ElementOfSeq
<1>3. /\ spaces' \in [1 .. Len(spaces) -> Space]
      /\ \A w \in 1 .. Len(spaces) : spaces'[w].owner = spaces[w].owner
  BY <1>2 DEF MonthPasses, Numbers, Space
<1>4. /\ sessions' \in [1 .. Len(sessions) -> Session]
      /\ \A t \in 1 .. Len(sessions) : sessions'[t].user = sessions[t].user /\ sessions'[t].space = sessions[t].space
  BY <1>2 DEF MonthPasses, Numbers, Session
<1>5. /\ spaces' \in Seq(Space) /\ Len(spaces') = Len(spaces)
      /\ sessions' \in Seq(Session) /\ Len(sessions') = Len(sessions)
  BY <1>2, <1>3, <1>4, Rewritten
<1>6. Owned'
  BY <1>3, <1>4, <1>5 DEF AccountsInv, Owned, Numbers
<1>7. \A r \in Requests : req[r].pc = "idle"
  BY <1>1 DEF Busy
<1>8. Requested' /\ BrowserTyped'
  BY <1>1, <1>2, <1>5 DEF AccountsInv, Requested, BrowserTyped, Owner
<1>9. NewIsOwn' /\ OpenOnLogin' /\ SignedIn'
  BY <1>1, <1>7 DEF NewIsOwn, OpenOnLogin, SignedIn, Gives, Awaits
<1>. QED
  BY <1>6, <1>8, <1>9 DEF AccountsInv

-----------------------------------------------------------------------------
(* The theorems                                                             *)

\* It holds at the start.
LEMMA AccountsStart == AccountsInit => AccountsInv
<1>. SUFFICES ASSUME AccountsInit PROVE AccountsInv
  OBVIOUS
<1>. DEFINE w == [owner |-> Nobody, expires |-> "later"]
            t == [space |-> 1, user |-> Nobody, live |-> TRUE]
<1>1. w \in Space /\ t \in Session /\ t.space = 1 /\ t.user = Nobody /\ w.owner = Nobody
  BY DEF Space, Session, Owner
<1>2. spaces = <<w>> /\ sessions = <<t>>
  BY DEF AccountsInit
<1>. HIDE DEF w, t
<1>3. /\ spaces \in Seq(Space) /\ Len(spaces) = 1 /\ spaces[1] = w
      /\ sessions \in Seq(Session) /\ Len(sessions) = 1 /\ sessions[1] = t
  BY <1>1, <1>2
<1>4. Owned
  BY <1>1, <1>3 DEF Owned, Numbers
<1>5. NoRequest \in WebRequest /\ Carries(NoRequest, 1, 1) /\ NoRequest.pc = "idle"
  BY DEF NoRequest, WebRequest, Kinds, Owner, Carries
<1>6. req \in [Requests -> WebRequest] /\ \A r \in Requests : req[r] = NoRequest
  BY <1>5 DEF AccountsInit
<1>7. Requested
  BY <1>3, <1>5, <1>6 DEF Requested
<1>8. BrowserTyped
  <2>1. cookie = 1 /\ Len(sessions) = 1
    BY <1>3 DEF AccountsInit
  <2>2. 1 \in 0 .. 1
    OBVIOUS
  <2>3. cookie \in 0 .. Len(sessions)
    BY <2>1, <2>2
  <2>4. signed \in Owner /\ crossed \in BOOLEAN
    BY DEF AccountsInit, Owner
  <2>. QED
    BY <2>3, <2>4 DEF BrowserTyped
<1>9. NewIsOwn /\ OpenOnLogin /\ SignedIn
  BY <1>5, <1>6 DEF AccountsInit, NewIsOwn, OpenOnLogin, SignedIn, Gives, Awaits
<1>. QED
  BY <1>4, <1>7, <1>8, <1>9 DEF AccountsInv

\* Every step keeps it.
LEMMA AccountsGoOn == AccountsInv /\ [AccountsNext]_acctVars => AccountsInv'
<1>. SUFFICES ASSUME AccountsInv, [AccountsNext]_acctVars PROVE AccountsInv'
  OBVIOUS
<1>1. CASE UNCHANGED acctVars
  <2>1. /\ spaces' = spaces /\ sessions' = sessions /\ cookie' = cookie
        /\ req' = req /\ signed' = signed /\ crossed' = crossed
    BY <1>1 DEF acctVars
  <2>2. BrowserTyped' /\ Requested' /\ Owned'
    BY <2>1 DEF AccountsInv, BrowserTyped, Requested, Owned
  <2>3. NewIsOwn' /\ OpenOnLogin' /\ SignedIn'
    BY <2>1 DEF AccountsInv, NewIsOwn, OpenOnLogin, SignedIn, LetsIn, NotPast, Harmless
  <2>. QED
    BY <2>2, <2>3 DEF AccountsInv
<1>2. ASSUME NEW r \in Requests, Sends(r) \/ Heard(r) \/ Lost(r) \/ Server(r) PROVE AccountsInv'
  BY <1>2, SendsKeeps, HeardKeeps, ValidatesKeeps, SlidesKeeps, ServesKeeps, RefusesKeeps,
     ClaimsKeeps, AuthenticatesKeeps, StartsKeeps, RevokesOldKeeps DEF Server
<1>3. ASSUME NEW r \in Requests, NEW w \in Numbers(spaces), TvSends(r, w) PROVE AccountsInv'
  BY <1>3, SendsKeeps
<1>. QED
  BY <1>1, <1>2, <1>3, MonthKeeps DEF AccountsNext

\* The inductive invariant of the accounts holds throughout.
THEOREM AccountsInvariant == AccountsSpec => []AccountsInv
BY AccountsStart, AccountsGoOn, PTL DEF AccountsSpec

\* Workspaces, sessions and requests keep their types: no request carries a
\* session or a workspace that there is not.
THEOREM AccountsTyped == AccountsSpec => []AccountsTypeOK
<1>1. AccountsInv => AccountsTypeOK
  BY DEF AccountsInv, BrowserTyped, Requested, Owned, AccountsTypeOK
<1>. QED
  BY <1>1, AccountsInvariant, PTL

\* An account owns one workspace, and the sessions of a user are of his workspace,
\* however registrations overlap (accountAuth.ts: registerWorkspaceAccount,
\* authenticateAccount).
THEOREM OneWorkspace == AccountsSpec => []OneWorkspacePerAccount
<1>1. AccountsInv => OneWorkspacePerAccount
  BY DEF AccountsInv, Owned, OneWorkspacePerAccount
<1>. QED
  BY <1>1, AccountsInvariant, PTL

\* A browser whose sign-in was answered stays signed in, unless the answer crossed
\* with another request (sessionAuth.ts: validateSessionToken, the routes of
\* api/auth and api/session).
THEOREM StaysSignedIn == AccountsSpec => []SignedInUnlessCrossed
<1>1. AccountsInv => SignedInUnlessCrossed
  BY DEF AccountsInv, SignedIn, LetsIn, SignedInUnlessCrossed
<1>. QED
  BY <1>1, AccountsInvariant, PTL

-----------------------------------------------------------------------------
(* The pairing of a TV.                                                     *)
(*                                                                          *)
(* A refusal is the last of many steps: a row is read, and by the time the  *)
(* TV hears of it the row may be approved, expired or deleted.  So the      *)
(* invariant follows a poll from its read to its answer: at each of its     *)
(* steps there is a reason that speaks for the refusal to come (Final,      *)
(* ReasonHolds, AnswerHolds), and reasons last (FinalStays).  A row that    *)
(* is shown may be deleted under its TV only for such a reason (Shown):     *)
(* for that, calls of the TV carry tokens older than the device of the      *)
(* code, and a code has no device before it was shown (Coded).              *)

\* Token t is the one device d has, or there is a reason that it is not.
Current(t, d) == devices[d].revoked \/ devices[d].unheard \/ devices[d].token = t

\* A TV that shows code c may be told to start again.
Final(c) ==
    \/ pairings[c].device = 0 /\ pairings[c].status # "pending"
    \/ pairings[c].late
    \/ pairings[c].device # 0 /\ devices[pairings[c].device].revoked
    \/ Len(pairings) > c

\* Types; the code shown is one of the rows.
Typed == TypeOK /\ Len(pairings) <= MaxPairings /\ job.code \in 0 .. Len(pairings)

\* Only an approved row has a device, and only the codes shown so far have one.
Coded ==
    \A p \in Ids(pairings) :
        /\ pairings[p].device \in 0 .. Len(devices)
        /\ pairings[p].status = "approved" => pairings[p].device # 0
        /\ pairings[p].status = "pending" => pairings[p].device = 0
        /\ pairings[p].status = "expired" => pairings[p].late
        /\ p > job.code => pairings[p].device = 0

\* Approvals are of codes that were shown.
Unapproved == \A p \in 1 .. MaxPairings : p > job.code => approvals[p] = 0

\* An old request has no answer.
OldIsLost == starts["old"].pc # "answered" /\ polls["old"].pc # "answered"

\* What a poll has read is still there.
PollHolds(r) ==
    /\ r.pc \in {"found", "issuing"} => r.device \in Ids(devices)
    /\ r.pc = "lapsing" => r.row \in Ids(pairings) /\ pairings[r.row].late

Polled == \A s \in Slots : PollHolds(polls[s])

\* An answer that waits for the TV is true, and does not become false.
AnswerHolds(r) ==
    r.pc = "answered" =>
        /\ r.says # ""
        /\ r.says = "approved" => r.token \in 1 .. minted /\ r.device \in Ids(devices) /\ Current(r.token, r.device)
        /\ r.says \in {"denied", "expired"} => Final(job.code)

\* A poll on its way to a refusal has a reason.
ReasonHolds(r) ==
    /\ r.pc = "lapsing" => Final(job.code)
    /\ r.pc = "found" => Final(job.code) \/ r.device = pairings[job.code].device

\* The job's own requests are those it waits for; it has a code, and no token.
JobHolds ==
    /\ polls["own"].pc # "idle" => job.pc = "asking"
    /\ starts["own"].pc # "idle" => job.pc = "starting"
    /\ starts["own"].pc = "answered" => starts["own"].row \in job.code + 1 .. Len(pairings)
    /\ job.pc # "none" => token.id = 0
    /\ job.pc \in {"waiting", "asking", "refused"} => job.code # 0

\* The stored token is current.
TokenHolds == token.id # 0 => token.device # 0 /\ Current(token.id, token.device)

\* The device of the code on the screen has no token that a call carries, and the
\* row was not deleted without a reason.
Shown ==
    job.pc \in {"waiting", "asking"} =>
        LET p == pairings[job.code] IN
        p.device # 0 =>
            /\ devices[p.device].token # 0 => devices[p.device].token # call.id
            /\ p.status = "gone" => p.late \/ devices[p.device].revoked

\* A refusal was right.
Refused == job.pc = "refused" => Final(job.code)

\* The inductive invariant.
PairingInv ==
    /\ Typed /\ Coded /\ Unapproved /\ OldIsLost /\ Polled
    /\ AnswerHolds(polls["own"]) /\ ReasonHolds(polls["own"])
    /\ JobHolds /\ TokenHolds /\ Shown /\ Refused

-----------------------------------------------------------------------------
(* Sequences                                                                *)

\* One element of a sequence is replaced.
LEMMA Changed ==
    ASSUME NEW S, NEW s \in Seq(S), NEW i \in 1 .. Len(s), NEW e \in S
    PROVE  /\ [s EXCEPT ![i] = e] \in Seq(S) /\ Len([s EXCEPT ![i] = e]) = Len(s)
           /\ \A j \in 1 .. Len(s) : [s EXCEPT ![i] = e][j] = IF j = i THEN e ELSE s[j]
BY ExceptSeq

\* An element is added at the end.
LEMMA RowAppended ==
    ASSUME NEW S, NEW s \in Seq(S), NEW e \in S
    PROVE  /\ Append(s, e) \in Seq(S) /\ Len(Append(s, e)) = Len(s) + 1 /\ Len(s) \in Nat
           /\ \A i \in 1 .. Len(s) : Append(s, e)[i] = s[i]
           /\ Append(s, e)[Len(s) + 1] = e
<1>1. Len(s) \in Nat
  BY LenProperties
<1>. QED
  BY <1>1

\* A function on 1 .. n is a sequence.
LEMMA Mapped ==
    ASSUME NEW S, NEW n \in Nat, NEW f \in [1 .. n -> S]
    PROVE  f \in Seq(S) /\ Len(f) = n
<1>1. f \in Seq(S)
  OBVIOUS
<1>. QED
  BY <1>1, LenProperties

\* A set of numbers that is not empty has a smallest.
LEMMA Smallest ==
    ASSUME NEW T, T \subseteq Nat, T # {}
    PROVE  \E n \in T : \A m \in T : n <= m
<1>. DEFINE Less == OpToRel(<, Nat)
<1>1. IsWellFoundedOn(Less, Nat)
  BY NatLessThanWellFounded
<1>2. \A m, n \in Nat : m < n => <<m, n>> \in Less
  BY DEF OpToRel
<1>. HIDE DEF Less
<1>3. PICK n \in T : \A m \in T : ~(<<m, n>> \in Less)
  BY <1>1, WFMin
<1>4. \A m \in T : n \in Nat /\ m \in Nat /\ ~(m < n)
  BY <1>2, <1>3
<1>. QED
  BY <1>4

\* The latest row of a secret is the last one that is not deleted.
LEMMA LatestIsLast ==
    ASSUME Typed
    PROVE  \/ Latest = 0 /\ Rows = {}
           \/ Latest \in Rows /\ \A q \in Rows : q <= Latest
<1>1. Len(pairings) \in Nat /\ Rows \subseteq 1 .. Len(pairings)
  BY LenProperties DEF Typed, TypeOK, Rows, Ids
<1>2. CASE Rows = {}
  BY <1>2 DEF Latest
<1>3. CASE Rows # {}
  <2>. DEFINE Below == {Len(pairings) - p : p \in Rows}
  <2>1. \A p \in Rows : p \in Nat /\ Len(pairings) - p \in Nat
    BY <1>1
  <2>2. PICK n \in Below : \A m \in Below : n <= m
    BY <2>1, <1>3, Smallest
  <2>3. PICK p \in Rows : n = Len(pairings) - p
    BY <2>2
  <2>4. \A q \in Rows : q <= p
    <3>. TAKE q \in Rows
    <3>1. Len(pairings) - q \in Below
      OBVIOUS
    <3>2. n <= Len(pairings) - q
      BY <2>2, <3>1
    <3>. QED
      BY <2>1, <2>3, <3>2, <1>1
  <2>. QED
    BY <1>3, <2>4 DEF Latest
<1>. QED
  BY <1>2, <1>3

\* Rows and devices are records of their sets.
LEMMA Records ==
    ASSUME Typed
    PROVE  /\ Len(pairings) \in Nat /\ Len(devices) \in Nat
           /\ \A p \in Ids(pairings) : pairings[p] \in Pairing
           /\ \A d \in Ids(devices) : devices[d] \in Device
<1>1. pairings \in Seq(Pairing) /\ devices \in Seq(Device)
  BY DEF Typed, TypeOK
<1>. QED
  BY <1>1, LenProperties, ElementOfSeq DEF Ids

-----------------------------------------------------------------------------
(* The server goes on                                                       *)

\* What a step may do to a row (n devices before it; may: the code was shown).
RowGoesOn(a, b, n, may) ==
    /\ a.late => b.late
    /\ \/ b.device = a.device /\ b.status \in {a.status, "gone"}
       \/ b.device = a.device /\ b.late /\ a.status # "gone" /\ b.status = "expired"
       \/ may /\ a.status = "pending" /\ b.status = "approved" /\ b.device = n + 1

\* What a step may do to a device.
DeviceGoesOn(a, b) ==
    /\ a.revoked => b.revoked
    /\ a.unheard => b.unheard
    /\ b.token = a.token \/ (b.token = 0 /\ b.revoked)

\* Rows and devices go on, and no token is made.
Evolves ==
    /\ pairings' \in Seq(Pairing) /\ devices' \in Seq(Device)
    /\ Len(pairings') \in Len(pairings) .. MaxPairings
    /\ Len(devices') \in Nat /\ Len(devices) <= Len(devices')
    /\ \A p \in Ids(pairings) :
          /\ RowGoesOn(pairings[p], pairings'[p], Len(devices), p <= job.code)
          /\ pairings'[p].device <= Len(devices')
    /\ \A p \in Len(pairings) + 1 .. Len(pairings') : pairings'[p].status = "pending" /\ pairings'[p].device = 0
    /\ \A d \in Ids(devices) : DeviceGoesOn(devices[d], devices'[d])
    /\ \A d \in Len(devices) + 1 .. Len(devices') : devices'[d].token = 0

\* A row with a device is deleted for a reason.
Drops ==
    \A p \in Ids(pairings) : pairings'[p].status = "gone" =>
        \/ pairings[p].status = "gone" \/ pairings[p].device = 0 \/ pairings'[p].late
        \/ devices'[pairings[p].device].revoked
        \/ call.id # 0 /\ devices[pairings[p].device].token = call.id
        \/ token.id # 0

\* What speaks for a refusal keeps speaking for it.
LEMMA FinalStays ==
    ASSUME Typed, Coded, Evolves, NEW c \in Ids(pairings), Final(c)
    PROVE  Final(c)'
<1>1. /\ pairings[c] \in Pairing /\ pairings[c].device \in 0 .. Len(devices)
      /\ Len(pairings) \in Nat /\ Len(pairings') \in Nat /\ Len(devices) \in Nat
  BY Records DEF Coded, Evolves
<1>2. RowGoesOn(pairings[c], pairings'[c], Len(devices), c <= job.code)
  BY DEF Evolves
<1>3. CASE pairings[c].device = 0 /\ pairings[c].status # "pending"
  BY <1>1, <1>2, <1>3 DEF Final, RowGoesOn
<1>4. CASE pairings[c].late
  BY <1>2, <1>4 DEF Final, RowGoesOn
<1>5. CASE pairings[c].device # 0 /\ devices[pairings[c].device].revoked
  <2>1. pairings[c].device \in Ids(devices)
    BY <1>1, <1>5 DEF Ids
  <2>2. devices'[pairings[c].device].revoked
    BY <2>1, <1>5 DEF Evolves, DeviceGoesOn
  <2>3. pairings[c].status # "pending"
    BY <1>5 DEF Coded
  <2>. QED
    BY <1>2, <1>5, <2>2, <2>3 DEF Final, RowGoesOn
<1>6. CASE Len(pairings) > c
  BY <1>1, <1>6 DEF Final, Ids, Evolves
<1>. QED
  BY <1>3, <1>4, <1>5, <1>6 DEF Final

\* A token that is current, or has a reason not to be, stays so.
LEMMA CurrentStays ==
    ASSUME Evolves, NEW t, NEW d \in Ids(devices), Current(t, d)
    PROVE  Current(t, d)'
BY DEF Current, Evolves, DeviceGoesOn

\* Rows keep their form.
LEMMA CodedStays ==
    ASSUME Typed, Coded, Evolves, job'.code = job.code
    PROVE  Coded'
<1>1. /\ \A p \in Ids(pairings) : pairings[p] \in Pairing
      /\ Len(pairings) \in Nat /\ Len(pairings') \in Nat /\ Len(devices) \in Nat /\ Len(devices') \in Nat
      /\ job.code \in Nat
  BY Records DEF Evolves, Typed
<1>2. ASSUME NEW p \in Ids(pairings)'
      PROVE  /\ pairings'[p].device \in 0 .. Len(devices')
             /\ pairings'[p].status = "approved" => pairings'[p].device # 0
             /\ pairings'[p].status = "pending" => pairings'[p].device = 0
             /\ pairings'[p].status = "expired" => pairings'[p].late
             /\ p > job.code => pairings'[p].device = 0
  <2>1. CASE p \in Ids(pairings)
    <3>1. /\ pairings[p].device \in 0 .. Len(devices)
          /\ pairings[p].status = "approved" => pairings[p].device # 0
          /\ pairings[p].status = "pending" => pairings[p].device = 0
          /\ pairings[p].status = "expired" => pairings[p].late
          /\ p > job.code => pairings[p].device = 0
      BY <2>1 DEF Coded
    <3>2. RowGoesOn(pairings[p], pairings'[p], Len(devices), p <= job.code) /\ pairings'[p].device <= Len(devices')
      BY <2>1 DEF Evolves
    <3>. QED
      BY <1>1, <2>1, <3>1, <3>2 DEF RowGoesOn, Ids
  <2>2. CASE p \notin Ids(pairings)
    <3>1. p \in Len(pairings) + 1 .. Len(pairings')
      BY <1>1, <2>2 DEF Ids
    <3>. QED
      BY <1>1, <3>1 DEF Evolves
  <2>. QED
    BY <2>1, <2>2
<1>. QED
  BY <1>2 DEF Coded

\* What a poll has read stays there.
LEMMA PollStays ==
    ASSUME Evolves, NEW r, PollHolds(r)
    PROVE  PollHolds(r)'
BY DEF PollHolds, Evolves, RowGoesOn, Ids

\* A poll's reason and its answer stay true.
LEMMA AnswersStay ==
    ASSUME Typed, Coded, Evolves, NEW r, PollHolds(r), AnswerHolds(r), ReasonHolds(r),
           job.code # 0, job' = job, minted' = minted
    PROVE  AnswerHolds(r)' /\ ReasonHolds(r)'
<1>1. job.code \in Ids(pairings) /\ Len(devices) \in Nat /\ Len(devices') \in Nat
  BY Records DEF Typed, Ids, Evolves
<1>2. Final(job.code) => Final(job.code)'
  <2>1. PICK c \in Ids(pairings) : c = job.code
    BY <1>1
  <2>2. Final(c) => Final(c)'
    BY FinalStays
  <2>3. Final(job.code) <=> Final(c)
    BY <2>1 DEF Final
  <2>4. Final(job.code)' <=> Final(c)'
    BY <2>1 DEF Final
  <2>. QED
    BY <2>2, <2>3, <2>4
<1>3. AnswerHolds(r)'
  <2>1. r.device \in Ids(devices) => r.device \in Ids(devices)'
    BY <1>1 DEF Ids, Evolves
  <2>2. r.device \in Ids(devices) => (Current(r.token, r.device) => Current(r.token, r.device)')
    BY CurrentStays
  <2>. QED
    BY <1>2, <2>1, <2>2 DEF AnswerHolds
<1>4. ReasonHolds(r)'
  <2>1. ASSUME r.pc = "found", r.device = pairings[job.code].device
        PROVE  pairings'[job.code].device = r.device
    <3>1. r.device # 0
      BY <2>1, <1>1 DEF PollHolds, Ids
    <3>2. RowGoesOn(pairings[job.code], pairings'[job.code], Len(devices), job.code <= job.code)
      BY <1>1 DEF Evolves
    <3>. QED
      BY <3>1, <3>2, <2>1, <1>1 DEF RowGoesOn, Coded
  <2>. QED
    BY <2>1, <1>2 DEF ReasonHolds
<1>. QED
  BY <1>3, <1>4

\* The token, the code that is shown and a refusal keep their reasons.
LEMMA RestStays ==
    ASSUME PairingInv, Evolves, Drops, job' = job, token' = token, call'.id \in {call.id, 0, token.id}
    PROVE  Coded' /\ TokenHolds' /\ Shown' /\ Refused'
<1>. USE DEF PairingInv
<1>1. /\ Len(pairings) \in Nat /\ Len(devices) \in Nat /\ Len(devices') \in Nat
      /\ \A d \in Ids(devices) : devices[d] \in Device
      /\ \A p \in Ids(pairings) : pairings[p] \in Pairing
      /\ \A p \in Ids(pairings) : pairings[p].device \in 0 .. Len(devices)
  BY Records DEF Evolves, Coded
<1>2. Coded'
  BY CodedStays
<1>3. TokenHolds'
  <2>1. token.id # 0 => token.device \in Ids(devices)
    BY <1>1 DEF Typed, TypeOK, TokenHolds, Ids
  <2>2. PICK t, d : t = token.id /\ d = token.device
    OBVIOUS
  <2>3. d \in Ids(devices) => (Current(t, d) => Current(t, d)')
    BY CurrentStays
  <2>4. Current(t, d)' => Current(token.id, token.device)'
    BY <2>2
  <2>. QED
    BY <2>1, <2>2, <2>3, <2>4 DEF TokenHolds
<1>4. Shown'
  <2>. SUFFICES ASSUME job.pc \in {"waiting", "asking"}, pairings'[job.code].device # 0
                PROVE  /\ devices'[pairings'[job.code].device].token # 0
                              => devices'[pairings'[job.code].device].token # call'.id
                       /\ pairings'[job.code].status = "gone"
                              => pairings'[job.code].late \/ devices'[pairings'[job.code].device].revoked
    BY DEF Shown
  <2>1. job.code \in Ids(pairings)
    BY <1>1 DEF JobHolds, Typed, Ids
  <2>2. PICK a, b : a = pairings[job.code] /\ b = pairings'[job.code]
    BY <2>1, <1>1
  <2>3. RowGoesOn(a, b, Len(devices), job.code <= job.code)
    BY <2>1, <2>2 DEF Evolves
  <2>6. call'.id \in {call.id, 0}
    BY DEF JobHolds
  <2>4. CASE a.device = 0
    <3>1. b.device = Len(devices) + 1 /\ b.status = "approved"
      BY <2>2, <2>3, <2>4 DEF RowGoesOn
    <3>2. b.device <= Len(devices')
      BY <2>1, <2>2 DEF Evolves
    <3>3. devices'[b.device].token = 0
      BY <3>1, <3>2, <1>1 DEF Evolves
    <3>. QED
      BY <2>2, <3>1, <3>3
  <2>5. CASE a.device # 0
    <3>1. b.device = a.device /\ a.device \in Ids(devices) /\ (a.late => b.late)
      BY <2>1, <2>2, <2>3, <2>5, <1>1 DEF RowGoesOn, Coded, Ids
    <3>2. DeviceGoesOn(devices[a.device], devices'[a.device])
      BY <3>1 DEF Evolves
    <3>3. /\ devices[a.device].token # 0 => devices[a.device].token # call.id
          /\ a.status = "gone" => a.late \/ devices[a.device].revoked
      BY <2>2, <2>5 DEF Shown
    <3>4. b.status = "gone" =>
              \/ a.status = "gone" \/ a.device = 0 \/ b.late
              \/ devices'[a.device].revoked
              \/ call.id # 0 /\ devices[a.device].token = call.id
      BY <2>1, <2>2 DEF Drops, JobHolds
    <3>. QED
      BY <2>2, <2>5, <2>6, <3>1, <3>2, <3>3, <3>4 DEF DeviceGoesOn
  <2>. QED
    BY <2>4, <2>5, <2>2
<1>5. Refused'
  <2>1. job.pc = "refused" => job.code \in Ids(pairings)
    BY <1>1 DEF JobHolds, Typed, Ids
  <2>2. PICK c : c = job.code
    OBVIOUS
  <2>3. c \in Ids(pairings) => (Final(c) => Final(c)')
    BY FinalStays
  <2>4. (Final(c) <=> Final(job.code)) /\ (Final(c)' <=> Final(job.code)')
    BY <2>2
  <2>. QED
    BY <2>1, <2>2, <2>3, <2>4 DEF Refused
<1>. QED
  BY <1>2, <1>3, <1>4, <1>5

-----------------------------------------------------------------------------
(* Requests                                                                 *)

\* What may become of a request when the server serves it.
PollServed(s, r, q) ==
    /\ r.pc # "idle" \/ q.pc = "idle"
    /\ q \in Request
    /\ s = "old" => q.pc # "answered"

\* A poll is served one statement further.
LEMMA PollsServed ==
    ASSUME PairingInv, Evolves, Drops, TypeOK', Unapproved',
           job' = job, token' = token, starts' = starts, call'.id \in {call.id, 0, token.id},
           NEW s \in Slots, NEW q, PollServed(s, polls[s], q), polls' = [polls EXCEPT ![s] = q],
           PollHolds(q)', s = "own" => AnswerHolds(q)' /\ ReasonHolds(q)', minted' = minted
    PROVE  PairingInv'
<1>. USE DEF PairingInv
<1>1. Coded' /\ TokenHolds' /\ Shown' /\ Refused'
  BY RestStays
<1>2. /\ polls \in [Slots -> Request] /\ polls'[s] = q
      /\ \A z \in Slots : z # s => polls'[z] = polls[z]
      /\ "own" \in Slots /\ "old" \in Slots
  BY DEF Typed, TypeOK, Slots
<1>3. Typed'
  <2>1. Len(pairings') \in Len(pairings) .. MaxPairings /\ Len(pairings) \in Nat
    BY Records DEF Evolves
  <2>. QED
    BY <2>1 DEF Typed
<1>4. OldIsLost'
  BY <1>2 DEF OldIsLost, PollServed, Slots
<1>5. Polled'
  <2>. SUFFICES ASSUME NEW z \in Slots PROVE PollHolds(polls[z])'
    BY DEF Polled
  <2>1. CASE z = s
    BY <2>1, <1>2
  <2>2. CASE z # s
    <3>1. PICK r : r = polls[z]
      OBVIOUS
    <3>2. PollHolds(r)'
      BY <3>1, PollStays DEF Polled
    <3>. QED
      BY <3>1, <3>2, <2>2, <1>2
  <2>. QED
    BY <2>1, <2>2
<1>6. AnswerHolds(polls["own"])' /\ ReasonHolds(polls["own"])'
  <2>1. CASE s = "own"
    BY <2>1, <1>2
  <2>2. CASE s # "own"
    <3>1. PICK r : r = polls["own"]
      OBVIOUS
    <3>2. polls'["own"] = r
      BY <3>1, <2>2, <1>2
    <3>3. CASE r.pc = "idle"
      BY <3>2, <3>3 DEF AnswerHolds, ReasonHolds
    <3>4. CASE r.pc # "idle"
      <4>1. job.code # 0 /\ PollHolds(r) /\ AnswerHolds(r) /\ ReasonHolds(r)
        BY <3>1, <3>4, <1>2 DEF JobHolds, Polled
      <4>2. AnswerHolds(r)' /\ ReasonHolds(r)'
        BY <4>1, AnswersStay
      <4>. QED
        BY <3>2, <4>2
    <3>. QED
      BY <3>3, <3>4
  <2>. QED
    BY <2>1, <2>2
<1>7. JobHolds'
  <2>1. polls'["own"].pc # "idle" => polls["own"].pc # "idle"
    BY <1>2 DEF PollServed
  <2>2. Len(pairings') \in Len(pairings) .. MaxPairings /\ Len(pairings) \in Nat
    BY Records DEF Evolves
  <2>3. starts["own"].pc = "answered" => starts["own"].row \in job.code + 1 .. Len(pairings')
    BY <2>2 DEF JobHolds, Typed
  <2>. QED
    BY <2>1, <2>3 DEF JobHolds
<1>. QED
  BY <1>1, <1>3, <1>4, <1>5, <1>6, <1>7

\* The server's steps that answer no poll.
LEMMA PollsWait ==
    ASSUME PairingInv, Evolves, Drops, TypeOK', Unapproved',
           job' = job, token' = token, polls' = polls, minted' = minted, call'.id \in {call.id, 0, token.id},
           starts'["old"].pc # "answered",
           starts'["own"].pc # "idle" => starts["own"].pc # "idle",
           starts'["own"].pc = "answered" => starts'["own"].row \in job.code + 1 .. Len(pairings')
    PROVE  PairingInv'
<1>. USE DEF PairingInv
<1>1. Coded' /\ TokenHolds' /\ Shown' /\ Refused'
  BY RestStays
<1>2. "own" \in Slots /\ "old" \in Slots
  BY DEF Slots
<1>3. Typed'
  <2>1. Len(pairings') \in Len(pairings) .. MaxPairings /\ Len(pairings) \in Nat
    BY Records DEF Evolves
  <2>. QED
    BY <2>1 DEF Typed
<1>4. OldIsLost'
  BY DEF OldIsLost
<1>5. Polled'
  <2>. SUFFICES ASSUME NEW z \in Slots PROVE PollHolds(polls[z])'
    BY DEF Polled
  <2>1. PICK r : r = polls[z]
    OBVIOUS
  <2>2. PollHolds(r)'
    BY <2>1, PollStays DEF Polled
  <2>. QED
    BY <2>1, <2>2
<1>6. AnswerHolds(polls["own"])' /\ ReasonHolds(polls["own"])'
  <2>1. PICK r : r = polls["own"]
    OBVIOUS
  <2>2. CASE r.pc = "idle"
    BY <2>1, <2>2 DEF AnswerHolds, ReasonHolds
  <2>3. CASE r.pc # "idle"
    <3>1. job.code # 0 /\ PollHolds(r) /\ AnswerHolds(r) /\ ReasonHolds(r)
      BY <2>1, <2>3, <1>2 DEF JobHolds, Polled
    <3>2. AnswerHolds(r)' /\ ReasonHolds(r)'
      BY <3>1, AnswersStay
    <3>. QED
      BY <2>1, <3>2
  <2>. QED
    BY <2>2, <2>3
<1>7. JobHolds'
  BY DEF JobHolds
<1>. QED
  BY <1>1, <1>3, <1>4, <1>5, <1>6, <1>7

\* Rows and devices that nothing touches.
LEMMA SameEvolves ==
    ASSUME PairingInv, pairings' = pairings, devices' = devices
    PROVE  Evolves /\ Drops
<1>. USE DEF PairingInv
<1>1. /\ pairings \in Seq(Pairing) /\ devices \in Seq(Device)
      /\ Len(pairings) \in Nat /\ Len(devices) \in Nat /\ Len(pairings) \in Len(pairings) .. MaxPairings
      /\ \A p \in Ids(pairings) : pairings[p].device \in 0 .. Len(devices)
  BY Records, BoundsAreNumbers DEF Typed, TypeOK, Coded
<1>2. \A p \in Ids(pairings) : /\ RowGoesOn(pairings[p], pairings[p], Len(devices), p <= job.code)
                               /\ pairings[p].device <= Len(devices)
  BY <1>1 DEF RowGoesOn
<1>3. \A d \in Ids(devices) : DeviceGoesOn(devices[d], devices[d])
  BY DEF DeviceGoesOn
<1>4. Evolves
  BY <1>1, <1>2, <1>3 DEF Evolves
<1>. QED
  BY <1>4 DEF Drops

\* Rows that change one by one, devices that do not.
LEMMA RowsEvolve ==
    ASSUME PairingInv, devices' = devices, NEW f \in [Ids(pairings) -> Pairing], pairings' = f,
           \A p \in Ids(pairings) : /\ pairings[p].late => f[p].late
                                    /\ f[p].device = pairings[p].device
                                    /\ \/ f[p].status \in {pairings[p].status, "gone"}
                                       \/ f[p].late /\ pairings[p].status # "gone" /\ f[p].status = "expired"
    PROVE  Evolves /\ Len(pairings') = Len(pairings)
<1>. USE DEF PairingInv
<1>1. /\ devices \in Seq(Device) /\ Len(pairings) \in Nat /\ Len(devices) \in Nat
      /\ Len(pairings) \in Len(pairings) .. MaxPairings
      /\ \A p \in Ids(pairings) : pairings[p].device \in 0 .. Len(devices)
  BY Records, BoundsAreNumbers DEF Typed, TypeOK, Coded
<1>2. f \in Seq(Pairing) /\ Len(f) = Len(pairings)
  BY <1>1, Mapped DEF Ids
<1>3. \A p \in Ids(pairings) : /\ RowGoesOn(pairings[p], f[p], Len(devices), p <= job.code)
                               /\ f[p].device <= Len(devices)
  BY <1>1 DEF RowGoesOn
<1>4. \A d \in Ids(devices) : DeviceGoesOn(devices[d], devices[d])
  BY DEF DeviceGoesOn
<1>. QED
  BY <1>1, <1>2, <1>3, <1>4 DEF Evolves

\* Rows that are deleted.
LEMMA WithoutEvolves ==
    ASSUME PairingInv, devices' = devices, NEW gone, pairings' = Without(gone)
    PROVE  /\ Evolves /\ Len(pairings') = Len(pairings)
           /\ \A p \in Ids(pairings) : pairings'[p] = IF p \in gone THEN [pairings[p] EXCEPT !.status = "gone"]
                                                                    ELSE pairings[p]
<1>. USE DEF PairingInv
<1>1. \A p \in Ids(pairings) : pairings[p] \in Pairing
  BY Records
<1>2. Without(gone) \in [Ids(pairings) -> Pairing]
  BY <1>1 DEF Without, Pairing
<1>3. \A p \in Ids(pairings) : /\ Without(gone)[p].late = pairings[p].late
                               /\ Without(gone)[p].device = pairings[p].device
                               /\ Without(gone)[p].status \in {pairings[p].status, "gone"}
  BY <1>1 DEF Without, Pairing
<1>4. PICK f \in [Ids(pairings) -> Pairing] : f = Without(gone)
  BY <1>2
<1>. QED
  BY <1>3, <1>4, RowsEvolve DEF Without

-----------------------------------------------------------------------------
(* The server's steps                                                       *)

\* startPairing deletes pending rows, which have no device, and rows that are late.
LEMMA StartClearsKeeps ==
    ASSUME PairingInv, NEW s \in Slots, StartClears(s)
    PROVE  PairingInv'
<1>. USE DEF PairingInv
<1>1. PICK old \in SUBSET {p \in Rows : pairings[p].late} :
          pairings' = Without(old \cup {p \in Rows : pairings[p].status = "pending"})
  BY DEF StartClears
<1>2. /\ starts[s].pc = "asked" /\ starts' = [starts EXCEPT ![s].pc = "cleared"]
      /\ devices' = devices /\ minted' = minted /\ approvals' = approvals
      /\ screen' = screen /\ token' = token /\ job' = job /\ call' = call /\ polls' = polls
  BY DEF StartClears, tv
<1>3. PICK gone : gone = old \cup {p \in Rows : pairings[p].status = "pending"} /\ pairings' = Without(gone)
  BY <1>1
<1>4. /\ Evolves /\ Len(pairings') = Len(pairings)
      /\ \A p \in Ids(pairings) : pairings'[p] = IF p \in gone THEN [pairings[p] EXCEPT !.status = "gone"]
                                                               ELSE pairings[p]
  BY <1>2, <1>3, WithoutEvolves, ZenonT(60)
<1>5. \A p \in Ids(pairings) : pairings[p] \in Pairing
  BY Records
<1>6. Drops
  <2>. SUFFICES ASSUME NEW p \in Ids(pairings), pairings'[p].status = "gone", pairings[p].status # "gone"
                PROVE  pairings[p].device = 0 \/ pairings'[p].late
    BY DEF Drops
  <2>1. p \in gone
    BY <1>4
  <2>2. pairings[p].late \/ pairings[p].status = "pending"
    BY <2>1, <1>3, <1>1
  <2>. QED
    BY <2>1, <2>2, <1>4, <1>5 DEF Coded, Pairing
<1>7. /\ starts' \in [Slots -> Request] /\ starts'["old"].pc # "answered"
      /\ starts'["own"].pc # "idle" => starts["own"].pc # "idle"
      /\ starts'["own"].pc = "answered" => starts'["own"].row \in job.code + 1 .. Len(pairings')
  <2>1. starts \in [Slots -> Request]
    BY DEF Typed, TypeOK
  <2>. QED
    BY <2>1, <1>2, <1>4, ZenonT(60) DEF OldIsLost, Slots, Request, JobHolds
<1>8. TypeOK'
  BY <1>2, <1>4, <1>7 DEF Typed, TypeOK, Evolves
<1>. QED
  BY <1>2, <1>4, <1>6, <1>7, <1>8, PollsWait DEF Unapproved

\* startPairing inserts a row, later than every code that was shown.
LEMMA StartInsertsKeeps ==
    ASSUME PairingInv, NEW s \in Slots, StartInserts(s)
    PROVE  PairingInv'
<1>. USE DEF PairingInv
<1>0. PICK new \in Pairing : new.status = "pending" /\ new.device = 0 /\ pairings' = Append(pairings, new)
  <2>1. PICK new : new = [status |-> "pending", late |-> FALSE, device |-> 0]
    OBVIOUS
  <2>2. new \in Pairing /\ new.status = "pending" /\ new.device = 0
    BY <2>1 DEF Pairing
  <2>. QED
    BY <2>1, <2>2 DEF StartInserts
<1>1. /\ starts[s].pc = "cleared" /\ Len(pairings) < MaxPairings
      /\ starts' = [starts EXCEPT ![s] = Answered(s, [Asked EXCEPT !.row = Len(pairings) + 1])]
      /\ devices' = devices /\ minted' = minted /\ approvals' = approvals
      /\ screen' = screen /\ token' = token /\ job' = job /\ call' = call /\ polls' = polls
  BY DEF StartInserts, tv
<1>2. /\ pairings \in Seq(Pairing) /\ devices \in Seq(Device)
      /\ Len(pairings) \in Nat /\ Len(devices) \in Nat
      /\ \A p \in Ids(pairings) : pairings[p].device \in 0 .. Len(devices)
  BY Records DEF Typed, TypeOK, Coded
<1>3. /\ pairings' \in Seq(Pairing) /\ Len(pairings') = Len(pairings) + 1
      /\ \A p \in Ids(pairings) : pairings'[p] = pairings[p]
      /\ pairings'[Len(pairings) + 1] = new
  BY <1>0, <1>2, RowAppended DEF Ids
<1>4. Evolves
  <2>1. \A p \in Ids(pairings) : /\ RowGoesOn(pairings[p], pairings'[p], Len(devices), p <= job.code)
                                 /\ pairings'[p].device <= Len(devices)
    BY <1>2, <1>3 DEF RowGoesOn
  <2>2. \A d \in Ids(devices) : DeviceGoesOn(devices[d], devices[d])
    BY DEF DeviceGoesOn
  <2>3. /\ Len(pairings') \in Len(pairings) .. MaxPairings
        /\ \A p \in Len(pairings) + 1 .. Len(pairings') : p = Len(pairings) + 1
    BY <1>1, <1>2, <1>3, BoundsAreNumbers
  <2>4. \A p \in Len(pairings) + 1 .. Len(pairings') : pairings'[p].status = "pending" /\ pairings'[p].device = 0
    BY <1>0, <1>3, <2>3
  <2>5. \A d \in Len(devices) + 1 .. Len(devices') : FALSE
    BY <1>1, <1>2
  <2>. QED
    BY <1>1, <1>2, <1>3, <2>1, <2>2, <2>3, <2>4, <2>5 DEF Evolves
<1>5. Drops
  BY <1>3 DEF Drops
<1>6. /\ starts' \in [Slots -> Request] /\ starts'["old"].pc # "answered"
      /\ starts'["own"].pc # "idle" => starts["own"].pc # "idle"
      /\ starts'["own"].pc = "answered" => starts'["own"].row \in job.code + 1 .. Len(pairings')
  <2>1. starts \in [Slots -> Request] /\ job.code \in 0 .. Len(pairings)
    BY DEF Typed, TypeOK
  <2>2. PICK q : q = Answered(s, [Asked EXCEPT !.row = Len(pairings) + 1])
    OBVIOUS
  <2>3. q \in Request /\ (s = "old" => q.pc = "idle") /\ (q.pc = "answered" => q.row = Len(pairings) + 1)
    <3>1. CASE s = "own"
      <4>1. q = [pc |-> "answered", row |-> Len(pairings) + 1, says |-> "", token |-> 0, device |-> 0]
        BY <3>1, <2>2 DEF Answered, Asked, Idle
      <4>2. Len(pairings) + 1 \in Nat
        BY <1>2
      <4>3. q \in Request
        BY <4>1, <4>2 DEF Request
      <4>. QED
        BY <4>1, <4>3, <3>1
    <3>2. CASE s = "old"
      <4>1. q = Idle
        BY <3>2, <2>2 DEF Answered
      <4>. QED
        BY <4>1 DEF Idle, Request
    <3>. QED
      BY <3>1, <3>2 DEF Slots
  <2>4. starts' = [starts EXCEPT ![s] = q]
    BY <1>1, <2>2
  <2>5. "own" \in Slots /\ "old" \in Slots
    BY DEF Slots
  <2>6. starts' \in [Slots -> Request] /\ \A z \in Slots : starts'[z] = IF z = s THEN q ELSE starts[z]
    BY <2>1, <2>3, <2>4
  <2>7. starts'["own"].pc = "answered" => starts'["own"].row \in (job.code + 1 .. Len(pairings)) \cup {Len(pairings) + 1}
    BY <2>3, <2>5, <2>6 DEF JobHolds
  <2>8. (job.code + 1 .. Len(pairings)) \cup {Len(pairings) + 1} \subseteq job.code + 1 .. Len(pairings')
    BY <2>1, <1>2, <1>3
  <2>. QED
    BY <2>3, <2>5, <2>6, <2>7, <2>8, <1>1 DEF OldIsLost
<1>7. TypeOK'
  BY <1>1, <1>3, <1>6 DEF Typed, TypeOK
<1>. QED
  BY <1>1, <1>4, <1>5, <1>6, <1>7, PollsWait DEF Unapproved

\* pollPairing reads the latest row: if that is not the code shown, there is a later
\* one, or the code was deleted for a reason.
LEMMA PollReadsKeeps ==
    ASSUME PairingInv, NEW s \in Slots, PollReads(s)
    PROVE  PairingInv'
<1>. USE DEF PairingInv
<1>1. /\ polls[s].pc = "asked"
      /\ pairings' = pairings /\ devices' = devices /\ minted' = minted /\ approvals' = approvals
      /\ screen' = screen /\ token' = token /\ job' = job /\ call' = call /\ starts' = starts
  BY DEF PollReads, server, tv
<1>2. /\ Len(pairings) \in Nat /\ Len(devices) \in Nat
      /\ \A p \in Ids(pairings) : pairings[p] \in Pairing /\ pairings[p].device \in 0 .. Len(devices)
      /\ polls \in [Slots -> Request]
  BY Records DEF Coded, Typed, TypeOK
<1>3. Evolves /\ Drops /\ Unapproved' /\ call'.id \in {call.id, 0}
  BY <1>1, SameEvolves DEF Unapproved
\* The latest row is the one that is shown, or there is reason to refuse that.
<1>4. ASSUME s = "own"
      PROVE  Latest = job.code \/ Final(job.code)
  <2>1. job.code \in Ids(pairings) /\ job.pc = "asking"
    BY <1>1, <1>2, <1>4 DEF JobHolds, Typed, Ids
  <2>2. CASE pairings[job.code].status # "gone"
    <3>1. job.code \in Rows
      BY <2>1, <2>2 DEF Rows
    <3>2. Latest \in Rows /\ job.code <= Latest
      BY <3>1, LatestIsLast
    <3>. QED
      BY <3>1, <3>2, <2>1, <1>2 DEF Rows, Ids, Final
  <2>3. CASE pairings[job.code].status = "gone"
    BY <2>1, <2>3 DEF Final, Shown
  <2>. QED
    BY <2>2, <2>3
<1>5. PICK q : /\ q \in Request /\ polls' = [polls EXCEPT ![s] = q] /\ (s = "old" => q.pc # "answered")
               /\ q.pc \in {"idle", "answered", "lapsing", "found"}
               /\ q.pc = "answered" => q.says \in {"unknown", "pending", "expired"}
               /\ q.pc = "answered" /\ q.says = "expired" => Latest \in Rows /\ pairings[Latest].late
               /\ q.pc = "lapsing" => q.row = Latest /\ Latest \in Rows /\ pairings[Latest].late
               /\ q.pc = "found" => /\ q.device = pairings[Latest].device /\ Latest \in Rows
                                    /\ pairings[Latest].status = "approved"
  <2>. DEFINE says(w) == Says(s, Asked, w)
              lapsing == [Asked EXCEPT !.pc = "lapsing", !.row = Latest]
              found == [Asked EXCEPT !.pc = "found", !.device = pairings[Latest].device]
  <2>1. \A w \in {"unknown", "pending", "expired"} :
           /\ says(w) \in Request /\ (s = "old" => says(w).pc # "answered")
           /\ says(w).pc \in {"idle", "answered"}
           /\ says(w).pc = "answered" => says(w).says = w
    BY DEF Says, Answered, Asked, Idle, Request, Slots
  <2>2. Latest \in Rows => Latest \in Nat /\ Latest # 0 /\ pairings[Latest].device \in Nat
    BY <1>2 DEF Rows, Ids
  <2>3. Latest \in Rows => lapsing \in Request /\ lapsing.pc = "lapsing" /\ lapsing.row = Latest
    BY <2>2 DEF Asked, Idle, Request
  <2>4. Latest \in Rows => found \in Request /\ found.pc = "found" /\ found.device = pairings[Latest].device
    BY <2>2 DEF Asked, Idle, Request
  <2>5. \/ polls' = [polls EXCEPT ![s] = says("unknown")]
        \/ polls' = [polls EXCEPT ![s] = says("pending")]
        \/ Latest \in Rows /\ pairings[Latest].late /\ polls' = [polls EXCEPT ![s] = says("expired")]
        \/ Latest \in Rows /\ pairings[Latest].late /\ polls' = [polls EXCEPT ![s] = lapsing]
        \/ Latest \in Rows /\ pairings[Latest].status = "approved" /\ polls' = [polls EXCEPT ![s] = found]
    <3>1. Latest = 0 \/ Latest \in Rows
      BY LatestIsLast
    <3>2. Latest \in Rows => (pairings[Latest].status = "expired" => pairings[Latest].late)
      BY DEF Coded, Rows
    <3>. QED
      BY <3>1, <3>2 DEF PollReads
  <2>. HIDE DEF says, lapsing, found
  <2>. QED
    BY <2>1, <2>3, <2>4, <2>5
<1>6. PollServed(s, polls[s], q)
  BY <1>1, <1>5 DEF PollServed
<1>7. PollHolds(q)'
  BY <1>1, <1>2, <1>5 DEF PollHolds, Rows, Coded, Ids
<1>8. ASSUME s = "own"
      PROVE  AnswerHolds(q)' /\ ReasonHolds(q)'
  <2>1. (q.pc = "answered" /\ q.says = "expired") => Final(job.code)
    BY <1>4, <1>5, <1>8 DEF Final
  <2>2. q.pc = "lapsing" => Final(job.code)
    BY <1>4, <1>5, <1>8 DEF Final
  <2>3. q.pc = "found" => Final(job.code) \/ q.device = pairings[job.code].device
    BY <1>4, <1>5, <1>8
  <2>4. Final(job.code) <=> Final(job.code)'
    BY <1>1 DEF Final
  <2>. QED
    BY <1>1, <1>5, <2>1, <2>2, <2>3, <2>4 DEF AnswerHolds, ReasonHolds
<1>9. TypeOK'
  <2>1. polls' \in [Slots -> Request]
    BY <1>2, <1>5
  <2>. QED
    BY <2>1, <1>1 DEF Typed, TypeOK
<1>. QED
  BY <1>1, <1>3, <1>5, <1>6, <1>7, <1>8, <1>9, PollsServed

\* What the server says of a poll.
LEMMA SaysOf ==
    ASSUME NEW s \in Slots, NEW w \in {"unknown", "pending", "expired", "denied"}
    PROVE  /\ Says(s, Asked, w) \in Request /\ (s = "old" => Says(s, Asked, w).pc = "idle")
           /\ Says(s, Asked, w).pc \in {"idle", "answered"}
           /\ Says(s, Asked, w).pc = "answered" => Says(s, Asked, w).says = w
BY DEF Says, Answered, Asked, Idle, Request, Slots

\* pollPairing marks a row expired, which is late for good.
LEMMA PollLapsesKeeps ==
    ASSUME PairingInv, NEW s \in Slots, PollLapses(s)
    PROVE  PairingInv'
<1>. USE DEF PairingInv
<1>1. PICK p, q : p = polls[s].row /\ q = Says(s, Asked, "expired")
  OBVIOUS
<1>2. /\ polls[s].pc = "lapsing" /\ polls' = [polls EXCEPT ![s] = q]
      /\ pairings' = IF p \in Rows THEN [pairings EXCEPT ![p].status = "expired"] ELSE pairings
      /\ devices' = devices /\ minted' = minted /\ approvals' = approvals
      /\ screen' = screen /\ token' = token /\ job' = job /\ call' = call /\ starts' = starts
  BY <1>1 DEF PollLapses, tv
<1>3. p \in Ids(pairings) /\ pairings[p].late
  BY <1>1, <1>2 DEF Polled, PollHolds
<1>4. /\ \A r \in Ids(pairings) : pairings[r] \in Pairing
      /\ pairings \in Seq(Pairing) /\ pairings \in [Ids(pairings) -> Pairing] /\ polls \in [Slots -> Request]
  BY Records DEF Typed, TypeOK, Ids
<1>5. Evolves /\ Drops
  <2>1. CASE p \notin Rows
    BY <2>1, <1>2, SameEvolves
  <2>2. CASE p \in Rows
    <3>1. PICK e : e = [pairings[p] EXCEPT !.status = "expired"]
      OBVIOUS
    <3>2. e \in Pairing /\ e.status = "expired" /\ e.late /\ e.device = pairings[p].device
      BY <1>3, <1>4, <3>1 DEF Pairing
    <3>3. pairings' = [pairings EXCEPT ![p] = e]
      BY <1>2, <2>2, <3>1
    <3>4. PICK f \in [Ids(pairings) -> Pairing] : f = [pairings EXCEPT ![p] = e]
      BY <1>3, <1>4, <3>2
    <3>5. \A r \in Ids(pairings) : /\ pairings[r].late => f[r].late
                                   /\ f[r].device = pairings[r].device
                                   /\ \/ f[r].status \in {pairings[r].status, "gone"}
                                      \/ f[r].late /\ pairings[r].status # "gone" /\ f[r].status = "expired"
      BY <1>3, <1>4, <2>2, <3>2, <3>4 DEF Rows
    <3>6. Evolves
      BY <1>2, <3>3, <3>4, <3>5, RowsEvolve
    <3>7. \A r \in Ids(pairings) : pairings'[r].status = "gone" => pairings[r].status = "gone"
      BY <1>3, <1>4, <3>2, <3>3
    <3>. QED
      BY <3>6, <3>7 DEF Drops
  <2>. QED
    BY <2>1, <2>2
<1>6. /\ q \in Request /\ (s = "old" => q.pc = "idle") /\ q.pc \in {"idle", "answered"}
      /\ q.pc = "answered" => q.says = "expired"
  BY <1>1, SaysOf
<1>7. PollServed(s, polls[s], q) /\ PollHolds(q)'
  BY <1>2, <1>6 DEF PollServed, PollHolds
<1>8. s = "own" => AnswerHolds(q)' /\ ReasonHolds(q)'
  <2>1. ASSUME s = "own" PROVE Final(job.code)'
    <3>1. Final(job.code) /\ job.code \in Ids(pairings)
      BY <2>1, <1>2, Records DEF ReasonHolds, JobHolds, Typed, Ids
    <3>2. PICK c \in Ids(pairings) : c = job.code
      BY <3>1
    <3>3. Final(c)'
      BY <3>1, <3>2, <1>5, FinalStays
    <3>. QED
      BY <3>2, <3>3, <1>2
  <2>. QED
    BY <2>1, <1>6 DEF AnswerHolds, ReasonHolds
<1>9. TypeOK'
  <2>1. polls' \in [Slots -> Request]
    BY <1>2, <1>4, <1>6
  <2>. QED
    BY <2>1, <1>2, <1>5 DEF Typed, TypeOK, Evolves
<1>10. Unapproved' /\ call'.id \in {call.id, 0}
  BY <1>2 DEF Unapproved
<1>. QED
  BY <1>2, <1>5, <1>7, <1>8, <1>9, <1>10, PollsServed

\* pollPairing reads the device, which is the one of the code shown.
LEMMA PollFindsKeeps ==
    ASSUME PairingInv, NEW s \in Slots, PollFinds(s)
    PROVE  PairingInv'
<1>. USE DEF PairingInv
<1>1. /\ polls[s].pc = "found"
      /\ pairings' = pairings /\ devices' = devices /\ minted' = minted /\ approvals' = approvals
      /\ screen' = screen /\ token' = token /\ job' = job /\ call' = call /\ starts' = starts
  BY DEF PollFinds, server, tv
<1>2. Evolves /\ Drops /\ Unapproved' /\ call'.id \in {call.id, 0}
  BY <1>1, SameEvolves DEF Unapproved
<1>3. polls \in [Slots -> Request] /\ polls[s].device \in Ids(devices)
  BY <1>1 DEF Typed, TypeOK, Polled, PollHolds
<1>4. PICK q \in Request :
         /\ polls' = [polls EXCEPT ![s] = q]
         /\ \/ q.pc = "issuing" /\ q.device \in Ids(devices)
            \/ /\ q.pc \in {"idle", "answered"} /\ (s = "old" => q.pc = "idle")
               /\ q.pc = "answered" => q.says = "denied"
               /\ devices[polls[s].device].revoked
  <2>1. CASE polls' = [polls EXCEPT ![s].pc = "issuing"]
    <3>1. PICK q : q = [polls[s] EXCEPT !.pc = "issuing"]
      OBVIOUS
    <3>2. q \in Request /\ q.pc = "issuing" /\ q.device = polls[s].device
      BY <3>1, <1>3 DEF Request
    <3>. QED
      BY <2>1, <3>1, <3>2, <1>3
  <2>2. CASE polls[s].device \notin Live /\ polls' = [polls EXCEPT ![s] = Says(s, Asked, "denied")]
    BY <2>2, <1>3, SaysOf DEF Live
  <2>. QED
    BY <2>1, <2>2 DEF PollFinds
<1>5. PollServed(s, polls[s], q) /\ PollHolds(q)'
  BY <1>1, <1>4 DEF PollServed, PollHolds, Ids
<1>6. s = "own" => AnswerHolds(q)' /\ ReasonHolds(q)'
  <2>1. ASSUME s = "own", devices[polls[s].device].revoked PROVE Final(job.code)
    BY <2>1, <1>1, <1>3, Records DEF ReasonHolds, Final, Ids
  <2>2. Final(job.code) <=> Final(job.code)'
    BY <1>1 DEF Final
  <2>. QED
    BY <2>1, <2>2, <1>4 DEF AnswerHolds, ReasonHolds
<1>7. TypeOK'
  <2>1. polls' \in [Slots -> Request]
    BY <1>3, <1>4
  <2>. QED
    BY <2>1, <1>1 DEF Typed, TypeOK
<1>. QED
  BY <1>1, <1>2, <1>4, <1>5, <1>6, <1>7, PollsServed

\* pollPairing makes a token: the TV has none if it still waits for this poll.
LEMMA PollIssuesKeeps ==
    ASSUME PairingInv, NEW s \in Slots, PollIssues(s)
    PROVE  PairingInv'
<1>. USE DEF PairingInv
<1>1. PICK d, n : d = polls[s].device /\ n = minted + 1
  OBVIOUS
<1>2. /\ polls[s].pc = "issuing" /\ minted < MaxTokens /\ minted' = n
      /\ devices' = [devices EXCEPT ![d] = [devices[d] EXCEPT !.token = n, !.unheard = (s = "old")]]
      /\ polls' = [polls EXCEPT ![s] = Says(s, [polls[s] EXCEPT !.token = n], "approved")]
      /\ pairings' = pairings /\ approvals' = approvals
      /\ screen' = screen /\ token' = token /\ job' = job /\ call' = call /\ starts' = starts
  BY <1>1 DEF PollIssues, tv
<1>3. /\ minted \in Nat /\ n \in 1 .. MaxTokens /\ call.id \in 0 .. minted
      /\ d \in Ids(devices) /\ polls \in [Slots -> Request] /\ devices \in Seq(Device) /\ devices[d] \in Device
      /\ Len(devices) \in Nat /\ Len(pairings) \in Nat
  <2>1. MaxTokens \in Nat
    BY BoundsAreNumbers
  <2>. QED
    BY <1>1, <1>2, <2>1, Records DEF Polled, PollHolds, Typed, TypeOK
<1>4. PICK e \in Device : /\ devices' = [devices EXCEPT ![d] = e]
                          /\ e.token = n /\ e.revoked = devices[d].revoked /\ (e.unheard <=> s = "old")
  <2>1. PICK e : e = [devices[d] EXCEPT !.token = n, !.unheard = (s = "old")]
    OBVIOUS
  <2>2. e \in Device /\ e.token = n /\ e.revoked = devices[d].revoked /\ (e.unheard <=> s = "old")
    <3>. PICK v \in Device : v = devices[d]
      BY <1>3
    <3>. n \in Nat
      BY <1>3
    <3>1. CASE s = "old"
      <4>1. (s = "old") = TRUE
        BY <3>1
      <4>2. e = [devices[d] EXCEPT !.token = n, !.unheard = TRUE]
        BY <2>1, <4>1, Zenon
      <4>. QED
        BY <3>1, <4>2 DEF Device
    <3>2. CASE s # "old"
      <4>1. (s = "old") = FALSE
        BY <3>2
      <4>2. e = [devices[d] EXCEPT !.token = n, !.unheard = FALSE]
        BY <2>1, <4>1, Zenon
      <4>. QED
        BY <3>2, <4>2 DEF Device
    <3>. QED
      BY <3>1, <3>2
  <2>. QED
    BY <1>2, <2>1, <2>2
<1>5. /\ devices' \in Seq(Device) /\ Len(devices') = Len(devices)
      /\ \A k \in Ids(devices) : devices'[k] = IF k = d THEN e ELSE devices[k]
  BY <1>3, <1>4, Changed DEF Ids
<1>6. PICK q \in Request :
         /\ polls' = [polls EXCEPT ![s] = q] /\ (s = "old" => q.pc = "idle") /\ q.pc \in {"idle", "answered"}
         /\ q.pc = "answered" => q.says = "approved" /\ q.token = n /\ q.device = d
  <2>1. PICK q : q = Says(s, [polls[s] EXCEPT !.token = n], "approved")
    OBVIOUS
  <2>2. polls[s] \in Request /\ n \in Nat
    BY <1>3
  <2>3. /\ q \in Request /\ (s = "old" => q.pc = "idle") /\ q.pc \in {"idle", "answered"}
        /\ q.pc = "answered" => q.says = "approved" /\ q.token = n /\ q.device = d
    <3>1. CASE s = "own"
      <4>1. q = [[[polls[s] EXCEPT !.token = n] EXCEPT !.says = "approved"] EXCEPT !.pc = "answered"]
        BY <2>1, <3>1 DEF Says, Answered
      <4>. QED
        BY <4>1, <3>1, <2>2, <1>1 DEF Request
    <3>2. CASE s = "old"
      <4>1. q = Idle
        BY <3>2, <2>1 DEF Says, Answered
      <4>. QED
        BY <4>1 DEF Idle, Request
    <3>. QED
      BY <3>1, <3>2 DEF Slots
  <2>. QED
    BY <2>1, <2>3, <1>2
<1>7. /\ polls' \in [Slots -> Request] /\ polls'[s] = q
      /\ \A z \in Slots : z # s => polls'[z] = polls[z]
      /\ "own" \in Slots /\ "old" \in Slots
  BY <1>3, <1>6 DEF Slots
<1>8. Typed'
  <2>1. minted' \in 0 .. MaxTokens /\ 0 .. minted \subseteq 0 .. minted'
    BY <1>1, <1>2, <1>3
  <2>. QED
    BY <2>1, <1>2, <1>5, <1>7 DEF Typed, TypeOK
<1>9. Coded' /\ Unapproved'
  BY <1>2, <1>5 DEF Coded, Unapproved
<1>10. OldIsLost'
  BY <1>2, <1>6, <1>7 DEF OldIsLost, Slots
<1>11. Ids(devices') = Ids(devices)
  BY <1>5 DEF Ids
<1>12. Polled'
  BY <1>2, <1>6, <1>7, <1>11 DEF Polled, PollHolds
<1>13. \A k \in Ids(devices) : devices'[k].revoked = devices[k].revoked
  BY <1>4, <1>5
<1>14. Final(job.code)' <=> Final(job.code)
  <2>1. job.code = 0 \/ job.code \in Ids(pairings)
    BY <1>3 DEF Typed, Ids
  <2>2. job.code \in Ids(pairings) => pairings[job.code].device \in 0 .. Len(devices)
    BY DEF Coded
  <2>3. CASE job.code \in Ids(pairings)
    BY <2>2, <2>3, <1>2, <1>3, <1>13 DEF Final, Ids
  <2>4. CASE job.code = 0 /\ Len(pairings) > 0
    BY <2>4, <1>2 DEF Final
  <2>5. CASE job.code = 0 /\ Len(pairings) = 0
    BY <2>5, <1>2, <1>3, <1>13 DEF Final, Ids
  <2>. QED
    BY <2>1, <2>3, <2>4, <2>5, <1>3
<1>15. AnswerHolds(polls["own"])'
  <2>1. CASE s = "own"
    <3>1. n \in 1 .. n /\ Current(n, d)'
      BY <1>3, <1>4, <1>5 DEF Current
    <3>. QED
      BY <2>1, <3>1, <1>2, <1>3, <1>6, <1>7, <1>11 DEF AnswerHolds
  <2>2. CASE s = "old"
    <3>1. polls'["own"] = polls["own"]
      BY <2>2, <1>7
    <3>2. \A k \in Ids(devices) : \A t : Current(t, k) => Current(t, k)'
      BY <2>2, <1>4, <1>5, <1>13 DEF Current
    <3>3. \A t \in 1 .. minted : t \in 1 .. minted'
      BY <1>1, <1>2, <1>3
    <3>4. PICK r : r = polls["own"]
      OBVIOUS
    <3>5. AnswerHolds(r)'
      BY <3>2, <3>3, <3>4, <1>2, <1>11, <1>14 DEF AnswerHolds
    <3>. QED
      BY <3>1, <3>4, <3>5
  <2>. QED
    BY <2>1, <2>2 DEF Slots
<1>16. ReasonHolds(polls["own"])'
  BY <1>2, <1>6, <1>7, <1>14 DEF ReasonHolds
<1>17. JobHolds'
  BY <1>2, <1>6, <1>7 DEF JobHolds
<1>18. TokenHolds'
  <2>1. CASE s = "own"
    BY <2>1, <1>2, <1>7 DEF JobHolds, TokenHolds
  <2>2. CASE s = "old"
    <3>1. token.id # 0 => token.device \in Ids(devices)
      BY <1>3 DEF Typed, TypeOK, TokenHolds, Ids
    <3>. QED
      BY <2>2, <3>1, <1>2, <1>4, <1>5 DEF TokenHolds, Current
  <2>. QED
    BY <2>1, <2>2 DEF Slots
<1>19. Shown'
  <2>. SUFFICES ASSUME job.pc \in {"waiting", "asking"}, pairings[job.code].device # 0
                PROVE  /\ devices'[pairings[job.code].device].token # 0
                              => devices'[pairings[job.code].device].token # call.id
                       /\ pairings[job.code].status = "gone"
                              => pairings[job.code].late \/ devices'[pairings[job.code].device].revoked
    BY <1>2 DEF Shown
  <2>1. job.code \in Ids(pairings)
    BY <1>3 DEF JobHolds, Typed, Ids
  <2>2. PICK k \in Ids(devices) : k = pairings[job.code].device
    BY <2>1, <1>3 DEF Coded, Ids
  <2>3. /\ devices[k].token # 0 => devices[k].token # call.id
        /\ pairings[job.code].status = "gone" => pairings[job.code].late \/ devices[k].revoked
    BY <2>2 DEF Shown
  <2>4. n # call.id
    BY <1>1, <1>3
  <2>. QED
    BY <2>2, <2>3, <2>4, <1>4, <1>5
<1>20. Refused'
  BY <1>2, <1>14 DEF Refused
<1>. QED
  BY <1>8, <1>9, <1>10, <1>12, <1>15, <1>16, <1>17, <1>18, <1>19, <1>20

\* The server's steps that answer no request.
LEMMA ServerKeeps ==
    ASSUME PairingInv, Evolves, Drops, Unapproved', approvals' \in [1 .. MaxPairings -> 0 .. MaxApprovals],
           screen' \in {screen, "library"}, job' = job, token' = token, polls' = polls, starts' = starts,
           minted' = minted,
           call' \in {call, NoCall, [pc |-> "refused", id |-> 0]}
    PROVE  PairingInv'
<1>. USE DEF PairingInv
<1>1. /\ Len(pairings) \in Nat /\ Len(pairings') \in Nat /\ Len(pairings) <= Len(pairings')
      /\ Len(devices) \in Nat /\ Len(devices') \in Nat /\ Len(devices) <= Len(devices')
  BY Records DEF Evolves
<1>2. starts["own"].pc = "answered" => starts["own"].row \in job.code + 1 .. Len(pairings')
  BY <1>1 DEF JobHolds, Typed
<1>3. call' \in [pc : {"none", "asked", "refused"}, id : 0 .. minted] /\ call'.id \in {call.id, 0}
  BY DEF Typed, TypeOK, NoCall
<1>4. token' \in [id : 0 .. minted, device : 0 .. Len(devices')]
  BY <1>1 DEF Typed, TypeOK
<1>5. TypeOK'
  BY <1>3, <1>4 DEF Typed, TypeOK, Evolves
<1>. QED
  BY <1>2, <1>3, <1>5, PollsWait DEF OldIsLost

\* approvePairing reads a row: only of a code that was shown.
LEMMA ApproveReadsKeeps ==
    ASSUME PairingInv, NEW p \in Ids(pairings), ApproveReads(p)
    PROVE  PairingInv'
<1>. USE DEF PairingInv
<1>1. /\ job.code = p /\ approvals[p] < MaxApprovals /\ approvals' = [approvals EXCEPT ![p] = approvals[p] + 1]
      /\ pairings' = pairings /\ devices' = devices /\ minted' = minted
      /\ screen' = screen /\ token' = token /\ job' = job /\ call' = call /\ starts' = starts /\ polls' = polls
  BY DEF ApproveReads, tv
<1>2. Evolves /\ Drops
  BY <1>1, SameEvolves
<1>3. MaxApprovals \in Nat /\ MaxPairings \in Nat /\ Len(pairings) \in Nat /\ p \in 1 .. MaxPairings
  BY BoundsAreNumbers, Records DEF Typed, Ids
<1>4. approvals \in [1 .. MaxPairings -> 0 .. MaxApprovals]
  BY DEF Typed, TypeOK
<1>5. approvals[p] + 1 \in 0 .. MaxApprovals
  BY <1>1, <1>3, <1>4
<1>6. approvals' \in [1 .. MaxPairings -> 0 .. MaxApprovals]
  BY <1>1, <1>4, <1>5
<1>7. Unapproved'
  BY <1>1, <1>3, <1>4 DEF Unapproved
<1>. QED
  BY <1>1, <1>2, <1>6, <1>7, ServerKeeps

\* approvePairing claims a row that is still pending and makes its device.
LEMMA PairingClaimKeeps ==
    ASSUME PairingInv, NEW p \in Ids(pairings), Claims(p)
    PROVE  PairingInv'
<1>. USE DEF PairingInv
<1>1. /\ approvals[p] > 0 /\ approvals' = [approvals EXCEPT ![p] = approvals[p] - 1] /\ minted' = minted
      /\ screen' = screen /\ token' = token /\ job' = job /\ call' = call /\ starts' = starts /\ polls' = polls
  BY DEF Claims, tv
<1>2. /\ Len(pairings) \in Nat /\ Len(devices) \in Nat
      /\ \A r \in Ids(pairings) : pairings[r] \in Pairing
      /\ pairings \in Seq(Pairing) /\ devices \in Seq(Device)
      /\ approvals \in [1 .. MaxPairings -> 0 .. MaxApprovals]
  BY Records DEF Typed, TypeOK
<1>7. \A r \in Ids(pairings) : pairings[r].device \in 0 .. Len(devices)
  BY DEF Coded
<1>8. MaxApprovals \in Nat /\ MaxPairings \in Nat /\ Len(pairings) <= MaxPairings /\ job.code \in Nat
  BY BoundsAreNumbers, <1>2 DEF Typed
<1>9. p \in 1 .. MaxPairings /\ Len(pairings) \in Len(pairings) .. MaxPairings
  BY <1>2, <1>8 DEF Ids
<1>3. approvals' \in [1 .. MaxPairings -> 0 .. MaxApprovals]
  <2>1. approvals[p] - 1 \in 0 .. MaxApprovals
    BY <1>1, <1>2, <1>8, <1>9
  <2>. QED
    BY <1>1, <1>2, <1>9, <2>1
<1>4. p <= job.code
  BY <1>1, <1>8, <1>9 DEF Unapproved, Ids
<1>5. Unapproved'
  BY <1>1, <1>2, <1>4, <1>8, <1>9 DEF Unapproved
<1>6. Evolves /\ Drops
  <2>1. CASE pairings[p].status = "pending"
    <3>1. PICK e : e = [pairings[p] EXCEPT !.status = "approved", !.device = Len(devices) + 1]
      OBVIOUS
    <3>2. e \in Pairing /\ e.status = "approved" /\ e.device = Len(devices) + 1 /\ e.late = pairings[p].late
      <4>1. PICK a \in Pairing, n \in Nat : a = pairings[p] /\ n = Len(devices) + 1
        BY <1>2
      <4>2. e = [a EXCEPT !.status = "approved", !.device = n]
        BY <3>1, <4>1
      <4>3. e \in Pairing /\ e.status = "approved" /\ e.device = n /\ e.late = a.late
        BY <4>2 DEF Pairing
      <4>. QED
        BY <4>1, <4>3
    <3>3. pairings' = [pairings EXCEPT ![p] = e] /\ devices' = Append(devices, NewDevice)
      BY <2>1, <3>1 DEF Claims
    <3>4. /\ pairings' \in Seq(Pairing) /\ Len(pairings') = Len(pairings)
          /\ \A r \in Ids(pairings) : pairings'[r] = IF r = p THEN e ELSE pairings[r]
      BY <3>2, <3>3, <1>2, Changed DEF Ids
    <3>5. NewDevice \in Device /\ NewDevice.token = 0
      BY DEF NewDevice, Device
    <3>6. /\ devices' \in Seq(Device) /\ Len(devices') = Len(devices) + 1
          /\ \A d \in Ids(devices) : devices'[d] = devices[d]
          /\ devices'[Len(devices) + 1] = NewDevice
      BY <3>3, <3>5, <1>2, RowAppended DEF Ids
    <3>7. \A r \in Ids(pairings) :
              /\ RowGoesOn(pairings[r], pairings'[r], Len(devices), r <= job.code)
              /\ pairings'[r].device <= Len(devices')
      BY <2>1, <3>2, <3>4, <3>6, <1>2, <1>4, <1>7 DEF RowGoesOn
    <3>8. \A d \in Ids(devices) : DeviceGoesOn(devices[d], devices'[d])
      BY <3>6 DEF DeviceGoesOn
    <3>9. \A d \in Len(devices) + 1 .. Len(devices') : devices'[d].token = 0
      BY <3>5, <3>6, <1>2
    <3>10. Evolves
      BY <3>4, <3>6, <3>7, <3>8, <3>9, <1>2, <1>9 DEF Evolves
    <3>. QED
      BY <3>2, <3>4, <3>10 DEF Drops
  <2>2. CASE pairings[p].status # "pending"
    BY <2>2, SameEvolves DEF Claims
  <2>. QED
    BY <2>1, <2>2
<1>. QED
  BY <1>1, <1>3, <1>5, <1>6, ServerKeeps

\* A device is revoked.
LEMMA RevokeKeeps ==
    ASSUME PairingInv, NEW d \in Ids(devices), Revoke(d)
    PROVE  PairingInv'
<1>. USE DEF PairingInv
<1>1. /\ devices' = [devices EXCEPT ![d] = [devices[d] EXCEPT !.token = 0, !.revoked = TRUE]]
      /\ pairings' = pairings /\ minted' = minted /\ approvals' = approvals
      /\ screen' = screen /\ token' = token /\ job' = job /\ call' = call /\ starts' = starts /\ polls' = polls
  BY DEF Revoke, tv
<1>2. /\ Len(pairings) \in Nat /\ Len(pairings) \in Len(pairings) .. MaxPairings
      /\ Len(devices) \in Nat /\ pairings \in Seq(Pairing) /\ devices \in Seq(Device) /\ devices[d] \in Device
      /\ \A r \in Ids(pairings) : pairings[r].device \in 0 .. Len(devices)
      /\ approvals \in [1 .. MaxPairings -> 0 .. MaxApprovals]
  BY BoundsAreNumbers, Records DEF Typed, TypeOK, Coded
<1>3. PICK e : e = [devices[d] EXCEPT !.token = 0, !.revoked = TRUE]
  OBVIOUS
<1>4. e \in Device /\ e.token = 0 /\ e.revoked /\ e.unheard = devices[d].unheard
  BY <1>2, <1>3 DEF Device
<1>5. /\ devices' \in Seq(Device) /\ Len(devices') = Len(devices)
      /\ \A k \in Ids(devices) : devices'[k] = IF k = d THEN e ELSE devices[k]
  BY <1>1, <1>2, <1>3, <1>4, Changed DEF Ids
<1>6. \A k \in Ids(devices) : DeviceGoesOn(devices[k], devices'[k])
  BY <1>4, <1>5 DEF DeviceGoesOn
<1>7. \A r \in Ids(pairings) : RowGoesOn(pairings[r], pairings[r], Len(devices), r <= job.code)
  BY DEF RowGoesOn
<1>8. Evolves
  BY <1>1, <1>2, <1>5, <1>6, <1>7 DEF Evolves
<1>9. Drops
  BY <1>1 DEF Drops
<1>. QED
  BY <1>1, <1>2, <1>8, <1>9, ServerKeeps DEF Unapproved

\* The rows of a revoked device are deleted.
LEMMA RevokeClearsKeeps ==
    ASSUME PairingInv, NEW d \in Ids(devices), RevokeClears(d)
    PROVE  PairingInv'
<1>. USE DEF PairingInv
<1>1. PICK gone : gone = {p \in Rows : pairings[p].device = d}
  OBVIOUS
<1>2. /\ devices[d].revoked /\ pairings' = Without(gone)
      /\ devices' = devices /\ minted' = minted /\ approvals' = approvals
      /\ screen' = screen /\ token' = token /\ job' = job /\ call' = call /\ starts' = starts /\ polls' = polls
  BY <1>1 DEF RevokeClears, tv
<1>3. /\ Evolves /\ Len(pairings') = Len(pairings)
      /\ \A p \in Ids(pairings) : pairings'[p] = IF p \in gone THEN [pairings[p] EXCEPT !.status = "gone"]
                                                               ELSE pairings[p]
  BY <1>2, WithoutEvolves
<1>4. Drops
  BY <1>1, <1>2, <1>3 DEF Drops
<1>5. approvals' \in [1 .. MaxPairings -> 0 .. MaxApprovals]
  BY <1>2 DEF Typed, TypeOK
<1>. QED
  BY <1>2, <1>3, <1>4, <1>5, ServerKeeps DEF Unapproved

\* A call deletes the rows of its device: the token it carries is older than the code
\* that is shown.
LEMMA CallServedKeeps ==
    ASSUME PairingInv, CallServed
    PROVE  PairingInv'
<1>. USE DEF PairingInv
<1>1. /\ devices' = devices /\ minted' = minted /\ approvals' = approvals
      /\ screen' = screen /\ token' = token /\ job' = job /\ starts' = starts /\ polls' = polls
      /\ call' \in {call, NoCall, [pc |-> "refused", id |-> 0]}
  BY DEF CallServed, tv
<1>2. Evolves /\ Drops
  <2>1. CASE Accepted(call.id)
    <3>1. PICK gone : gone = {p \in Rows : pairings[p].status = "approved"
                                              /\ devices[pairings[p].device].token = call.id}
      OBVIOUS
    <3>2. pairings' = Without(gone) /\ call.id # 0
      BY <2>1, <3>1 DEF CallServed, Accepted
    <3>3. /\ Evolves
          /\ \A p \in Ids(pairings) : pairings'[p] = IF p \in gone THEN [pairings[p] EXCEPT !.status = "gone"]
                                                                   ELSE pairings[p]
      BY <1>1, <3>2, WithoutEvolves
    <3>. QED
      BY <3>1, <3>2, <3>3 DEF Drops
  <2>2. CASE ~Accepted(call.id)
    BY <2>2, <1>1, SameEvolves DEF CallServed
  <2>. QED
    BY <2>1, <2>2
<1>3. approvals' \in [1 .. MaxPairings -> 0 .. MaxApprovals]
  BY <1>1 DEF Typed, TypeOK
<1>. QED
  BY <1>1, <1>2, <1>3, ServerKeeps DEF Unapproved

\* A code expires.
LEMMA CodeExpiresKeeps ==
    ASSUME PairingInv, NEW p \in Ids(pairings), CodeExpires(p)
    PROVE  PairingInv'
<1>. USE DEF PairingInv
<1>1. /\ pairings' = [pairings EXCEPT ![p].late = TRUE]
      /\ devices' = devices /\ minted' = minted /\ approvals' = approvals
      /\ screen' = screen /\ token' = token /\ job' = job /\ call' = call /\ starts' = starts /\ polls' = polls
  BY DEF CodeExpires, tv
<1>2. /\ \A r \in Ids(pairings) : pairings[r] \in Pairing
      /\ pairings \in [Ids(pairings) -> Pairing]
      /\ approvals \in [1 .. MaxPairings -> 0 .. MaxApprovals]
  BY Records DEF Typed, TypeOK, Ids
<1>3. PICK e : e = [pairings[p] EXCEPT !.late = TRUE]
  OBVIOUS
<1>4. e \in Pairing /\ e.late /\ e.device = pairings[p].device /\ e.status = pairings[p].status
  BY <1>2, <1>3 DEF Pairing
<1>5. PICK f \in [Ids(pairings) -> Pairing] : f = [pairings EXCEPT ![p] = e]
  BY <1>2, <1>4
<1>6. \A r \in Ids(pairings) : /\ pairings[r].late => f[r].late
                               /\ f[r].device = pairings[r].device
                               /\ f[r].status = pairings[r].status
  BY <1>2, <1>4, <1>5
<1>7. pairings' = f
  BY <1>1, <1>3, <1>5
<1>8. Evolves
  BY <1>1, <1>6, <1>7, RowsEvolve
<1>9. Drops
  BY <1>6, <1>7 DEF Drops
<1>. QED
  BY <1>1, <1>2, <1>8, <1>9, ServerKeeps DEF Unapproved

-----------------------------------------------------------------------------
(* The television's steps                                                   *)

\* A request that is given up is the old one from then on, its answer is lost.
LEMMA GivenUpOf ==
    ASSUME NEW slots \in [Slots -> Request], slots["old"].pc # "answered"
    PROVE  /\ GivenUp(slots) \in [Slots -> Request] /\ GivenUp(slots)["own"] = Idle
           /\ GivenUp(slots)["old"].pc # "answered"
           /\ GivenUp(slots)["old"] \in {slots["own"], slots["old"]}
BY DEF GivenUp, Slots, Request, Idle

\* The requests of the TV.
LEMMA TvRequests ==
    ASSUME PairingInv
    PROVE  /\ starts \in [Slots -> Request] /\ polls \in [Slots -> Request]
           /\ "own" \in Slots /\ "old" \in Slots /\ Idle \in Request /\ Asked \in Request
           /\ starts["old"].pc # "answered" /\ polls["old"].pc # "answered"
           /\ PollHolds(Idle) /\ PollHolds(Asked) /\ Idle.pc = "idle" /\ Asked.pc = "asked"
           /\ PollHolds(polls["own"]) /\ PollHolds(polls["old"])
BY DEF PairingInv, Typed, TypeOK, Slots, Idle, Asked, Request, OldIsLost, PollHolds, Polled

\* The server waits, the TV does not change its code or get a token.
LEMMA TvKeeps ==
    ASSUME PairingInv, server' = server, job' \in Job, job'.code = job.code,
           screen' \in {"loading", "pairing", "library", "settings"},
           \/ token' \in {token, NoToken}
           \/ /\ token' \in [id : 0 .. minted, device : 0 .. Len(devices)]
              /\ token'.device # 0 /\ Current(token'.id, token'.device),
           call' \in {call, NoCall},
           starts' \in [Slots -> Request], polls' \in [Slots -> Request],
           starts'["old"].pc # "answered", polls'["old"].pc # "answered",
           PollHolds(polls'["own"]), PollHolds(polls'["old"]),
           polls'["own"].pc \in {"idle", "asked"}, JobHolds',
           job'.pc \in {"waiting", "asking"} => job.pc \in {"waiting", "asking"},
           job'.pc = "refused" => job.pc = "refused" \/ Final(job.code)
    PROVE  PairingInv'
<1>. USE DEF PairingInv
<1>1. pairings' = pairings /\ devices' = devices /\ minted' = minted /\ approvals' = approvals
  BY DEF server
<1>2. Typed'
  <2>1. NoToken \in [id : 0 .. minted, device : 0 .. Len(devices)]
        /\ NoCall \in [pc : {"none", "asked", "refused"}, id : 0 .. minted]
    <3>1. minted \in Nat /\ Len(devices) \in Nat
      BY Records, BoundsAreNumbers DEF Typed, TypeOK
    <3>. QED
      BY <3>1 DEF NoToken, NoCall
  <2>. QED
    BY <2>1, <1>1 DEF Typed, TypeOK
<1>3. Coded' /\ Unapproved'
  BY <1>1 DEF Coded, Unapproved
<1>4. OldIsLost'
  BY DEF OldIsLost
<1>5. Polled'
  <2>1. \A s \in Slots : PollHolds(polls'[s])
    BY DEF Slots
  <2>. QED
    BY <2>1, <1>1 DEF Polled, PollHolds
<1>6. AnswerHolds(polls["own"])' /\ ReasonHolds(polls["own"])'
  BY DEF AnswerHolds, ReasonHolds
<1>7. TokenHolds'
  BY <1>1 DEF TokenHolds, Current, NoToken
<1>8. Shown'
  BY <1>1 DEF Shown, NoCall
<1>9. Refused'
  BY <1>1 DEF Refused, Final
<1>. QED
  BY <1>2, <1>3, <1>4, <1>5, <1>6, <1>7, <1>8, <1>9

\* A new job: the requests of the old one are given up.
LEMMA BeginKeeps ==
    ASSUME PairingInv, server' = server, BeginPairing,
           token' \in {token, NoToken}, token'.id = 0, call' \in {call, NoCall}
    PROVE  PairingInv'
<1>. USE DEF PairingInv
<1>1. /\ screen' = "pairing" /\ job' = [job EXCEPT !.pc = "starting"]
      /\ starts' = [GivenUp(starts) EXCEPT !["own"] = Asked] /\ polls' = GivenUp(polls)
  BY DEF BeginPairing
<1>2. PICK g, h : g = GivenUp(starts) /\ h = GivenUp(polls)
  OBVIOUS
<1>3. /\ g \in [Slots -> Request] /\ g["old"].pc # "answered"
      /\ h \in [Slots -> Request] /\ h["own"] = Idle /\ h["old"].pc # "answered"
      /\ h["old"] \in {polls["own"], polls["old"]}
  BY <1>2, GivenUpOf, TvRequests
<1>4. job \in Job
  BY DEF Typed, TypeOK
<1>5. job' \in Job /\ job'.code = job.code /\ job'.pc = "starting"
  BY <1>1, <1>4 DEF Job
<1>6. /\ starts' \in [Slots -> Request] /\ starts'["own"] = Asked /\ starts'["old"].pc # "answered"
      /\ polls' \in [Slots -> Request] /\ polls'["own"] = Idle /\ polls'["old"].pc # "answered"
      /\ PollHolds(polls'["old"])
  BY <1>1, <1>2, <1>3, TvRequests
<1>7. JobHolds'
  BY <1>5, <1>6, TvRequests DEF JobHolds
<1>8. screen' \in {"loading", "pairing", "library", "settings"}
  BY <1>1
<1>. QED
  BY <1>5, <1>6, <1>7, <1>8, TvRequests, TvKeeps

\* The job is cancelled.
LEMMA StopKeeps ==
    ASSUME PairingInv, server' = server, StopPairing, token' = token, call' \in {call, NoCall},
           screen' \in {"loading", "pairing", "library", "settings"}
    PROVE  PairingInv'
<1>. USE DEF PairingInv
<1>1. /\ job' = [job EXCEPT !.pc = "none"]
      /\ starts' = GivenUp(starts) /\ polls' = GivenUp(polls)
  BY DEF StopPairing
<1>2. /\ starts' \in [Slots -> Request] /\ starts'["own"] = Idle /\ starts'["old"].pc # "answered"
      /\ polls' \in [Slots -> Request] /\ polls'["own"] = Idle /\ polls'["old"].pc # "answered"
      /\ PollHolds(polls'["old"])
  BY <1>1, GivenUpOf, TvRequests
<1>3. job \in Job
  BY DEF Typed, TypeOK
<1>4. job' \in Job /\ job'.code = job.code /\ job'.pc = "none"
  BY <1>1, <1>3 DEF Job
<1>5. JobHolds'
  BY <1>2, <1>4, TvRequests DEF JobHolds
<1>. QED
  BY <1>2, <1>4, <1>5, TvRequests, TvKeeps

\* The TV is let in at its start, when it waits for no code.
LEMMA BootAcceptedKeeps ==
    ASSUME PairingInv, BootAccepted
    PROVE  PairingInv'
<1>. USE DEF PairingInv
<1>1. PICK gone : pairings' = Without(gone)
  BY DEF BootAccepted
<1>2. /\ screen' = "library" /\ devices' = devices /\ minted' = minted /\ approvals' = approvals
      /\ token' = token /\ call' = call /\ starts' = starts /\ polls' = polls /\ job' = job /\ token.id # 0
  BY DEF BootAccepted, Accepted
<1>3. Evolves
  BY <1>1, <1>2, WithoutEvolves
<1>4. Drops
  BY <1>2 DEF Drops
<1>5. approvals' \in [1 .. MaxPairings -> 0 .. MaxApprovals]
  BY <1>2 DEF Typed, TypeOK
<1>. QED
  BY <1>2, <1>3, <1>4, <1>5, ServerKeeps DEF Unapproved

\* The job waits, asks, or ends.
LEMMA JobKeeps ==
    ASSUME PairingInv, CountdownEnds \/ PollSent \/ PollLost
    PROVE  PairingInv'
<1>. USE DEF PairingInv
<1>1. /\ job \in Job /\ screen \in {"loading", "pairing", "library", "settings"}
      /\ screen' = screen /\ token' = token /\ call' = call /\ starts' = starts /\ server' = server
  BY DEF Typed, TypeOK, CountdownEnds, PollSent, PollLost, server
<1>2. CASE CountdownEnds
  <2>1. job.pc = "waiting" /\ job' = [job EXCEPT !.pc = "ended"] /\ polls' = polls
    BY <1>2 DEF CountdownEnds
  <2>2. job' \in Job /\ job'.code = job.code /\ job'.pc = "ended"
    BY <2>1, <1>1 DEF Job
  <2>3. polls["own"].pc = "idle" /\ starts["own"].pc = "idle"
    BY <2>1 DEF JobHolds
  <2>4. JobHolds'
    BY <2>1, <2>2, <2>3, <1>1, TvRequests DEF JobHolds
  <2>. QED
    BY <2>1, <2>2, <2>3, <2>4, <1>1, TvRequests, TvKeeps
<1>3. CASE PollSent
  <2>1. job.pc = "waiting" /\ job' = [job EXCEPT !.pc = "asking"] /\ polls' = [polls EXCEPT !["own"] = Asked]
    BY <1>3 DEF PollSent
  <2>2. job' \in Job /\ job'.code = job.code /\ job'.pc = "asking"
    BY <2>1, <1>1 DEF Job
  <2>3. polls' \in [Slots -> Request] /\ polls'["own"] = Asked /\ polls'["old"] = polls["old"]
    BY <2>1, TvRequests
  <2>4. JobHolds'
    BY <2>1, <2>2, <2>3, <1>1, TvRequests DEF JobHolds
  <2>. QED
    BY <2>1, <2>2, <2>3, <2>4, <1>1, TvRequests, TvKeeps
<1>4. CASE PollLost
  <2>1. job.pc = "asking" /\ job' = [job EXCEPT !.pc = "waiting"]
    BY <1>4 DEF PollLost
  <2>2. job' \in Job /\ job'.code = job.code /\ job'.pc = "waiting"
    BY <2>1, <1>1 DEF Job
  <2>3. /\ polls' \in [Slots -> Request] /\ polls'["own"] = Idle /\ polls'["old"].pc # "answered"
        /\ PollHolds(polls'["old"])
    <3>1. CASE polls' = GivenUp(polls)
      BY <3>1, TvRequests, GivenUpOf
    <3>2. CASE polls' = [polls EXCEPT !["own"] = Idle]
      BY <3>2, TvRequests
    <3>. QED
      BY <3>1, <3>2, <1>4 DEF PollLost
  <2>4. JobHolds'
    BY <2>1, <2>2, <2>3, <1>1, TvRequests DEF JobHolds
  <2>. QED
    BY <2>1, <2>2, <2>3, <2>4, <1>1, TvRequests, TvKeeps
<1>. QED
  BY <1>2, <1>3, <1>4

\* A start that is not heard.
LEMMA StartLostKeeps ==
    ASSUME PairingInv, StartLost
    PROVE  PairingInv'
<1>. USE DEF PairingInv
<1>1. /\ job \in Job /\ screen \in {"loading", "pairing", "library", "settings"}
      /\ screen' = screen /\ token' = token /\ call' = call /\ polls' = polls /\ server' = server
      /\ job.pc = "starting" /\ job' = [job EXCEPT !.pc = "ended"]
  BY DEF Typed, TypeOK, StartLost, server
<1>2. job' \in Job /\ job'.code = job.code /\ job'.pc = "ended"
  BY <1>1 DEF Job
<1>3. starts' \in [Slots -> Request] /\ starts'["own"] = Idle /\ starts'["old"].pc # "answered"
  <2>1. CASE starts' = GivenUp(starts)
    BY <2>1, TvRequests, GivenUpOf
  <2>2. CASE starts' = [starts EXCEPT !["own"] = Idle]
    BY <2>2, TvRequests
  <2>. QED
    BY <2>1, <2>2 DEF StartLost
<1>4. polls["own"].pc = "idle"
  BY <1>1 DEF JobHolds
<1>5. JobHolds'
  BY <1>1, <1>2, <1>3, <1>4, TvRequests DEF JobHolds
<1>. QED
  BY <1>1, <1>2, <1>3, <1>4, <1>5, TvRequests, TvKeeps

\* The code of a start is shown: its row is later than the last one shown.
LEMMA StartHeardKeeps ==
    ASSUME PairingInv, StartHeard
    PROVE  PairingInv'
<1>. USE DEF PairingInv
<1>1. PICK p : p = starts["own"].row
  OBVIOUS
<1>2. /\ starts["own"].pc = "answered" /\ job' = [pc |-> "waiting", code |-> p]
      /\ starts' = [starts EXCEPT !["own"] = Idle]
      /\ pairings' = pairings /\ devices' = devices /\ minted' = minted /\ approvals' = approvals
      /\ screen' = screen /\ token' = token /\ call' = call /\ polls' = polls
  BY <1>1 DEF StartHeard, server
<1>3. /\ p \in job.code + 1 .. Len(pairings) /\ job.pc = "starting" /\ polls["own"].pc = "idle"
      /\ token.id = 0
  BY <1>1, <1>2, TvRequests DEF JobHolds
<1>4. job.code \in Nat /\ Len(pairings) \in Nat /\ Len(pairings) <= MaxPairings /\ MaxPairings \in Nat
  BY Records, BoundsAreNumbers DEF Typed
<1>5. p \in Ids(pairings) /\ p > job.code /\ p \in Nat
  BY <1>3, <1>4 DEF Ids
<1>6. job' \in Job /\ job'.pc = "waiting" /\ job'.code = p
  BY <1>2, <1>5 DEF Job
<1>7. /\ starts' \in [Slots -> Request] /\ starts'["own"] = Idle /\ starts'["old"] = starts["old"]
  BY <1>2, TvRequests
<1>8. Typed'
  BY <1>2, <1>4, <1>5, <1>6, <1>7 DEF Typed, TypeOK, Ids
<1>9. Coded' /\ Unapproved'
  BY <1>2, <1>4, <1>5, <1>6 DEF Coded, Unapproved, Ids
<1>10. OldIsLost' /\ Polled'
  BY <1>2, <1>7 DEF OldIsLost, Polled, PollHolds
<1>11. AnswerHolds(polls["own"])' /\ ReasonHolds(polls["own"])'
  BY <1>2, <1>3 DEF AnswerHolds, ReasonHolds
<1>12. JobHolds'
  BY <1>2, <1>3, <1>4, <1>5, <1>6, <1>7, TvRequests DEF JobHolds
<1>13. TokenHolds' /\ Refused'
  BY <1>2, <1>6 DEF TokenHolds, Current, Refused
<1>14. Shown'
  BY <1>2, <1>5, <1>6 DEF Shown, Coded
<1>. QED
  BY <1>8, <1>9, <1>10, <1>11, <1>12, <1>13, <1>14

\* The answer of a poll: a token, a refusal, or a reason to wait on.
LEMMA PollHeardKeeps ==
    ASSUME PairingInv, PollHeard
    PROVE  PairingInv'
<1>. USE DEF PairingInv
<1>1. PICK r : r = polls["own"]
  OBVIOUS
<1>2. /\ r.pc = "answered" /\ polls' = [polls EXCEPT !["own"] = Idle]
      /\ server' = server /\ call' = call /\ starts' = starts
      /\ \/ /\ r.says = "approved" /\ token' = [id |-> r.token, device |-> r.device]
            /\ screen' = "library" /\ job' = [job EXCEPT !.pc = "none"]
         \/ /\ r.says \in {"pending", "unknown"} /\ token' = token /\ screen' = screen
            /\ job' = [job EXCEPT !.pc = "waiting"]
         \/ /\ r.says \notin {"approved", "pending", "unknown"} /\ token' = token /\ screen' = screen
            /\ job' = [job EXCEPT !.pc = "refused"]
  BY <1>1 DEF PollHeard, server
<1>3. /\ job.pc = "asking" /\ starts["own"].pc = "idle" /\ job.code # 0 /\ token.id = 0
      /\ job \in Job /\ screen \in {"loading", "pairing", "library", "settings"} /\ r \in Request
      /\ AnswerHolds(r)
  BY <1>1, <1>2, TvRequests DEF JobHolds, Typed, TypeOK
<1>4. /\ polls' \in [Slots -> Request] /\ polls'["own"] = Idle /\ polls'["old"] = polls["old"]
  BY <1>2, TvRequests
<1>5. CASE r.says = "approved"
  <2>1. /\ r.token \in 1 .. minted /\ r.device \in Ids(devices) /\ Current(r.token, r.device)
        /\ minted \in Nat /\ Len(devices) \in Nat
    <3>1. minted \in Nat /\ Len(devices) \in Nat
      BY Records, BoundsAreNumbers DEF Typed, TypeOK
    <3>. QED
      BY <3>1, <1>2, <1>3, <1>5 DEF AnswerHolds
  <2>2. /\ token' = [id |-> r.token, device |-> r.device] /\ screen' = "library"
        /\ job' = [job EXCEPT !.pc = "none"]
    BY <1>2, <1>5
  <2>3. job' \in Job /\ job'.code = job.code /\ job'.pc = "none"
    BY <2>2, <1>3 DEF Job
  <2>4. /\ token' \in [id : 0 .. minted, device : 0 .. Len(devices)]
        /\ token'.device # 0 /\ Current(token'.id, token'.device)
    BY <2>1, <2>2 DEF Ids
  <2>5. JobHolds'
    BY <2>3, <1>2, <1>3, <1>4, TvRequests DEF JobHolds
  <2>. QED
    BY <2>2, <2>3, <2>4, <2>5, <1>2, <1>4, TvRequests, TvKeeps
<1>6. CASE r.says \in {"pending", "unknown"}
  <2>1. token' = token /\ screen' = screen /\ job' = [job EXCEPT !.pc = "waiting"]
    BY <1>2, <1>6
  <2>2. job' \in Job /\ job'.code = job.code /\ job'.pc = "waiting"
    BY <2>1, <1>3 DEF Job
  <2>3. JobHolds'
    BY <2>1, <2>2, <1>2, <1>3, <1>4, TvRequests DEF JobHolds
  <2>. QED
    BY <2>1, <2>2, <2>3, <1>2, <1>3, <1>4, TvRequests, TvKeeps
<1>7. CASE r.says \notin {"approved", "pending", "unknown"}
  <2>1. token' = token /\ screen' = screen /\ job' = [job EXCEPT !.pc = "refused"]
    BY <1>2, <1>7
  <2>2. job' \in Job /\ job'.code = job.code /\ job'.pc = "refused"
    BY <2>1, <1>3 DEF Job
  <2>3. JobHolds'
    BY <2>1, <2>2, <1>2, <1>3, <1>4, TvRequests DEF JobHolds
  <2>4. Final(job.code)
    <3>1. r.says \in {"", "pending", "approved", "denied", "expired", "unknown"}
      BY <1>3 DEF Request
    <3>. QED
      BY <3>1, <1>2, <1>3, <1>7 DEF AnswerHolds
  <2>. QED
    BY <2>1, <2>2, <2>3, <2>4, <1>2, <1>3, <1>4, TvRequests, TvKeeps
<1>. QED
  BY <1>5, <1>6, <1>7

\* Old requests that fail.
LEMMA OldFailsKeeps ==
    ASSUME PairingInv, OldFails
    PROVE  PairingInv'
<1>. USE DEF PairingInv
<1>1. /\ pairings' = pairings /\ devices' = devices /\ minted' = minted /\ approvals' = approvals
      /\ screen' = screen /\ token' = token /\ job' = job /\ call' = call
  BY DEF OldFails, server, tv
<1>2. Evolves /\ Drops /\ Unapproved'
  BY <1>1, SameEvolves DEF Unapproved
<1>3. CASE starts' = [starts EXCEPT !["old"] = Idle] /\ polls' = polls
  <2>1. starts' \in [Slots -> Request] /\ starts'["own"] = starts["own"] /\ starts'["old"] = Idle
    BY <1>3, TvRequests
  <2>2. TypeOK'
    BY <2>1, <1>1, <1>3 DEF Typed, TypeOK
  <2>. QED
    BY <2>1, <2>2, <1>1, <1>2, <1>3, TvRequests, PollsWait DEF JobHolds
<1>4. CASE polls' = [polls EXCEPT !["old"] = Idle] /\ starts' = starts
  <2>1. polls' \in [Slots -> Request] /\ PollServed("old", polls["old"], Idle) /\ PollHolds(Idle)'
    BY <1>4, TvRequests DEF PollServed, PollHolds, Idle
  <2>2. TypeOK'
    BY <2>1, <1>1, <1>4 DEF Typed, TypeOK
  <2>. QED
    BY <2>1, <2>2, <1>1, <1>2, <1>4, TvRequests, PollsServed
<1>. QED
  BY <1>3, <1>4 DEF OldFails

\* The library's calls, and the settings that are left.
LEMMA NothingElseKeeps ==
    ASSUME PairingInv, server' = server, job' = job, token' = token, starts' = starts, polls' = polls,
           screen' \in {"loading", "pairing", "library", "settings"},
           call' \in {call, NoCall, [pc |-> "asked", id |-> token.id]}
    PROVE  PairingInv'
<1>. USE DEF PairingInv
<1>1. pairings' = pairings /\ devices' = devices /\ minted' = minted /\ approvals' = approvals
  BY DEF server
<1>2. Evolves /\ Drops /\ Unapproved'
  BY <1>1, SameEvolves DEF Unapproved
<1>3. call' \in [pc : {"none", "asked", "refused"}, id : 0 .. minted] /\ call'.id \in {call.id, 0, token.id}
  <2>1. minted \in Nat /\ token.id \in 0 .. minted /\ call \in [pc : {"none", "asked", "refused"}, id : 0 .. minted]
    BY BoundsAreNumbers DEF Typed, TypeOK
  <2>. QED
    BY <2>1 DEF NoCall
<1>4. TypeOK'
  BY <1>1, <1>3 DEF Typed, TypeOK
<1>. QED
  BY <1>1, <1>2, <1>3, <1>4, TvRequests, PollsWait DEF JobHolds

-----------------------------------------------------------------------------
(* The theorems                                                             *)

\* The invariant holds at the start.
LEMMA PairingStarts == Init => PairingInv
<1>. SUFFICES ASSUME Init PROVE PairingInv
  OBVIOUS
<1>1. Len(pairings) = 0 /\ Len(devices) = 0 /\ Ids(pairings) = {} /\ pairings \in Seq(Pairing) /\ devices \in Seq(Device)
  BY DEF Init, Ids
<1>2. /\ starts \in [Slots -> Request] /\ polls \in [Slots -> Request]
      /\ starts["own"].pc = "asked" /\ starts["old"].pc = "idle"
      /\ polls["own"].pc = "idle" /\ polls["old"].pc = "idle"
  BY DEF Init, Slots, Request, Idle, Asked
<1>3. MaxApprovals \in Nat /\ MaxTokens \in Nat /\ MaxPairings \in Nat
  BY BoundsAreNumbers
<1>4. /\ token \in [id : 0 .. minted, device : 0 .. Len(devices)] /\ token.id = 0
      /\ call \in [pc : {"none", "asked", "refused"}, id : 0 .. minted]
      /\ job \in Job /\ job.pc = "starting" /\ job.code = 0 /\ minted = 0
      /\ approvals \in [1 .. MaxPairings -> 0 .. MaxApprovals]
      /\ screen = "pairing"
  BY <1>1, <1>3 DEF Init, NoToken, NoCall, Job
<1>5. Typed
  BY <1>1, <1>2, <1>3, <1>4 DEF Typed, TypeOK
<1>6. Coded /\ Unapproved
  BY <1>1 DEF Coded, Unapproved, Init
<1>7. OldIsLost /\ Polled /\ AnswerHolds(polls["own"]) /\ ReasonHolds(polls["own"])
  BY <1>2 DEF OldIsLost, Polled, PollHolds, AnswerHolds, ReasonHolds, Slots
<1>8. JobHolds /\ TokenHolds /\ Shown /\ Refused
  BY <1>2, <1>4 DEF JobHolds, TokenHolds, Shown, Refused
<1>. QED
  BY <1>5, <1>6, <1>7, <1>8 DEF PairingInv

\* Every step keeps the invariant.
LEMMA PairingGoesOn == PairingInv /\ [Next]_pairVars => PairingInv'
<1>. SUFFICES ASSUME PairingInv, [Next]_pairVars PROVE PairingInv'
  OBVIOUS
<1>0. screen \in {"loading", "pairing", "library", "settings"}
  BY DEF PairingInv, Typed, TypeOK
<1>1. CASE UNCHANGED pairVars
  BY <1>0, <1>1, NothingElseKeeps DEF pairVars, server
<1>2. ASSUME NEW s \in Slots, StartStep(s) \/ PollStep(s) PROVE PairingInv'
  BY <1>2, StartClearsKeeps, StartInsertsKeeps, PollReadsKeeps, PollLapsesKeeps, PollFindsKeeps, PollIssuesKeeps
     DEF StartStep, PollStep
<1>3. ASSUME NEW d \in Ids(devices), RevokeStep(d) PROVE PairingInv'
  BY <1>3, RevokeKeeps, RevokeClearsKeeps DEF RevokeStep
<1>4. ASSUME NEW p \in Ids(pairings), ApproveStep(p) \/ CodeExpires(p) PROVE PairingInv'
  BY <1>4, ApproveReadsKeeps, PairingClaimKeeps, CodeExpiresKeeps DEF ApproveStep
<1>5. CASE Restarts
  <2>1. server' = server /\ token' = token /\ call' = NoCall
    BY <1>5 DEF Restarts, server
  <2>2. CASE token.id = 0
    BY <2>1, <2>2, <1>5, BeginKeeps DEF Restarts, Bootstrap
  <2>3. CASE token.id # 0
    BY <2>1, <2>3, <1>5, StopKeeps DEF Restarts, Bootstrap
  <2>. QED
    BY <2>2, <2>3
<1>6. CASE BootRefused \/ Forget
  BY <1>6, BeginKeeps DEF BootRefused, Forget, NoToken
<1>7. CASE RetryPairing
  BY <1>7, BeginKeeps DEF RetryPairing, PairingInv, JobHolds
<1>8. CASE OpenSettings
  BY <1>8, StopKeeps DEF OpenSettings
<1>9. CASE CloseSettings
  <2>1. CASE token.id = 0
    BY <2>1, <1>9, BeginKeeps DEF CloseSettings
  <2>2. CASE token.id # 0
    BY <2>2, <1>9, NothingElseKeeps DEF CloseSettings
  <2>. QED
    BY <2>1, <2>2
<1>10. CASE CallSent \/ CallFails
  BY <1>0, <1>10, NothingElseKeeps DEF CallSent, CallFails, server, tv
<1>11. CASE CallRefused
  <2>1. CASE screen = "library"
    BY <2>1, <1>11, BeginKeeps DEF CallRefused, NoToken
  <2>2. CASE screen # "library"
    BY <2>2, <1>0, <1>11, NothingElseKeeps DEF CallRefused
  <2>. QED
    BY <2>1, <2>2
<1>. QED
  BY <1>1, <1>2, <1>3, <1>4, <1>5, <1>6, <1>7, <1>8, <1>9, <1>10, <1>11,
     BootAcceptedKeeps, JobKeeps, StartHeardKeeps, StartLostKeeps, PollHeardKeeps, OldFailsKeeps, CallServedKeeps
     DEF Next, User, Boot, Pairs, Library

\* The inductive invariant of the pairing holds throughout.
THEOREM PairingInvariant == Spec => []PairingInv
BY PairingStarts, PairingGoesOn, PTL DEF Spec

\* Rows, devices, tokens and requests keep their types, for any bounds.
THEOREM PairingTyped == Spec => []TypeOK
<1>1. PairingInv => TypeOK
  BY DEF PairingInv, Typed
<1>. QED
  BY <1>1, PairingInvariant, PTL

\* The token of a TV is the one its device has, unless the device was revoked or a
\* poll the TV had given up was served after it (tvPairing.ts: pollPairing).
THEOREM TokenStaysCurrent == Spec => []TokenIsCurrent
<1>1. PairingInv => TokenIsCurrent
  BY DEF PairingInv, TokenHolds, Current, TokenIsCurrent
<1>. QED
  BY <1>1, PairingInvariant, PTL

\* A TV that is told to start a new code was not approved, or may be refused
\* (AppViewModel.kt: startPairing; tvPairing.ts: pollPairing).
THEOREM ApprovedIsNotRefused == Spec => []NotRefusedOnceApproved
<1>1. ASSUME PairingInv PROVE NotRefusedOnceApproved
  <2>. SUFFICES ASSUME job.pc = "refused", pairings[job.code].device # 0
                PROVE  \/ pairings[job.code].late \/ pairings[job.code].device \notin Live
                       \/ Len(pairings) > job.code
    BY DEF NotRefusedOnceApproved
  <2>1. Final(job.code)
    BY <1>1 DEF PairingInv, Refused
  <2>. QED
    BY <2>1 DEF Final, Live
<1>. QED
  BY <1>1, PairingInvariant, PTL
=============================================================================

----------------------------- MODULE WebProofs ------------------------------
(***************************************************************************)
(* Between the pages, the backend and a worker, for any number of tabs,    *)
(* workers, links, accounts, sessions, tokens, routes, calls and threads:  *)
(* the session token and its copies; the connection cache of a tab; the    *)
(* feeds of the SharedWorker; the MEGA session of a worker; the workers    *)
(* page; the downloads that are added while workers are deleted.           *)
(***************************************************************************)
EXTENDS SessionTokens, TabCalls, AddDownload, WorkersPage, MegaSessions, Feeds, TLAPS

-----------------------------------------------------------------------------
(* The token of a worker, and the calls of a tab.  OnlyRetriesStray is not  *)
(* inductive: that a cached connection and a first request lead to the      *)
(* right worker rests on what fetches and the refresh hold.                 *)

\* A step of the specification is one of the named actions.
LEMMA StepCases ==
    ASSUME [Next]_tokenVars
    PROVE  \/ \E u \in Uses, w \in Workers :
                  (\E t \in Tokens : RotationAsked(u, w, t)) \/ RotationTaken(u, w)
                  \/ RotationLost(u, w) \/ RotationTimesOut(u, w) \/ RotationAnswered(u, w)
                  \/ RotationSaved(u, w) \/ RotationReturns(u, w)
           \/ \E h \in Handlers, w \in Workers :
                  RegistrationPosted(h, w)
                  \/ (\E t \in Tokens : RegistrationStored(h, w, t))
                  \/ RegistrationAdopted(h, w) \/ RegistrationUnanswered(h, w)
                  \/ RegistrationLost(h, w)
           \/ \E w \in Workers : Restart(w) \/ Heartbeat(w) \/ HeartbeatAges(w) \/ Expires(w)
           \/ StaleCleared
           \/ UNCHANGED tokenVars
<1>1. CASE UNCHANGED tokenVars
  BY <1>1
<1>2. CASE Next
  <2>1. Unused \in Tokens
    BY <1>2 DEF Next, Unused
  <2>2. QED
    BY <1>2, <2>1 DEF Next, RotationStep, RegistrationStep, WorkerStep
<1>3. QED
  BY <1>1, <1>2

-----------------------------------------------------------------------------
(* Types *)

\* A job that does nothing is a job.
LEMMA IdleJobTyped ==
    /\ IdleJob \in Rotation /\ IdleJob \in Registration
    /\ IdleJob.pc = "idle" /\ IdleJob.token = None /\ IdleJob.alone = FALSE
  BY DEF IdleJob, Rotation, Registration, MaybeToken

\* What belongs to one worker.
LEMMA FieldsTyped ==
    ASSUME TypeOK, NEW w \in Workers
    PROVE  /\ token[w] \in MaybeToken
           /\ row[w] \in Row
           /\ rot[w] \in [Uses -> Rotation]
           /\ reg[w] \in [Handlers -> Registration]
           /\ \A u \in Uses : rot[w][u] \in Rotation /\ rot[w][u].token \in MaybeToken
           /\ \A h \in Handlers : reg[w][h] \in Registration /\ reg[w][h].token \in MaybeToken
  BY DEF TypeOK, Rotation, Registration

\* Disturbing requests changes nothing but whether they are alone.
LEMMA DisturbedRotations ==
    ASSUME NEW jobs \in [Uses -> Rotation]
    PROVE  /\ Disturbed(jobs) \in [Uses -> Rotation]
           /\ \A u \in Uses : /\ Disturbed(jobs)[u].pc = jobs[u].pc
                             /\ Disturbed(jobs)[u].token = jobs[u].token
                             /\ Disturbed(jobs)[u].alone = FALSE
  BY DEF Disturbed, Rotation

\* The same of registrations.
LEMMA DisturbedRegistrations ==
    ASSUME NEW jobs \in [Handlers -> Registration]
    PROVE  /\ Disturbed(jobs) \in [Handlers -> Registration]
           /\ \A h \in Handlers : /\ Disturbed(jobs)[h].pc = jobs[h].pc
                                 /\ Disturbed(jobs)[h].token = jobs[h].token
                                 /\ Disturbed(jobs)[h].alone = FALSE
  BY DEF Disturbed, Registration

\* What a new rotation does to the requests.
LEMMA AskedEffect ==
    ASSUME TypeOK, NEW u \in Uses, NEW w \in Workers, NEW t \in Tokens, RotationAsked(u, w, t)
    PROVE  /\ rot' \in [Workers -> [Uses -> Rotation]]
           /\ reg' \in [Workers -> [Handlers -> Registration]]
           /\ rot'[w][u].pc = "asked" /\ rot'[w][u].alone = Quiet(w) /\ rot'[w][u].token = t
           /\ \A v \in Uses : v # u => rot'[w][v].token = rot[w][v].token
           /\ \A v \in Uses : v # u => rot'[w][v].pc = rot[w][v].pc /\ rot'[w][v].alone = FALSE
           /\ \A h \in Handlers : reg'[w][h].pc = reg[w][h].pc /\ reg'[w][h].alone = FALSE
           /\ \A x \in Workers : x # w => rot'[x] = rot[x] /\ reg'[x] = reg[x]
<1> DEFINE new == [pc |-> "asked", token |-> t, alone |-> Quiet(w)]
           jobs == [Disturbed(rot[w]) EXCEPT ![u] = new]
<1>1. new \in Rotation /\ new.pc = "asked" /\ new.alone = Quiet(w) /\ new.token = t
  BY DEF Rotation, MaybeToken, Quiet
<1>2. rot' = [rot EXCEPT ![w] = jobs] /\ reg' = [reg EXCEPT ![w] = Disturbed(reg[w])]
  BY DEF RotationAsked
<1>3. /\ jobs \in [Uses -> Rotation] /\ jobs[u] = new
      /\ \A v \in Uses : v # u => /\ jobs[v].pc = rot[w][v].pc /\ jobs[v].alone = FALSE
                                /\ jobs[v].token = rot[w][v].token
  <2> HIDE DEF new
  <2>1. QED
    BY <1>1, FieldsTyped, DisturbedRotations
<1>4. /\ Disturbed(reg[w]) \in [Handlers -> Registration]
      /\ \A h \in Handlers : Disturbed(reg[w])[h].pc = reg[w][h].pc /\ Disturbed(reg[w])[h].alone = FALSE
  BY FieldsTyped, DisturbedRegistrations
<1> HIDE DEF new, jobs
<1>5. QED
  BY <1>1, <1>2, <1>3, <1>4 DEF TypeOK

\* What a new registration does to the requests.
LEMMA PostedEffect ==
    ASSUME TypeOK, NEW h \in Handlers, NEW w \in Workers, RegistrationPosted(h, w)
    PROVE  /\ rot' \in [Workers -> [Uses -> Rotation]]
           /\ reg' \in [Workers -> [Handlers -> Registration]]
           /\ reg'[w][h].pc = "posted" /\ reg'[w][h].alone = Quiet(w)
           /\ \A g \in Handlers : g # h => reg'[w][g].pc = reg[w][g].pc /\ reg'[w][g].alone = FALSE
           /\ \A u \in Uses : /\ rot'[w][u].pc = rot[w][u].pc /\ rot'[w][u].alone = FALSE
                             /\ rot'[w][u].token = rot[w][u].token
           /\ \A x \in Workers : x # w => rot'[x] = rot[x] /\ reg'[x] = reg[x]
<1> DEFINE new == [pc |-> "posted", token |-> None, alone |-> Quiet(w)]
           jobs == [Disturbed(reg[w]) EXCEPT ![h] = new]
<1>1. new \in Registration /\ new.pc = "posted" /\ new.alone = Quiet(w)
  BY DEF Registration, MaybeToken, Quiet
<1>2. reg' = [reg EXCEPT ![w] = jobs] /\ rot' = [rot EXCEPT ![w] = Disturbed(rot[w])]
  BY DEF RegistrationPosted
<1>3. /\ jobs \in [Handlers -> Registration] /\ jobs[h] = new
      /\ \A g \in Handlers : g # h => jobs[g].pc = reg[w][g].pc /\ jobs[g].alone = FALSE
  <2> HIDE DEF new
  <2>1. QED
    BY <1>1, FieldsTyped, DisturbedRegistrations
<1>4. /\ Disturbed(rot[w]) \in [Uses -> Rotation]
      /\ \A u \in Uses : /\ Disturbed(rot[w])[u].pc = rot[w][u].pc
                        /\ Disturbed(rot[w])[u].alone = FALSE
                        /\ Disturbed(rot[w])[u].token = rot[w][u].token
  BY FieldsTyped, DisturbedRotations
<1> HIDE DEF new, jobs
<1>5. QED
  BY <1>1, <1>2, <1>3, <1>4 DEF TypeOK

\* What a restart does to them.
LEMMA RestartEffect ==
    ASSUME TypeOK, NEW w \in Workers, Restart(w)
    PROVE  /\ rot' \in [Workers -> [Uses -> Rotation]]
           /\ reg' \in [Workers -> [Handlers -> Registration]]
           /\ \A h \in Handlers : reg'[w][h].pc \in {"idle", "late"} /\ reg'[w][h].alone = FALSE
           /\ \A u \in Uses : /\ rot'[w][u].pc = rot[w][u].pc /\ rot'[w][u].alone = FALSE
                             /\ rot'[w][u].token = rot[w][u].token
           /\ \A x \in Workers : x # w => rot'[x] = rot[x] /\ reg'[x] = reg[x]
<1> DEFINE jobs == [h \in Handlers |-> Orphaned(reg[w][h])]
<1>1. ASSUME NEW r \in Registration
      PROVE  /\ Orphaned(r) \in Registration
             /\ Orphaned(r).pc \in {"idle", "late"}
             /\ Orphaned(r).alone = FALSE
  BY IdleJobTyped DEF Registration, Orphaned
<1>2. rot' = [rot EXCEPT ![w] = Disturbed(rot[w])] /\ reg' = [reg EXCEPT ![w] = jobs]
  BY DEF Restart
<1>3. /\ jobs \in [Handlers -> Registration]
      /\ \A h \in Handlers : jobs[h].pc \in {"idle", "late"} /\ jobs[h].alone = FALSE
  BY <1>1, FieldsTyped
<1>4. /\ Disturbed(rot[w]) \in [Uses -> Rotation]
      /\ \A u \in Uses : /\ Disturbed(rot[w])[u].pc = rot[w][u].pc
                        /\ Disturbed(rot[w])[u].alone = FALSE
                        /\ Disturbed(rot[w])[u].token = rot[w][u].token
  BY FieldsTyped, DisturbedRotations
<1> HIDE DEF jobs
<1>5. QED
  BY <1>2, <1>3, <1>4 DEF TypeOK

\* What the other steps of a rotation do to it, and to nothing else.
LEMMA RotationEffect ==
    ASSUME TypeOK, NEW u \in Uses, NEW w \in Workers,
           \/ RotationTaken(u, w) \/ RotationLost(u, w) \/ RotationTimesOut(u, w)
           \/ RotationAnswered(u, w) \/ RotationSaved(u, w) \/ RotationReturns(u, w)
    PROVE  /\ rot' \in [Workers -> [Uses -> Rotation]]
           /\ \/ rot'[w][u] = IdleJob
              \/ /\ rot'[w][u].alone = rot[w][u].alone
                 /\ rot'[w][u].token = rot[w][u].token
                 /\ \/ rot[w][u].pc = "asked" /\ rot'[w][u].pc \in {"late", "took"}
                    \/ rot[w][u].pc = "took" /\ rot'[w][u].pc = "accepted"
                    \/ rot[w][u].pc = "accepted" /\ rot'[w][u].pc = "saved"
           /\ \A v \in Uses : v # u => rot'[w][v] = rot[w][v]
           /\ \A x \in Workers : x # w => rot'[x] = rot[x]
           /\ reg' = reg
<1> DEFINE To(p) == [rot[w][u] EXCEPT !.pc = p]
<1>1. \/ rot' = [rot EXCEPT ![w][u] = IdleJob]
      \/ rot[w][u].pc = "asked" /\ rot' = [rot EXCEPT ![w][u] = To("late")]
      \/ rot[w][u].pc = "asked" /\ rot' = [rot EXCEPT ![w][u] = To("took")]
      \/ rot[w][u].pc = "took" /\ rot' = [rot EXCEPT ![w][u] = To("accepted")]
      \/ rot[w][u].pc = "accepted" /\ rot' = [rot EXCEPT ![w][u] = To("saved")]
  BY DEF RotationTaken, RotationLost, RotationTimesOut, RotationAnswered, RotationSaved, RotationReturns
<1>2. reg' = reg
  BY DEF RotationTaken, RotationLost, RotationTimesOut, RotationAnswered, RotationSaved, RotationReturns
<1>3. ASSUME NEW p \in {"late", "took", "accepted", "saved"}
      PROVE  /\ To(p) \in Rotation /\ To(p).pc = p
             /\ To(p).alone = rot[w][u].alone /\ To(p).token = rot[w][u].token
  BY FieldsTyped DEF Rotation
<1>4. ASSUME NEW r \in Rotation, rot' = [rot EXCEPT ![w][u] = r]
      PROVE  /\ rot' \in [Workers -> [Uses -> Rotation]] /\ rot'[w][u] = r
             /\ \A v \in Uses : v # u => rot'[w][v] = rot[w][v]
             /\ \A x \in Workers : x # w => rot'[x] = rot[x]
  BY <1>4 DEF TypeOK
<1> HIDE DEF To
<1>5. CASE rot' = [rot EXCEPT ![w][u] = IdleJob]
  BY <1>2, <1>4, <1>5, IdleJobTyped
<1>6. ASSUME NEW p \in {"late", "took", "accepted", "saved"}, rot' = [rot EXCEPT ![w][u] = To(p)]
      PROVE  /\ rot' \in [Workers -> [Uses -> Rotation]]
             /\ rot'[w][u].pc = p
             /\ rot'[w][u].alone = rot[w][u].alone
             /\ rot'[w][u].token = rot[w][u].token
             /\ \A v \in Uses : v # u => rot'[w][v] = rot[w][v]
             /\ \A x \in Workers : x # w => rot'[x] = rot[x]
  BY <1>3, <1>4, <1>6
<1>7. QED
  BY <1>1, <1>2, <1>5, <1>6

\* What the other steps of a registration do to it.
LEMMA RegistrationEffect ==
    ASSUME TypeOK, NEW h \in Handlers, NEW w \in Workers,
           \/ \E t \in Tokens : RegistrationStored(h, w, t)
           \/ RegistrationAdopted(h, w) \/ RegistrationUnanswered(h, w)
           \/ RegistrationLost(h, w)
    PROVE  /\ reg' \in [Workers -> [Handlers -> Registration]]
           /\ \/ reg'[w][h] = IdleJob
              \/ reg'[w][h].alone = reg[w][h].alone /\ reg[w][h].pc # "idle"
           /\ \A g \in Handlers : g # h => reg'[w][g] = reg[w][g]
           /\ \A x \in Workers : x # w => reg'[x] = reg[x]
           /\ rot' = rot
<1>1. PICK r \in Registration : /\ reg' = [reg EXCEPT ![w][h] = r]
                                /\ r = IdleJob \/ (r.alone = reg[w][h].alone /\ reg[w][h].pc # "idle")
  <2>1. reg[w][h] \in Registration
    BY FieldsTyped
  <2>2. CASE \E t \in Tokens : RegistrationStored(h, w, t)
    <3>1. PICK t \in Tokens : RegistrationStored(h, w, t)
      BY <2>2
    <3> DEFINE r == [reg[w][h] EXCEPT !.pc = "stored", !.token = t]
    <3>3. r \in Registration /\ r.alone = reg[w][h].alone
      BY <2>1 DEF Registration, MaybeToken
    <3>4. reg' = [reg EXCEPT ![w][h] = r] \/ reg' = [reg EXCEPT ![w][h] = IdleJob]
      BY <3>1 DEF RegistrationStored
    <3>5. reg[w][h].pc # "idle"
      BY <3>1 DEF RegistrationStored
    <3>6. QED
      BY <3>3, <3>4, <3>5, IdleJobTyped
  <2>3. CASE RegistrationAdopted(h, w)
    BY <2>3, IdleJobTyped DEF RegistrationAdopted
  <2>4. CASE RegistrationUnanswered(h, w)
    <3> DEFINE r == [reg[w][h] EXCEPT !.pc = "posted", !.token = None]
    <3>2. r \in Registration /\ r.alone = reg[w][h].alone
      BY <2>1 DEF Registration, MaybeToken
    <3>3. reg' = [reg EXCEPT ![w][h] = r] \/ reg' = [reg EXCEPT ![w][h] = IdleJob]
      BY <2>4 DEF RegistrationUnanswered
    <3>4. reg[w][h].pc # "idle"
      BY <2>4 DEF RegistrationUnanswered
    <3>5. QED
      BY <3>2, <3>3, <3>4, IdleJobTyped
  <2>5. CASE RegistrationLost(h, w)
    <3> DEFINE r == [reg[w][h] EXCEPT !.pc = "late"]
    <3>2. r \in Registration /\ r.alone = reg[w][h].alone
      BY <2>1 DEF Registration
    <3>3. reg' = [reg EXCEPT ![w][h] = r] \/ reg' = [reg EXCEPT ![w][h] = IdleJob]
      BY <2>5 DEF RegistrationLost
    <3>4. reg[w][h].pc # "idle"
      BY <2>5 DEF RegistrationLost
    <3>5. QED
      BY <3>2, <3>3, <3>4, IdleJobTyped
  <2>6. QED
    BY <2>2, <2>3, <2>4, <2>5
<1>2. rot' = rot
  BY DEF RegistrationStored, RegistrationAdopted, RegistrationUnanswered, RegistrationLost
<1>3. /\ reg' \in [Workers -> [Handlers -> Registration]] /\ reg'[w][h] = r
      /\ \A g \in Handlers : g # h => reg'[w][g] = reg[w][g]
      /\ \A x \in Workers : x # w => reg'[x] = reg[x]
  BY <1>1 DEF TypeOK
<1>4. QED
  BY <1>1, <1>2, <1>3

\* What each step does to the tokens, the rows and the history.
LEMMA TokensEffect ==
    ASSUME TypeOK, [Next]_tokenVars
    PROVE  /\ token' \in [Workers -> MaybeToken]
           /\ row' \in [Workers -> Row]
           /\ seen' \subseteq Workers
           /\ torn' \subseteq Workers
<1>1. ASSUME NEW u \in Uses, NEW w \in Workers,
             \/ \E t \in Tokens : RotationAsked(u, w, t)
             \/ RotationLost(u, w) \/ RotationTimesOut(u, w)
             \/ RotationAnswered(u, w) \/ RotationReturns(u, w)
      PROVE  UNCHANGED <<token, row, seen>> /\ torn' \in {torn, torn \cup {w}}
  BY <1>1 DEF RotationAsked, RotationLost, RotationTimesOut, RotationAnswered, RotationReturns, Tear
<1>2. ASSUME NEW u \in Uses, NEW w \in Workers, RotationTaken(u, w)
      PROVE  /\ token' \in [Workers -> MaybeToken] /\ UNCHANGED <<row, seen>>
             /\ torn' \in {torn, torn \cup {w}}
  BY <1>2, FieldsTyped DEF TypeOK, RotationTaken, Tear
<1>3. ASSUME NEW u \in Uses, NEW w \in Workers, RotationSaved(u, w)
      PROVE  /\ row' \in [Workers -> Row] /\ UNCHANGED <<token, seen>>
             /\ torn' \in {torn \ {w}, torn \cup {w}}
  <2>1. [row[w] EXCEPT !.token = rot[w][u].token, !.expired = FALSE] \in Row
    BY FieldsTyped DEF Row
  <2>2. QED
    BY <1>3, <2>1 DEF TypeOK, RotationSaved, Changed
<1>4. ASSUME NEW h \in Handlers, NEW w \in Workers,
             RegistrationPosted(h, w) \/ RegistrationUnanswered(h, w) \/ RegistrationLost(h, w)
      PROVE  UNCHANGED <<token, row, seen>> /\ torn' \in {torn, torn \cup {w}}
  BY <1>4 DEF RegistrationPosted, RegistrationUnanswered, RegistrationLost, Tear
<1>5. ASSUME NEW h \in Handlers, NEW w \in Workers, NEW t \in Tokens, RegistrationStored(h, w, t)
      PROVE  /\ row' \in [Workers -> Row] /\ UNCHANGED token /\ seen' = seen \cup {w}
             /\ torn' \in {torn, torn \cup {w}}
  <2>1. [token |-> t, expired |-> FALSE, url |-> TRUE] \in Row
    BY DEF Row, MaybeToken
  <2>2. QED
    BY <1>5, <2>1 DEF TypeOK, RegistrationStored, Tear
<1>6. ASSUME NEW h \in Handlers, NEW w \in Workers, RegistrationAdopted(h, w)
      PROVE  /\ token' \in [Workers -> MaybeToken] /\ UNCHANGED <<row, seen>>
             /\ torn' \in {torn \ {w}, torn \cup {w}}
  BY <1>6, FieldsTyped DEF TypeOK, RegistrationAdopted, Changed
<1>7. ASSUME NEW w \in Workers, Restart(w)
      PROVE  /\ token' \in [Workers -> MaybeToken] /\ UNCHANGED <<row, seen>>
             /\ torn' = torn \cup {w}
  BY <1>7 DEF TypeOK, Restart, Tear, MaybeToken
<1>8. ASSUME NEW w \in Workers, Heartbeat(w)
      PROVE  row' \in [Workers -> Row] /\ UNCHANGED <<token, torn>> /\ seen' = seen \cup {w}
  <2>1. PICK tunnelUp \in BOOLEAN : row' = [row EXCEPT ![w].url = row[w].url \/ tunnelUp]
    BY <1>8 DEF Heartbeat
  <2>2. \A b \in BOOLEAN : [row[w] EXCEPT !.url = b] \in Row
    BY FieldsTyped DEF Row
  <2>3. (row[w].url \/ tunnelUp) \in BOOLEAN
    OBVIOUS
  <2>4. QED
    BY <1>8, <2>1, <2>2, <2>3 DEF TypeOK, Heartbeat
<1>9. ASSUME NEW w \in Workers, HeartbeatAges(w) \/ Expires(w)
      PROVE  row' \in [Workers -> Row] /\ UNCHANGED <<token, torn>> /\ seen' \subseteq seen
  <2>1. [row[w] EXCEPT !.expired = TRUE] \in Row
    BY FieldsTyped DEF Row
  <2>2. QED
    BY <1>9, <2>1 DEF TypeOK, HeartbeatAges, Expires
<1>10. ASSUME StaleCleared
       PROVE  /\ token' \in [Workers -> MaybeToken] /\ row' \in [Workers -> Row]
              /\ seen' \subseteq Workers /\ torn' \subseteq Workers
  <2>1. ClearedRow \in Row
    BY DEF ClearedRow, Row, MaybeToken
  <2>2. QED
    BY <1>10, <2>1 DEF StaleCleared, TypeOK
<1>11. ASSUME UNCHANGED tokenVars
       PROVE  /\ token' \in [Workers -> MaybeToken] /\ row' \in [Workers -> Row]
              /\ seen' \subseteq Workers /\ torn' \subseteq Workers
  BY <1>11 DEF tokenVars, TypeOK
<1>12. QED
  <2>1. \A w \in Workers : torn \cup {w} \subseteq Workers /\ torn \ {w} \subseteq Workers
                            /\ seen \cup {w} \subseteq Workers
    BY DEF TypeOK
  <2>2. /\ token \in [Workers -> MaybeToken] /\ row \in [Workers -> Row]
        /\ seen \subseteq Workers /\ torn \subseteq Workers
    BY DEF TypeOK
  <2>3. ASSUME NEW u \in Uses, NEW w \in Workers,
               \/ \E t \in Tokens : RotationAsked(u, w, t)
               \/ RotationTaken(u, w) \/ RotationLost(u, w) \/ RotationTimesOut(u, w)
               \/ RotationAnswered(u, w) \/ RotationSaved(u, w) \/ RotationReturns(u, w)
        PROVE  /\ token' \in [Workers -> MaybeToken] /\ row' \in [Workers -> Row]
               /\ seen' \subseteq Workers /\ torn' \subseteq Workers
    BY <1>1, <1>2, <1>3, <2>1, <2>2, <2>3
  <2>4. ASSUME NEW h \in Handlers, NEW w \in Workers,
               \/ RegistrationPosted(h, w) \/ \E t \in Tokens : RegistrationStored(h, w, t)
               \/ RegistrationAdopted(h, w) \/ RegistrationUnanswered(h, w)
               \/ RegistrationLost(h, w)
        PROVE  /\ token' \in [Workers -> MaybeToken] /\ row' \in [Workers -> Row]
               /\ seen' \subseteq Workers /\ torn' \subseteq Workers
    BY <1>4, <1>5, <1>6, <2>1, <2>2, <2>4
  <2>5. ASSUME NEW w \in Workers, Restart(w) \/ Heartbeat(w) \/ HeartbeatAges(w) \/ Expires(w)
        PROVE  /\ token' \in [Workers -> MaybeToken] /\ row' \in [Workers -> Row]
               /\ seen' \subseteq Workers /\ torn' \subseteq Workers
    BY <1>7, <1>8, <1>9, <2>1, <2>2, <2>5
  <2>6. QED
    BY <1>10, <1>11, <2>3, <2>4, <2>5, StepCases

\* Every step keeps the types.
LEMMA TypePreserved ==
    ASSUME TypeOK, [Next]_tokenVars
    PROVE  TypeOK'
<1>1. /\ rot' \in [Workers -> [Uses -> Rotation]]
      /\ reg' \in [Workers -> [Handlers -> Registration]]
  <2>1. CASE \E w \in Workers : Heartbeat(w) \/ HeartbeatAges(w) \/ Expires(w)
    BY <2>1 DEF TypeOK, Heartbeat, HeartbeatAges, Expires
  <2>2. CASE StaleCleared \/ UNCHANGED tokenVars
    BY <2>2 DEF TypeOK, StaleCleared, tokenVars
  <2>3. CASE \E w \in Workers : Restart(w)
    BY <2>3, RestartEffect
  <2>4. ASSUME NEW u \in Uses, NEW w \in Workers,
               \/ \E t \in Tokens : RotationAsked(u, w, t)
               \/ RotationTaken(u, w) \/ RotationLost(u, w) \/ RotationTimesOut(u, w)
               \/ RotationAnswered(u, w) \/ RotationSaved(u, w) \/ RotationReturns(u, w)
        PROVE  /\ rot' \in [Workers -> [Uses -> Rotation]]
               /\ reg' \in [Workers -> [Handlers -> Registration]]
    <3>1. CASE \E t \in Tokens : RotationAsked(u, w, t)
      BY <3>1, AskedEffect
    <3>2. QED
      BY <2>4, <3>1, RotationEffect DEF TypeOK
  <2>5. ASSUME NEW h \in Handlers, NEW w \in Workers,
               \/ RegistrationPosted(h, w) \/ \E t \in Tokens : RegistrationStored(h, w, t)
               \/ RegistrationAdopted(h, w) \/ RegistrationUnanswered(h, w)
               \/ RegistrationLost(h, w)
        PROVE  /\ rot' \in [Workers -> [Uses -> Rotation]]
               /\ reg' \in [Workers -> [Handlers -> Registration]]
    <3>1. CASE RegistrationPosted(h, w)
      BY <3>1, PostedEffect
    <3>2. QED
      BY <2>5, <3>1, RegistrationEffect DEF TypeOK
  <2>6. QED
    BY <2>1, <2>2, <2>3, <2>4, <2>5, StepCases
<1>2. QED
  BY <1>1, TokensEffect DEF TypeOK

\* Types hold at the start.
LEMMA InitTyped == Init => TypeOK
<1>1. ClearedRow \in Row
  BY DEF ClearedRow, Row, MaybeToken
<1>2. QED
  BY <1>1, IdleJobTyped DEF Init, TypeOK, MaybeToken

\* The tokens, the rows and the requests keep their types (server.py:58-75,
\* register/route.ts:49-62, sessionToken.ts:34-77).
THEOREM TokensTyped == Spec => []TypeOK
<1>1. TypeOK /\ [Next]_tokenVars => TypeOK'
  BY TypePreserved
<1>2. QED
  BY <1>1, InitTyped, PTL DEF Spec

-----------------------------------------------------------------------------
(* A row without a token counts as expired *)

\* A rotation that is under way has a token to write.
RotationsHaveTokens ==
    \A w \in Workers, u \in Uses : rot[w][u].pc # "idle" => rot[w][u].token \in Tokens

NullInv == TypeOK /\ RotationsHaveTokens /\ NullTokenIsExpired

\* Every step keeps the token of a rotation that is under way.
LEMMA RotationsKeepTokens ==
    ASSUME TypeOK, RotationsHaveTokens, [Next]_tokenVars
    PROVE  RotationsHaveTokens'
<1>1. ASSUME NEW u \in Uses, NEW w \in Workers, NEW t \in Tokens, RotationAsked(u, w, t)
      PROVE  RotationsHaveTokens'
  <2>1. /\ rot'[w][u].token = t
        /\ \A v \in Uses : v # u => /\ rot'[w][v].pc = rot[w][v].pc
                                  /\ rot'[w][v].token = rot[w][v].token
        /\ \A x \in Workers : x # w => rot'[x] = rot[x]
    BY <1>1, AskedEffect
  <2>2. QED
    BY <2>1 DEF RotationsHaveTokens
<1>2. ASSUME NEW u \in Uses, NEW w \in Workers,
             \/ RotationTaken(u, w) \/ RotationLost(u, w) \/ RotationTimesOut(u, w)
             \/ RotationAnswered(u, w) \/ RotationSaved(u, w) \/ RotationReturns(u, w)
      PROVE  RotationsHaveTokens'
  BY <1>2, RotationEffect, IdleJobTyped DEF RotationsHaveTokens
<1>3. ASSUME NEW h \in Handlers, NEW w \in Workers, RegistrationPosted(h, w)
      PROVE  RotationsHaveTokens'
  <2>1. /\ \A v \in Uses : /\ rot'[w][v].pc = rot[w][v].pc
                          /\ rot'[w][v].token = rot[w][v].token
        /\ \A x \in Workers : x # w => rot'[x] = rot[x]
    BY <1>3, PostedEffect
  <2>2. QED
    BY <2>1 DEF RotationsHaveTokens
<1>4. ASSUME NEW w \in Workers, Restart(w)
      PROVE  RotationsHaveTokens'
  <2>1. /\ \A v \in Uses : /\ rot'[w][v].pc = rot[w][v].pc
                          /\ rot'[w][v].token = rot[w][v].token
        /\ \A x \in Workers : x # w => rot'[x] = rot[x]
    BY <1>4, RestartEffect
  <2>2. QED
    BY <2>1 DEF RotationsHaveTokens
<1>5. ASSUME rot' = rot
      PROVE  RotationsHaveTokens'
  BY <1>5 DEF RotationsHaveTokens
<1>6. ASSUME NEW h \in Handlers, NEW w \in Workers,
             \/ \E t \in Tokens : RegistrationStored(h, w, t)
             \/ RegistrationAdopted(h, w) \/ RegistrationUnanswered(h, w) \/ RegistrationLost(h, w)
      PROVE  rot' = rot
  BY <1>6, RegistrationEffect
<1>7. ASSUME StaleCleared \/ UNCHANGED tokenVars
             \/ \E w \in Workers : Heartbeat(w) \/ HeartbeatAges(w) \/ Expires(w)
      PROVE  rot' = rot
  BY <1>7 DEF StaleCleared, Heartbeat, HeartbeatAges, Expires, tokenVars
<1>8. QED
  BY <1>1, <1>2, <1>3, <1>4, <1>5, <1>6, <1>7, StepCases

\* Every step keeps the expiry of rows without a token.
LEMMA NullPreserved ==
    ASSUME NullInv, [Next]_tokenVars
    PROVE  NullInv'
<1> USE DEF NullInv
<1>1. TypeOK' /\ RotationsHaveTokens'
  BY TypePreserved, RotationsKeepTokens
<1>2. ASSUME NEW u \in Uses, NEW w \in Workers, RotationSaved(u, w)
      PROVE  NullTokenIsExpired'
  <2>1. rot[w][u].token # None
    BY <1>2, TokensAssumption DEF RotationSaved, RotationsHaveTokens
  <2>2. row'[w].token = rot[w][u].token
    BY <1>2, FieldsTyped DEF RotationSaved, TypeOK, Row
  <2>3. \A x \in Workers : x # w => row'[x] = row[x]
    BY <1>2 DEF RotationSaved, TypeOK
  <2>4. QED
    BY <2>1, <2>2, <2>3 DEF NullTokenIsExpired
<1>3. ASSUME NEW h \in Handlers, NEW w \in Workers, NEW t \in Tokens, RegistrationStored(h, w, t)
      PROVE  NullTokenIsExpired'
  <2>1. row'[w].token = t /\ t # None
    BY <1>3, TokensAssumption DEF RegistrationStored, TypeOK
  <2>2. \A x \in Workers : x # w => row'[x] = row[x]
    BY <1>3 DEF RegistrationStored, TypeOK
  <2>3. QED
    BY <2>1, <2>2 DEF NullTokenIsExpired
<1>4. ASSUME NEW w \in Workers, Heartbeat(w)
      PROVE  NullTokenIsExpired'
  <2>1. PICK tunnelUp \in BOOLEAN : row' = [row EXCEPT ![w].url = row[w].url \/ tunnelUp]
    BY <1>4 DEF Heartbeat
  <2>2. row'[w].token = row[w].token /\ row'[w].expired = row[w].expired
    BY <2>1, FieldsTyped DEF TypeOK, Row
  <2>3. \A x \in Workers : x # w => row'[x] = row[x]
    BY <2>1 DEF TypeOK
  <2>4. QED
    BY <2>2, <2>3 DEF NullTokenIsExpired
<1>5. ASSUME NEW w \in Workers, Expires(w)
      PROVE  NullTokenIsExpired'
  <2>1. row'[w].expired = TRUE
    BY <1>5, FieldsTyped DEF Expires, TypeOK, Row
  <2>2. \A x \in Workers : x # w => row'[x] = row[x]
    BY <1>5 DEF Expires, TypeOK
  <2>3. QED
    BY <2>1, <2>2 DEF NullTokenIsExpired
<1>6. ASSUME StaleCleared
      PROVE  NullTokenIsExpired'
  <2>1. \A w \in Workers : row'[w] \in {row[w], ClearedRow}
    BY <1>6 DEF StaleCleared
  <2>2. ClearedRow.expired = TRUE
    BY DEF ClearedRow
  <2>3. QED
    BY <2>1, <2>2 DEF NullTokenIsExpired
<1>7. ASSUME row' = row
      PROVE  NullTokenIsExpired'
  BY <1>7 DEF NullTokenIsExpired
<1>8. ASSUME NEW u \in Uses, NEW w \in Workers,
             \/ \E t \in Tokens : RotationAsked(u, w, t)
             \/ RotationTaken(u, w) \/ RotationLost(u, w) \/ RotationTimesOut(u, w)
             \/ RotationAnswered(u, w) \/ RotationReturns(u, w)
      PROVE  row' = row
  BY <1>8 DEF RotationAsked, RotationTaken, RotationLost, RotationTimesOut, RotationAnswered, RotationReturns
<1>9. ASSUME NEW h \in Handlers, NEW w \in Workers,
             \/ RegistrationPosted(h, w) \/ RegistrationAdopted(h, w)
             \/ RegistrationUnanswered(h, w) \/ RegistrationLost(h, w)
      PROVE  row' = row
  BY <1>9 DEF RegistrationPosted, RegistrationAdopted, RegistrationUnanswered, RegistrationLost
<1>10. ASSUME UNCHANGED tokenVars \/ \E w \in Workers : Restart(w) \/ HeartbeatAges(w)
       PROVE  row' = row
  BY <1>10 DEF Restart, HeartbeatAges, tokenVars
<1>11. NullTokenIsExpired'
  BY <1>2, <1>3, <1>4, <1>5, <1>6, <1>7, <1>8, <1>9, <1>10, StepCases
<1>12. QED
  BY <1>1, <1>11

\* Whoever reads a row without a token rotates instead of calling the worker
\* without one: such a row always counts as expired (workerPresence.ts:31-40,
\* dispatch/route.ts:166-167, connection/route.ts:69-70).
THEOREM NullTokensExpire == Spec => []NullTokenIsExpired
<1>1. Init => NullInv
  <2>1. ASSUME Init
        PROVE  RotationsHaveTokens /\ NullTokenIsExpired
    BY <2>1, IdleJobTyped DEF Init, RotationsHaveTokens, NullTokenIsExpired, ClearedRow
  <2>2. QED
    BY <2>1, InitTyped DEF NullInv
<1>2. NullInv /\ [Next]_tokenVars => NullInv'
  BY NullPreserved
<1>3. NullInv => NullTokenIsExpired
  BY DEF NullInv
<1>4. QED
  BY <1>1, <1>2, <1>3, PTL DEF Spec

-----------------------------------------------------------------------------
(* The two copies agree *)

RotationsIdle(w, S) == \A u \in S : rot[w][u].pc \in {"idle", "saved"}
RegistrationsIdle(w, S) == \A h \in S : reg[w][h].pc = "idle"

\* A request that is alone has no company.
Alone(w) ==
    /\ \A u \in Uses : rot[w][u].alone =>
          RotationsIdle(w, Uses \ {u}) /\ RegistrationsIdle(w, Handlers)
    /\ \A h \in Handlers : reg[w][h].alone =>
          RotationsIdle(w, Uses) /\ RegistrationsIdle(w, Handlers \ {h})

\* The side that a request alone has changed still holds its token.
Carried(w) ==
    /\ \A u \in Uses : rot[w][u].alone /\ rot[w][u].pc \in {"took", "accepted"} =>
          token[w] = rot[w][u].token
    /\ \A h \in Handlers : reg[w][h].alone /\ reg[w][h].pc = "stored" =>
          row[w].token \in {reg[w][h].token, None}

\* No request has changed one side of w and not yet the other.
Settled(w) ==
    /\ \A u \in Uses : rot[w][u].pc \notin {"took", "accepted"}
    /\ \A h \in Handlers : reg[w][h].pc # "stored"

Agrees(w) == w \notin torn /\ Settled(w) => row[w].token \in {token[w], None}

WorkerInv(w) == Alone(w) /\ Carried(w) /\ Agrees(w)

AgreeInv == TypeOK /\ \A w \in Workers : WorkerInv(w)

\* Nothing is under way for w: a fact about each route and each thread.
LEMMA QuietMeans ==
    ASSUME NEW w \in Workers
    PROVE  Quiet(w) <=> RotationsIdle(w, Uses) /\ RegistrationsIdle(w, Handlers)
  BY DEF Quiet, RotationsAt, RegistrationsAt, RotationsIdle, RegistrationsIdle

\* A step does not disturb a worker it leaves alone.
LEMMA WorkerFrame ==
    ASSUME NEW w \in Workers, WorkerInv(w),
           rot'[w] = rot[w], reg'[w] = reg[w], token'[w] = token[w],
           row'[w].token \in {row[w].token, None},
           w \in torn => w \in torn'
    PROVE  WorkerInv(w)'
<1>1. Alone(w)'
  BY DEF WorkerInv, Alone, RotationsIdle, RegistrationsIdle
<1>2. Carried(w)'
  BY DEF WorkerInv, Carried
<1>3. Agrees(w)'
  BY DEF WorkerInv, Agrees, Settled
<1>4. QED
  BY <1>1, <1>2, <1>3 DEF WorkerInv

\* A new rotation changes neither side; it is alone if nothing was under way.
LEMMA AskedAgrees ==
    ASSUME AgreeInv, NEW u \in Uses, NEW w \in Workers, NEW t \in Tokens, RotationAsked(u, w, t)
    PROVE  WorkerInv(w)'
<1>1. WorkerInv(w) /\ TypeOK
  BY DEF AgreeInv
<1>2. /\ rot'[w][u].pc = "asked" /\ rot'[w][u].alone = Quiet(w)
      /\ \A v \in Uses : v # u => rot'[w][v].pc = rot[w][v].pc /\ rot'[w][v].alone = FALSE
      /\ \A h \in Handlers : reg'[w][h].pc = reg[w][h].pc /\ reg'[w][h].alone = FALSE
  BY <1>1, AskedEffect
<1>3. rot[w][u].pc = "idle" /\ UNCHANGED <<token, row, torn>>
  BY DEF RotationAsked
<1>4. Alone(w)'
  BY <1>2, QuietMeans DEF Alone, RotationsIdle, RegistrationsIdle
<1>5. Carried(w)'
  BY <1>2 DEF Carried
<1>6. Agrees(w)'
  BY <1>1, <1>2, <1>3 DEF WorkerInv, Agrees, Settled
<1>7. QED
  BY <1>4, <1>5, <1>6 DEF WorkerInv

\* So does a new registration.
LEMMA PostedAgrees ==
    ASSUME AgreeInv, NEW h \in Handlers, NEW w \in Workers, RegistrationPosted(h, w)
    PROVE  WorkerInv(w)'
<1>1. WorkerInv(w) /\ TypeOK
  BY DEF AgreeInv
<1>2. /\ reg'[w][h].pc = "posted" /\ reg'[w][h].alone = Quiet(w)
      /\ \A g \in Handlers : g # h => reg'[w][g].pc = reg[w][g].pc /\ reg'[w][g].alone = FALSE
      /\ \A u \in Uses : rot'[w][u].pc = rot[w][u].pc /\ rot'[w][u].alone = FALSE
  BY <1>1, PostedEffect
<1>3. reg[w][h].pc = "idle" /\ UNCHANGED <<token, row, torn>>
  BY DEF RegistrationPosted
<1>4. Alone(w)'
  BY <1>2, QuietMeans DEF Alone, RotationsIdle, RegistrationsIdle
<1>5. Carried(w)'
  BY <1>2 DEF Carried
<1>6. Agrees(w)'
  BY <1>1, <1>2, <1>3 DEF WorkerInv, Agrees, Settled
<1>7. QED
  BY <1>4, <1>5, <1>6 DEF WorkerInv

\* A restart tears.
LEMMA RestartAgrees ==
    ASSUME AgreeInv, NEW w \in Workers, Restart(w)
    PROVE  WorkerInv(w)'
<1>1. /\ \A h \in Handlers : reg'[w][h].alone = FALSE
      /\ \A u \in Uses : rot'[w][u].alone = FALSE
  BY RestartEffect DEF AgreeInv
<1>2. w \in torn'
  BY DEF Restart, Tear
<1>3. QED
  BY <1>1, <1>2 DEF WorkerInv, Alone, Carried, Agrees

\* The other steps of a rotation keep the company of a request alone.
LEMMA RotationAlone ==
    ASSUME TypeOK, NEW u \in Uses, NEW w \in Workers, Alone(w),
           \/ RotationTaken(u, w) \/ RotationLost(u, w) \/ RotationTimesOut(u, w)
           \/ RotationAnswered(u, w) \/ RotationSaved(u, w) \/ RotationReturns(u, w)
    PROVE  Alone(w)'
<1>1. /\ \/ rot'[w][u].pc = "idle" /\ rot'[w][u].alone = FALSE
         \/ rot'[w][u].alone = rot[w][u].alone /\ rot[w][u].pc \notin {"idle", "saved"}
      /\ \A v \in Uses : v # u => rot'[w][v] = rot[w][v]
      /\ reg' = reg
  BY RotationEffect, IdleJobTyped
<1>2. QED
  BY <1>1 DEF Alone, RotationsIdle, RegistrationsIdle

\* The other steps of a rotation: either it is alone, and what it carries from
\* the worker to the row is the worker's token, or its end tears.
LEMMA RotationAgrees ==
    ASSUME AgreeInv, NEW u \in Uses, NEW w \in Workers,
           \/ RotationTaken(u, w) \/ RotationLost(u, w) \/ RotationTimesOut(u, w)
           \/ RotationAnswered(u, w) \/ RotationSaved(u, w) \/ RotationReturns(u, w)
    PROVE  WorkerInv(w)'
<1>1. TypeOK /\ Alone(w) /\ Carried(w) /\ Agrees(w)
  BY DEF AgreeInv, WorkerInv
<1>2. Alone(w)'
  BY <1>1, RotationAlone
<1>3. /\ \A v \in Uses : v # u => rot'[w][v] = rot[w][v]
      /\ reg' = reg
  BY <1>1, RotationEffect
<1>4. \/ rot'[w][u] = IdleJob
      \/ /\ rot'[w][u].alone = rot[w][u].alone
         /\ rot'[w][u].token = rot[w][u].token
         /\ \/ rot[w][u].pc = "asked" /\ rot'[w][u].pc \in {"late", "took"}
            \/ rot[w][u].pc = "took" /\ rot'[w][u].pc = "accepted"
            \/ rot[w][u].pc = "accepted" /\ rot'[w][u].pc = "saved"
  BY <1>1, RotationEffect
\* While u is under way no other request at w is alone.
<1>5. ASSUME rot[w][u].pc \notin {"idle", "saved"}
      PROVE  /\ \A v \in Uses : v # u => rot[w][v].alone # TRUE
             /\ \A h \in Handlers : reg[w][h].alone # TRUE
  BY <1>1, <1>5 DEF Alone, RotationsIdle
<1>6. CASE RotationTaken(u, w)
  <2>1. rot[w][u].pc \in {"asked", "late"} /\ token'[w] = rot[w][u].token
    BY <1>1, <1>6 DEF RotationTaken, TypeOK
  <2>2. CASE rot[w][u].pc = "late"
    <3>1. rot'[w][u].pc = "idle"
      BY <1>4, <2>2, IdleJobTyped
    <3>2. w \in torn'
      BY <1>6, <2>2 DEF RotationTaken, Tear
    <3>3. Carried(w)'
      BY <1>3, <1>5, <2>2, <3>1, FieldsTyped, <1>1 DEF Carried, Rotation, Registration
    <3>4. QED
      BY <1>2, <3>2, <3>3 DEF WorkerInv, Agrees
  <2>3. CASE rot[w][u].pc = "asked"
    <3>1. rot'[w][u].pc = "took" /\ rot'[w][u].token = rot[w][u].token
      <4>1. rot' = [rot EXCEPT ![w][u].pc = "took"]
        BY <1>6, <2>3 DEF RotationTaken
      <4>2. rot'[w][u] = [rot[w][u] EXCEPT !.pc = "took"]
        BY <1>1, <4>1 DEF TypeOK
      <4>3. QED
        BY <4>2, <1>1, FieldsTyped DEF Rotation
    <3>2. Carried(w)'
      BY <1>1, <1>3, <1>5, <2>1, <2>3, <3>1, FieldsTyped DEF Carried, Rotation, Registration
    <3>3. Agrees(w)'
      BY <3>1 DEF Agrees, Settled
    <3>4. QED
      BY <1>2, <3>2, <3>3 DEF WorkerInv
  <2>4. QED
    BY <2>1, <2>2, <2>3
<1>7. CASE RotationSaved(u, w)
  <2>1. rot[w][u].pc = "accepted" /\ token' = token
    BY <1>7 DEF RotationSaved
  <2>2. row'[w].token = rot[w][u].token
    BY <1>1, <1>7, FieldsTyped DEF RotationSaved, TypeOK, Row
  <2>3. rot'[w][u].pc \notin {"took", "accepted"}
    BY <1>4, <2>1, IdleJobTyped
  <2>4. Carried(w)'
    BY <1>1, <1>3, <1>5, <2>1, <2>3, FieldsTyped DEF Carried, Rotation, Registration
  <2>5. CASE rot[w][u].alone
    <3>1. token[w] = rot[w][u].token
      BY <1>1, <2>1, <2>5 DEF Carried
    <3>2. QED
      BY <1>2, <2>1, <2>2, <2>4, <3>1 DEF WorkerInv, Agrees
  <2>6. CASE ~rot[w][u].alone
    <3>1. w \in torn'
      BY <1>7, <2>6 DEF RotationSaved, Changed
    <3>2. QED
      BY <1>2, <2>4, <3>1 DEF WorkerInv, Agrees
  <2>7. QED
    BY <2>5, <2>6
<1>8. CASE RotationTimesOut(u, w) /\ rot[w][u].pc = "took"
  <2>1. w \in torn' /\ UNCHANGED <<token, row>>
    BY <1>8 DEF RotationTimesOut, Tear
  <2>2. rot'[w][u].pc = "idle"
    <3>1. rot' = [rot EXCEPT ![w][u] = IdleJob]
      BY <1>8 DEF RotationTimesOut
    <3>2. QED
      BY <1>1, <3>1, IdleJobTyped DEF TypeOK
  <2>3. Carried(w)'
    BY <1>1, <1>3, <2>1, <2>2 DEF Carried
  <2>4. QED
    BY <1>2, <2>1, <2>3 DEF WorkerInv, Agrees
<1>9. ASSUME \/ RotationLost(u, w) \/ (RotationTimesOut(u, w) /\ rot[w][u].pc # "took")
             \/ RotationAnswered(u, w) \/ RotationReturns(u, w)
      PROVE  WorkerInv(w)'
  <2>1. UNCHANGED <<token, row, torn>>
    BY <1>9 DEF RotationLost, RotationTimesOut, RotationAnswered, RotationReturns
  <2>2. \/ rot'[w][u].pc \in {"idle", "late"} /\ rot[w][u].pc \notin {"took", "accepted"}
        \/ /\ rot'[w][u].pc = "accepted" /\ rot[w][u].pc = "took"
           /\ rot'[w][u].alone = rot[w][u].alone /\ rot'[w][u].token = rot[w][u].token
    <3>1. CASE RotationLost(u, w)
      BY <1>1, <1>4, <3>1, FieldsTyped, IdleJobTyped DEF RotationLost, TypeOK
    <3>2. CASE RotationTimesOut(u, w) /\ rot[w][u].pc # "took"
      <4>1. rot[w][u].pc = "asked" /\ rot' = [rot EXCEPT ![w][u].pc = "late"]
        BY <3>2 DEF RotationTimesOut
      <4>2. rot'[w][u] = [rot[w][u] EXCEPT !.pc = "late"]
        BY <1>1, <4>1 DEF TypeOK
      <4>3. QED
        BY <1>1, <4>1, <4>2, FieldsTyped DEF Rotation
    <3>3. CASE RotationAnswered(u, w)
      <4>1. rot[w][u].pc = "took" /\ rot' = [rot EXCEPT ![w][u].pc = "accepted"]
        BY <3>3 DEF RotationAnswered
      <4>2. rot'[w][u] = [rot[w][u] EXCEPT !.pc = "accepted"]
        BY <1>1, <4>1 DEF TypeOK
      <4>3. QED
        BY <1>1, <4>1, <4>2, FieldsTyped DEF Rotation
    <3>4. CASE RotationReturns(u, w)
      BY <1>4, <3>4, IdleJobTyped DEF RotationReturns
    <3>5. QED
      BY <1>9, <3>1, <3>2, <3>3, <3>4
  <2>3. Carried(w)'
    BY <1>1, <1>3, <2>1, <2>2 DEF Carried
  <2>4. Agrees(w)'
    BY <1>1, <1>3, <2>1, <2>2 DEF Agrees, Settled
  <2>5. QED
    BY <1>2, <2>3, <2>4 DEF WorkerInv
<1>10. QED
  BY <1>6, <1>7, <1>8, <1>9

\* The other steps of a registration keep the company of a request alone.
LEMMA RegistrationAlone ==
    ASSUME TypeOK, NEW h \in Handlers, NEW w \in Workers, Alone(w),
           \/ \E t \in Tokens : RegistrationStored(h, w, t)
           \/ RegistrationAdopted(h, w) \/ RegistrationUnanswered(h, w)
           \/ RegistrationLost(h, w)
    PROVE  Alone(w)'
<1>1. /\ \/ reg'[w][h].pc = "idle" /\ reg'[w][h].alone = FALSE
         \/ reg'[w][h].alone = reg[w][h].alone /\ reg[w][h].pc # "idle"
      /\ \A g \in Handlers : g # h => reg'[w][g] = reg[w][g]
      /\ rot' = rot
  BY RegistrationEffect, IdleJobTyped
<1>2. QED
  BY <1>1 DEF Alone, RotationsIdle, RegistrationsIdle

\* The other steps of a registration, from the row to the worker.
LEMMA RegistrationAgrees ==
    ASSUME AgreeInv, NEW h \in Handlers, NEW w \in Workers,
           \/ \E t \in Tokens : RegistrationStored(h, w, t)
           \/ RegistrationAdopted(h, w) \/ RegistrationUnanswered(h, w)
           \/ RegistrationLost(h, w)
    PROVE  WorkerInv(w)'
<1>1. TypeOK /\ Alone(w) /\ Carried(w) /\ Agrees(w)
  BY DEF AgreeInv, WorkerInv
<1>2. Alone(w)'
  BY <1>1, RegistrationAlone
<1>3. /\ \A g \in Handlers : g # h => reg'[w][g] = reg[w][g]
      /\ rot' = rot
  BY <1>1, RegistrationEffect
\* While h is under way no other request at w is alone.
<1>4. ASSUME reg[w][h].pc # "idle"
      PROVE  /\ \A u \in Uses : rot[w][u].alone # TRUE
             /\ \A g \in Handlers : g # h => reg[w][g].alone # TRUE
  BY <1>1, <1>4 DEF Alone, RegistrationsIdle
<1>5. ASSUME NEW r, reg' = [reg EXCEPT ![w][h] = r]
      PROVE  reg'[w][h] = r
  BY <1>1, <1>5 DEF TypeOK
<1>6. ASSUME NEW t \in Tokens, RegistrationStored(h, w, t)
      PROVE  WorkerInv(w)'
  <2>1. reg[w][h].pc \in {"posted", "late"} /\ token' = token
    BY <1>6 DEF RegistrationStored
  <2>2. row'[w].token = t
    BY <1>1, <1>6 DEF RegistrationStored, TypeOK
  <2>3. CASE reg[w][h].pc = "late"
    <3>1. reg' = [reg EXCEPT ![w][h] = IdleJob] /\ w \in torn'
      BY <1>6, <2>3 DEF RegistrationStored, Tear
    <3>2. reg'[w][h].pc = "idle"
      BY <1>5, <3>1, IdleJobTyped
    <3>3. Carried(w)'
      BY <1>1, <1>3, <1>4, <2>1, <3>2, FieldsTyped DEF Carried, Rotation, Registration
    <3>4. QED
      BY <1>2, <3>1, <3>3 DEF WorkerInv, Agrees
  <2>4. CASE reg[w][h].pc = "posted"
    <3>1. reg' = [reg EXCEPT ![w][h] = [reg[w][h] EXCEPT !.pc = "stored", !.token = t]]
      BY <1>6, <2>4 DEF RegistrationStored
    <3>2. reg'[w][h] = [reg[w][h] EXCEPT !.pc = "stored", !.token = t]
      BY <1>1, <3>1 DEF TypeOK
    <3>3. reg'[w][h].pc = "stored" /\ reg'[w][h].token = t
      BY <1>1, <3>2, FieldsTyped DEF Registration
    <3>4. Carried(w)'
      BY <1>1, <1>3, <1>4, <2>1, <2>2, <3>3, FieldsTyped DEF Carried, Rotation, Registration
    <3>5. Agrees(w)'
      BY <3>3 DEF Agrees, Settled
    <3>6. QED
      BY <1>2, <3>4, <3>5 DEF WorkerInv
  <2>5. QED
    BY <2>1, <2>3, <2>4
<1>7. CASE RegistrationAdopted(h, w)
  <2>1. reg[w][h].pc = "stored" /\ row' = row /\ reg' = [reg EXCEPT ![w][h] = IdleJob]
    BY <1>7 DEF RegistrationAdopted
  <2>2. token'[w] = reg[w][h].token
    BY <1>1, <1>7 DEF RegistrationAdopted, TypeOK
  <2>3. reg'[w][h].pc = "idle"
    BY <1>5, <2>1, IdleJobTyped
  <2>4. Carried(w)'
    BY <1>1, <1>3, <1>4, <2>1, <2>3, FieldsTyped DEF Carried, Rotation, Registration
  <2>5. CASE reg[w][h].alone
    <3>1. row[w].token \in {reg[w][h].token, None}
      BY <1>1, <2>1, <2>5 DEF Carried
    <3>2. QED
      BY <1>2, <2>1, <2>2, <2>4, <3>1 DEF WorkerInv, Agrees
  <2>6. CASE ~reg[w][h].alone
    <3>1. w \in torn'
      BY <1>7, <2>6 DEF RegistrationAdopted, Changed
    <3>2. QED
      BY <1>2, <2>4, <3>1 DEF WorkerInv, Agrees
  <2>7. QED
    BY <2>5, <2>6
<1>8. CASE RegistrationUnanswered(h, w)
  <2>1. w \in torn' /\ UNCHANGED <<token, row>> /\ reg[w][h].pc = "stored"
    BY <1>8 DEF RegistrationUnanswered, Tear
  <2>2. reg'[w][h].pc # "stored"
    <3>1. [reg[w][h] EXCEPT !.pc = "posted", !.token = None].pc = "posted"
      BY <1>1, FieldsTyped DEF Registration
    <3>2. \/ reg' = [reg EXCEPT ![w][h] = [reg[w][h] EXCEPT !.pc = "posted", !.token = None]]
          \/ reg' = [reg EXCEPT ![w][h] = IdleJob]
      BY <1>8 DEF RegistrationUnanswered
    <3>3. QED
      BY <1>5, <3>1, <3>2, IdleJobTyped
  <2>3. Carried(w)'
    BY <1>1, <1>3, <2>1, <2>2 DEF Carried
  <2>4. QED
    BY <1>2, <2>1, <2>3 DEF WorkerInv, Agrees
<1>9. CASE RegistrationLost(h, w)
  <2>1. UNCHANGED <<token, row, torn>> /\ reg[w][h].pc \in {"posted", "late"}
    BY <1>9 DEF RegistrationLost
  <2>2. reg'[w][h].pc # "stored"
    <3>1. [reg[w][h] EXCEPT !.pc = "late"].pc = "late"
      BY <1>1, FieldsTyped DEF Registration
    <3>2. \/ reg' = [reg EXCEPT ![w][h] = [reg[w][h] EXCEPT !.pc = "late"]]
          \/ reg' = [reg EXCEPT ![w][h] = IdleJob]
      BY <1>9 DEF RegistrationLost
    <3>3. QED
      BY <1>5, <3>1, <3>2, IdleJobTyped
  <2>3. Carried(w)'
    BY <1>1, <1>3, <2>1, <2>2 DEF Carried
  <2>4. Agrees(w)'
    BY <1>1, <1>3, <2>1, <2>2 DEF Agrees, Settled
  <2>5. QED
    BY <1>2, <2>3, <2>4 DEF WorkerInv
<1>10. QED
  BY <1>6, <1>7, <1>8, <1>9

\* A request changes nothing of the workers it is not about.
LEMMA OthersKept ==
    ASSUME TypeOK, NEW w \in Workers, NEW x \in Workers, x # w,
           \/ \E u \in Uses :
                 \/ \E t \in Tokens : RotationAsked(u, w, t)
                 \/ RotationTaken(u, w) \/ RotationLost(u, w) \/ RotationTimesOut(u, w)
                 \/ RotationAnswered(u, w) \/ RotationSaved(u, w) \/ RotationReturns(u, w)
           \/ \E h \in Handlers :
                 \/ RegistrationPosted(h, w) \/ \E t \in Tokens : RegistrationStored(h, w, t)
                 \/ RegistrationAdopted(h, w) \/ RegistrationUnanswered(h, w)
                 \/ RegistrationLost(h, w)
           \/ Restart(w)
    PROVE  /\ rot'[x] = rot[x] /\ reg'[x] = reg[x] /\ token'[x] = token[x]
           /\ row'[x] = row[x] /\ (x \in torn => x \in torn')
<1>1. rot'[x] = rot[x] /\ reg'[x] = reg[x]
  <2>1. ASSUME NEW u \in Uses, NEW t \in Tokens, RotationAsked(u, w, t)
        PROVE  rot'[x] = rot[x] /\ reg'[x] = reg[x]
    BY <2>1, AskedEffect
  <2>2. ASSUME NEW u \in Uses,
               \/ RotationTaken(u, w) \/ RotationLost(u, w) \/ RotationTimesOut(u, w)
               \/ RotationAnswered(u, w) \/ RotationSaved(u, w) \/ RotationReturns(u, w)
        PROVE  rot'[x] = rot[x] /\ reg'[x] = reg[x]
    BY <2>2, RotationEffect
  <2>3. ASSUME NEW h \in Handlers, RegistrationPosted(h, w)
        PROVE  rot'[x] = rot[x] /\ reg'[x] = reg[x]
    BY <2>3, PostedEffect
  <2>4. ASSUME NEW h \in Handlers,
               \/ \E t \in Tokens : RegistrationStored(h, w, t)
               \/ RegistrationAdopted(h, w) \/ RegistrationUnanswered(h, w)
               \/ RegistrationLost(h, w)
        PROVE  rot'[x] = rot[x] /\ reg'[x] = reg[x]
    BY <2>4, RegistrationEffect
  <2>5. ASSUME Restart(w)
        PROVE  rot'[x] = rot[x] /\ reg'[x] = reg[x]
    BY <2>5, RestartEffect
  <2>6. QED
    BY <2>1, <2>2, <2>3, <2>4, <2>5
<1>2. token'[x] = token[x]
  BY DEF TypeOK, RotationAsked, RotationTaken, RotationLost, RotationTimesOut, RotationAnswered,
         RotationSaved, RotationReturns, RegistrationPosted, RegistrationStored,
         RegistrationAdopted, RegistrationUnanswered, RegistrationLost, Restart
<1>3. row'[x] = row[x]
  BY DEF TypeOK, RotationAsked, RotationTaken, RotationLost, RotationTimesOut, RotationAnswered,
         RotationSaved, RotationReturns, RegistrationPosted, RegistrationStored,
         RegistrationAdopted, RegistrationUnanswered, RegistrationLost, Restart
<1>4. x \in torn => x \in torn'
  BY DEF RotationAsked, RotationTaken, RotationLost, RotationTimesOut, RotationAnswered,
         RotationSaved, RotationReturns, RegistrationPosted, RegistrationStored,
         RegistrationAdopted, RegistrationUnanswered, RegistrationLost, Restart, Tear, Changed
<1>5. QED
  BY <1>1, <1>2, <1>3, <1>4

\* The invariant is inductive: one worker is concerned, the others are framed.
LEMMA AgreePreserved ==
    ASSUME AgreeInv, [Next]_tokenVars
    PROVE  AgreeInv'
<1> USE DEF AgreeInv
<1>1. TypeOK'
  BY TypePreserved
<1>2. ASSUME NEW w \in Workers, NEW x \in Workers, x # w,
             \/ \E u \in Uses :
                   \/ \E t \in Tokens : RotationAsked(u, w, t)
                   \/ RotationTaken(u, w) \/ RotationLost(u, w) \/ RotationTimesOut(u, w)
                   \/ RotationAnswered(u, w) \/ RotationSaved(u, w) \/ RotationReturns(u, w)
             \/ \E h \in Handlers :
                   \/ RegistrationPosted(h, w) \/ \E t \in Tokens : RegistrationStored(h, w, t)
                   \/ RegistrationAdopted(h, w) \/ RegistrationUnanswered(h, w)
                   \/ RegistrationLost(h, w)
             \/ Restart(w)
      PROVE  WorkerInv(x)'
  <2>1. /\ rot'[x] = rot[x] /\ reg'[x] = reg[x] /\ token'[x] = token[x]
        /\ row'[x] = row[x] /\ (x \in torn => x \in torn')
    BY <1>2, OthersKept
  <2>2. QED
    BY <2>1, WorkerFrame
<1>3. ASSUME NEW w \in Workers, NEW u \in Uses,
             \/ \E t \in Tokens : RotationAsked(u, w, t)
             \/ RotationTaken(u, w) \/ RotationLost(u, w) \/ RotationTimesOut(u, w)
             \/ RotationAnswered(u, w) \/ RotationSaved(u, w) \/ RotationReturns(u, w)
      PROVE  \A x \in Workers : WorkerInv(x)'
  <2>1. WorkerInv(w)'
    BY <1>3, AskedAgrees, RotationAgrees
  <2>2. QED
    BY <1>2, <1>3, <2>1
<1>4. ASSUME NEW w \in Workers, NEW h \in Handlers,
             \/ RegistrationPosted(h, w) \/ \E t \in Tokens : RegistrationStored(h, w, t)
             \/ RegistrationAdopted(h, w) \/ RegistrationUnanswered(h, w)
             \/ RegistrationLost(h, w)
      PROVE  \A x \in Workers : WorkerInv(x)'
  <2>1. WorkerInv(w)'
    BY <1>4, PostedAgrees, RegistrationAgrees
  <2>2. QED
    BY <1>2, <1>4, <2>1
<1>5. ASSUME NEW w \in Workers, Restart(w)
      PROVE  \A x \in Workers : WorkerInv(x)'
  <2>1. WorkerInv(w)'
    BY <1>5, RestartAgrees
  <2>2. QED
    BY <1>2, <1>5, <2>1
\* The remaining steps change of a row at most that it loses its token.
<1>6. ASSUME UNCHANGED <<token, rot, reg, torn>>,
             \A x \in Workers : row'[x].token \in {row[x].token, None}
      PROVE  \A x \in Workers : WorkerInv(x)'
  BY <1>6, WorkerFrame
<1>7. ASSUME NEW w \in Workers, Heartbeat(w)
      PROVE  \A x \in Workers : row'[x].token \in {row[x].token, None}
  <2>1. PICK tunnelUp \in BOOLEAN : row' = [row EXCEPT ![w].url = row[w].url \/ tunnelUp]
    BY <1>7 DEF Heartbeat
  <2>2. row'[w].token = row[w].token
    BY <2>1, FieldsTyped DEF TypeOK, Row
  <2>3. \A x \in Workers : x # w => row'[x] = row[x]
    BY <2>1 DEF TypeOK
  <2>4. QED
    BY <2>2, <2>3
<1>8. ASSUME NEW w \in Workers, Expires(w)
      PROVE  \A x \in Workers : row'[x].token \in {row[x].token, None}
  <2>1. row'[w].token = row[w].token
    BY <1>8, FieldsTyped DEF Expires, TypeOK, Row
  <2>2. \A x \in Workers : x # w => row'[x] = row[x]
    BY <1>8 DEF Expires, TypeOK
  <2>3. QED
    BY <2>1, <2>2
<1>9. ASSUME StaleCleared
      PROVE  \A x \in Workers : row'[x].token \in {row[x].token, None}
  <2>1. \A w \in Workers : row'[w] \in {row[w], ClearedRow}
    BY <1>9 DEF StaleCleared
  <2>2. ClearedRow.token = None
    BY DEF ClearedRow
  <2>3. QED
    BY <2>1, <2>2
<1>10. ASSUME StaleCleared \/ UNCHANGED tokenVars
              \/ \E w \in Workers : Heartbeat(w) \/ HeartbeatAges(w) \/ Expires(w)
       PROVE  \A x \in Workers : WorkerInv(x)'
  <2>1. UNCHANGED <<token, rot, reg, torn>>
    BY <1>10 DEF StaleCleared, tokenVars, Heartbeat, HeartbeatAges, Expires
  <2>2. CASE UNCHANGED tokenVars \/ \E w \in Workers : HeartbeatAges(w)
    <3>1. row' = row
      BY <2>2 DEF tokenVars, HeartbeatAges
    <3>2. QED
      BY <1>6, <2>1, <3>1
  <2>3. QED
    BY <1>6, <1>7, <1>8, <1>9, <1>10, <2>1, <2>2
<1>11. \A x \in Workers : WorkerInv(x)'
  BY <1>3, <1>4, <1>5, <1>10, StepCases
<1>12. QED
  BY <1>1, <1>11

\* Unless a change of w's token was cut short or overlapped by another, the
\* row of w names the worker's token, or none, whenever no change is under way
\* (sessionToken.ts:46-74, register/route.ts:49-67, worker.py:162-172).
THEOREM CopiesAgree == Spec => []AgreeUnlessTorn
<1>1. Init => AgreeInv
  <2>1. ASSUME Init, NEW w \in Workers
        PROVE  WorkerInv(w)
    <3>1. w \in torn
      BY <2>1 DEF Init
    <3>2. /\ \A u \in Uses : rot[w][u].alone = FALSE
          /\ \A h \in Handlers : reg[w][h].alone = FALSE
      BY <2>1, IdleJobTyped DEF Init
    <3>3. QED
      BY <3>1, <3>2 DEF WorkerInv, Alone, Carried, Agrees
  <2>2. QED
    BY <2>1, InitTyped DEF AgreeInv
<1>2. AgreeInv /\ [Next]_tokenVars => AgreeInv'
  BY AgreePreserved
<1>3. AgreeInv => AgreeUnlessTorn
  <2>1. ASSUME AgreeInv, NEW w \in Workers, Quiet(w), w \notin torn
        PROVE  row[w].token \in {token[w], None}
    <3>1. Settled(w)
      BY <2>1, QuietMeans DEF Settled, RotationsIdle, RegistrationsIdle
    <3>2. QED
      BY <2>1, <3>1 DEF AgreeInv, WorkerInv, Agrees
  <2>2. QED
    BY <2>1 DEF AgreeUnlessTorn
<1>4. QED
  BY <1>1, <1>2, <1>3, PTL DEF Spec

-----------------------------------------------------------------------------
\* A call under way is for a worker.
CallShape == \A c \in Callers : caller[c].pc # "idle" => caller[c].to \in Called

\* A fetch is there or not, and its answer is about its worker.
FetchShape ==
    \A w \in Called :
        /\ fetching[w].pc = "none" => fetching[w] = NoFetch
        /\ fetching[w].pc = "answered" => fetching[w].conn \in Conn /\ fetching[w].conn.to = w

\* The same of the refresh, from its rotation on.
RefreshShape ==
    /\ refresh.pc = "none" => refresh = NoRefresh
    /\ refresh.pc # "none" => refresh.of \in Called
    /\ refresh.pc \in {"reload", "answered"} =>
          refresh.conn \in Conn /\ refresh.conn.to = refresh.of

Shape == CallShape /\ FetchShape /\ RefreshShape
Inv == CallsTypeOK /\ Shape /\ CacheIsKeyed /\ FirstTryArrives

\* What happens to a worker leaves a connection one to the same worker.
LEMMA AfterTyped ==
    ASSUME NEW w \in Called, NEW state \in {"stale", "overtaken", "dead"}, NEW conn \in MaybeConn
    PROVE /\ After(w, state, conn) \in MaybeConn
          /\ conn = Absent => After(w, state, conn) = Absent
          /\ conn \in Conn => After(w, state, conn) \in Conn /\ After(w, state, conn).to = conn.to
  <1>1. CASE conn = Absent
    BY <1>1 DEF After, MaybeConn
  <1>2. CASE conn # Absent
    <2>1. conn \in Conn
      BY <1>2 DEF MaybeConn
    <2>2. [conn EXCEPT !.state = state] \in Conn /\ [conn EXCEPT !.state = state].to = conn.to
      BY <2>1 DEF Conn
    <2>. QED
      BY <1>2, <2>1, <2>2 DEF After, MaybeConn
  <1>. QED
    BY <1>1, <1>2

\* Callers that go on, or get an exception, are calls again.
LEMMA ResumedTyped ==
    ASSUME CallsTypeOK, NEW C, NEW pc \in {"sent", "resent"}, NEW conn \in MaybeConn
    PROVE Resumed(C, pc, conn) \in [Callers -> TabCall]
  <1>1. ASSUME NEW k \in TabCall
        PROVE [k EXCEPT !.pc = pc, !.conn = conn] \in TabCall
    BY DEF TabCall
  <1>2. \A c \in Callers : caller[c] \in TabCall
    BY DEF CallsTypeOK
  <1>3. \A c \in Callers : [caller[c] EXCEPT !.pc = pc, !.conn = conn] \in TabCall
    BY <1>1, <1>2
  <1>. QED
    BY <1>2, <1>3 DEF Resumed

LEMMA ThrownTyped ==
    ASSUME CallsTypeOK, NEW C
    PROVE Thrown(C) \in [Callers -> TabCall]
  <1>1. NoTabCall \in TabCall
    BY DEF TabCall, NoTabCall, MaybeConn
  <1>2. \A c \in Callers : caller[c] \in TabCall
    BY DEF CallsTypeOK
  <1>. QED
    BY <1>1, <1>2 DEF Thrown

\* What happens to a worker elsewhere reaches every copy the tab holds.
LEMMA CopiesAfter ==
    ASSUME Inv, NEW w \in Called, NEW state \in {"stale", "overtaken", "dead"}
    PROVE /\ CacheAfter(w, state) \in [Called -> MaybeConn]
          /\ FetchesAfter(w, state) \in [Called -> Fetch]
          /\ CallsAfter(w, state) \in [Callers -> TabCall]
          /\ \A x \in Called : CacheAfter(w, state)[x] # Absent => CacheAfter(w, state)[x].to = x
          /\ \A x \in Called :
                /\ FetchesAfter(w, state)[x].pc = fetching[x].pc
                /\ fetching[x].pc = "none" => FetchesAfter(w, state)[x] = NoFetch
                /\ fetching[x].pc = "answered" =>
                      /\ FetchesAfter(w, state)[x].conn \in Conn
                      /\ FetchesAfter(w, state)[x].conn.to = x
          /\ \A c \in Callers : /\ CallsAfter(w, state)[c].pc = caller[c].pc
                                /\ CallsAfter(w, state)[c].to = caller[c].to
                                /\ CallsAfter(w, state)[c].conn.to = caller[c].conn.to
  <1>1. CacheAfter(w, state) \in [Called -> MaybeConn]
    <2>1. \A x \in Called : cache[x] \in MaybeConn
      BY DEF Inv, CallsTypeOK
    <2>2. \A x \in Called : After(w, state, cache[x]) \in MaybeConn
      BY <2>1, AfterTyped
    <2>. QED
      BY <2>2 DEF CacheAfter
  <1>2. ASSUME NEW x \in Called, CacheAfter(w, state)[x] # Absent
        PROVE CacheAfter(w, state)[x].to = x
    <2>1. cache[x] \in MaybeConn /\ CacheAfter(w, state)[x] = After(w, state, cache[x])
      BY DEF Inv, CallsTypeOK, CacheAfter
    <2>2. cache[x] # Absent
      BY <1>2, <2>1, AfterTyped
    <2>3. cache[x] \in Conn /\ cache[x].to = x
      BY <2>1, <2>2 DEF MaybeConn, Inv, CacheIsKeyed
    <2>. QED
      BY <2>1, <2>3, AfterTyped
  <1>3. ASSUME NEW x \in Called
        PROVE /\ FetchesAfter(w, state)[x] \in Fetch
              /\ FetchesAfter(w, state)[x].pc = fetching[x].pc
              /\ fetching[x].pc = "none" => FetchesAfter(w, state)[x] = NoFetch
              /\ fetching[x].pc = "answered" => /\ FetchesAfter(w, state)[x].conn \in Conn
                                                /\ FetchesAfter(w, state)[x].conn.to = x
    <2>. DEFINE f == fetching[x]
                a == After(w, state, f.conn)
    <2>1. /\ f \in Fetch /\ f.conn \in MaybeConn
          /\ FetchesAfter(w, state)[x] = [f EXCEPT !.conn = a]
      BY DEF Inv, CallsTypeOK, FetchesAfter, Fetch
    <2>2. /\ a \in MaybeConn
          /\ f.conn = Absent => a = Absent
          /\ f.conn \in Conn => a \in Conn /\ a.to = f.conn.to
      BY <2>1, AfterTyped
    <2>3. /\ f.pc = "none" => f = NoFetch
          /\ f.pc = "answered" => f.conn \in Conn /\ f.conn.to = x
      BY DEF Inv, Shape, FetchShape
    <2>4. /\ [f EXCEPT !.conn = a] \in Fetch
          /\ [f EXCEPT !.conn = a].pc = f.pc /\ [f EXCEPT !.conn = a].conn = a
      <3>. HIDE DEF f, a
      <3>. QED
        BY <2>1, <2>2 DEF Fetch
    <2>5. f.pc = "none" => [f EXCEPT !.conn = a] = NoFetch
      <3>. HIDE DEF a
      <3>. QED
        BY <2>1, <2>2, <2>3 DEF NoFetch
    <2>. QED
      BY <2>1, <2>2, <2>3, <2>4, <2>5
  <1>4. FetchesAfter(w, state) \in [Called -> Fetch]
    BY <1>3 DEF FetchesAfter
  <1>5. ASSUME NEW c \in Callers
        PROVE /\ CallsAfter(w, state)[c] \in TabCall
              /\ CallsAfter(w, state)[c].pc = caller[c].pc
              /\ CallsAfter(w, state)[c].to = caller[c].to
              /\ CallsAfter(w, state)[c].conn.to = caller[c].conn.to
    <2>. DEFINE k == caller[c]
                a == After(w, state, k.conn)
    <2>1. /\ k \in TabCall /\ k.conn \in MaybeConn
          /\ CallsAfter(w, state)[c] = [k EXCEPT !.conn = a]
      BY DEF Inv, CallsTypeOK, CallsAfter, TabCall
    <2>2. a \in MaybeConn /\ a.to = k.conn.to
      BY <2>1, AfterTyped DEF MaybeConn
    <2>3. /\ [k EXCEPT !.conn = a] \in TabCall /\ [k EXCEPT !.conn = a].conn = a
          /\ [k EXCEPT !.conn = a].pc = k.pc /\ [k EXCEPT !.conn = a].to = k.to
      <3>. HIDE DEF k, a
      <3>. QED
        BY <2>1, <2>2 DEF TabCall
    <2>. QED
      BY <2>1, <2>2, <2>3
  <1>6. CallsAfter(w, state) \in [Callers -> TabCall]
    BY <1>5 DEF CallsAfter
  <1>. QED
    BY <1>1, <1>2, <1>3, <1>4, <1>5, <1>6

-----------------------------------------------------------------------------
(* Each action keeps the invariant. *)

LEMMA StartsInv ==
    ASSUME Inv, NEW c \in Callers, NEW w \in Called, CallStarts(c, w)
    PROVE Inv'
  <1>1. caller[c] \in TabCall /\ cache[w] \in MaybeConn /\ fetching[w] \in Fetch
    BY DEF Inv, CallsTypeOK
  <1>2. CASE cache[w] # Absent
    <2>1. /\ caller' = [caller EXCEPT ![c] = [pc |-> "sent", to |-> w, conn |-> cache[w]]]
          /\ UNCHANGED <<cache, fetching, refresh>>
      BY <1>2 DEF CallStarts
    <2>2. [pc |-> "sent", to |-> w, conn |-> cache[w]] \in TabCall
      BY <1>1 DEF TabCall
    <2>3. CallsTypeOK'
      BY <2>1, <2>2 DEF Inv, CallsTypeOK
    <2>4. Shape' /\ CacheIsKeyed'
      BY <2>1 DEF Inv, CallsTypeOK, Shape, CallShape, FetchShape, RefreshShape, CacheIsKeyed
    <2>5. FirstTryArrives'
      BY <1>2, <2>1 DEF Inv, CallsTypeOK, CacheIsKeyed, FirstTryArrives
    <2>. QED
      BY <2>3, <2>4, <2>5 DEF Inv
  <1>3. CASE cache[w] = Absent
    <2>. DEFINE f == IF fetching[w] = NoFetch THEN [pc |-> "sent", conn |-> Absent] ELSE fetching[w]
    <2>1. /\ caller' = [caller EXCEPT ![c] = [pc |-> "connecting", to |-> w, conn |-> Absent]]
          /\ fetching' = [fetching EXCEPT ![w] = f]
          /\ UNCHANGED <<cache, refresh>>
      BY <1>3 DEF CallStarts
    <2>2. [pc |-> "connecting", to |-> w, conn |-> Absent] \in TabCall
      BY DEF TabCall, MaybeConn
    <2>3. /\ f \in Fetch
          /\ f.pc # "none" /\ f # NoFetch
          /\ f.pc = "answered" => f.conn \in Conn /\ f.conn.to = w
      BY <1>1 DEF Inv, Shape, FetchShape, Fetch, NoFetch, MaybeConn
    <2>. HIDE DEF f
    <2>4. CallsTypeOK'
      BY <2>1, <2>2, <2>3 DEF Inv, CallsTypeOK
    <2>5. Shape'
      BY <2>1, <2>3 DEF Inv, CallsTypeOK, Shape, CallShape, FetchShape, RefreshShape
    <2>6. CacheIsKeyed' /\ FirstTryArrives'
      BY <2>1, <2>3 DEF Inv, CallsTypeOK, CacheIsKeyed, FirstTryArrives
    <2>. QED
      BY <2>4, <2>5, <2>6 DEF Inv
  <1>. QED
    BY <1>2, <1>3

LEMMA CallStepInv ==
    ASSUME Inv, NEW c \in Callers, WorkerAnswers(c) \/ CallBreaks(c) \/ RefusalReceived(c)
    PROVE Inv'
  <1>1. caller[c] \in TabCall /\ NoTabCall \in TabCall /\ NoTabCall.pc = "idle"
    BY DEF Inv, CallsTypeOK, NoTabCall, TabCall, MaybeConn
  <1>2. ASSUME NEW k \in TabCall, k.pc # "idle" => k.to \in Called,
               k.pc # "sent",
               caller' = [caller EXCEPT ![c] = k],
               UNCHANGED <<cache, fetching, refresh>>
        PROVE Inv'
    <2>1. CallsTypeOK'
      BY <1>2 DEF Inv, CallsTypeOK
    <2>2. Shape'
      BY <1>2 DEF Inv, CallsTypeOK, Shape, CallShape, FetchShape, RefreshShape
    <2>3. CacheIsKeyed' /\ FirstTryArrives'
      BY <1>2 DEF Inv, CallsTypeOK, CacheIsKeyed, FirstTryArrives
    <2>. QED
      BY <2>1, <2>2, <2>3 DEF Inv
  <1>3. CASE WorkerAnswers(c)
    <2>. DEFINE r == [caller[c] EXCEPT !.pc = "refused", !.conn = Absent]
    <2>1. r \in TabCall /\ r.pc = "refused" /\ r.to = caller[c].to
      BY <1>1 DEF TabCall, MaybeConn
    <2>2. caller[c].to \in Called
      BY <1>3 DEF WorkerAnswers, Inv, Shape, CallShape
    <2>3. CASE caller' = [caller EXCEPT ![c] = r]
      <3>. HIDE DEF r
      <3>. QED
        BY <1>2, <1>3, <2>1, <2>2, <2>3 DEF WorkerAnswers
    <2>4. CASE caller' = [caller EXCEPT ![c] = NoTabCall]
      BY <1>1, <1>2, <1>3, <2>4 DEF WorkerAnswers
    <2>. QED
      BY <1>3, <2>3, <2>4 DEF WorkerAnswers
  <1>4. CASE CallBreaks(c)
    BY <1>1, <1>2, <1>4 DEF CallBreaks
  <1>5. CASE RefusalReceived(c)
    <2>. DEFINE k == [caller[c] EXCEPT !.pc = "refreshing"]
    <2>1. k \in TabCall /\ k.pc = "refreshing" /\ k.to = caller[c].to
      BY <1>1 DEF TabCall
    <2>2. caller[c].to \in Called
      BY <1>5 DEF RefusalReceived, Inv, Shape, CallShape
    <2>3. caller' = [caller EXCEPT ![c] = k] /\ fetching' = fetching
      BY <1>5 DEF RefusalReceived
    <2>. HIDE DEF k
    <2>4. CASE refresh # NoRefresh
      <3>1. UNCHANGED <<cache, refresh>>
        BY <1>5, <2>4 DEF RefusalReceived
      <3>2. CallsTypeOK'
        BY <2>1, <2>3, <3>1 DEF Inv, CallsTypeOK
      <3>3. Shape'
        BY <2>1, <2>2, <2>3, <3>1 DEF Inv, CallsTypeOK, Shape, CallShape, FetchShape, RefreshShape
      <3>4. CacheIsKeyed' /\ FirstTryArrives'
        BY <2>1, <2>3, <2>4, <3>1 DEF Inv, CallsTypeOK, CacheIsKeyed, FirstTryArrives
      <3>. QED
        BY <3>2, <3>3, <3>4 DEF Inv
    <2>5. CASE refresh = NoRefresh
      <3>1. /\ refresh' = [pc |-> "rotate", of |-> caller[c].to, conn |-> Absent]
            /\ cache' = [cache EXCEPT ![caller[c].to] = Absent]
        BY <1>5, <2>5 DEF RefusalReceived
      <3>2. refresh' \in Refresh /\ refresh'.pc = "rotate" /\ refresh'.of = caller[c].to /\ refresh' # NoRefresh
        BY <2>2, <3>1 DEF Refresh, MaybeConn, NoRefresh
      <3>3. CallsTypeOK'
        BY <2>1, <2>3, <3>1, <3>2 DEF Inv, CallsTypeOK, MaybeConn
      <3>4. Shape'
        BY <2>1, <2>2, <2>3, <3>2 DEF Inv, CallsTypeOK, Shape, CallShape, FetchShape, RefreshShape
      <3>5. CacheIsKeyed'
        BY <2>2, <3>1 DEF Inv, CallsTypeOK, CacheIsKeyed
      <3>6. FirstTryArrives'
        BY <2>1, <2>3, <3>2 DEF Inv, CallsTypeOK, FirstTryArrives
      <3>. QED
        BY <3>3, <3>4, <3>5, <3>6 DEF Inv
    <2>. QED
      BY <2>4, <2>5
  <1>. QED
    BY <1>3, <1>4, <1>5

LEMMA FetchStepInv ==
    ASSUME Inv, NEW w \in Called, FetchStep(w)
    PROVE Inv'
  <1>1. fetching[w] \in Fetch /\ NoFetch \in Fetch /\ NoFetch.pc = "none"
    BY DEF Inv, CallsTypeOK, Fetch, NoFetch, MaybeConn
  <1>2. CASE ConnectionAnswered(w)
    <2>1. PICK state \in {"fresh", "stale", "dead"} :
             fetching' = [fetching EXCEPT ![w] = [pc |-> "answered", conn |-> [to |-> w, state |-> state]]]
      BY <1>2 DEF ConnectionAnswered
    <2>. DEFINE k == [to |-> w, state |-> state]
                f == [pc |-> "answered", conn |-> k]
    <2>2. k \in Conn /\ k.to = w
      BY DEF Conn
    <2>3. f \in Fetch /\ f.pc = "answered" /\ f.conn = k /\ f # NoFetch
      BY <2>2 DEF Fetch, MaybeConn, NoFetch
    <2>4. fetching' = [fetching EXCEPT ![w] = f] /\ UNCHANGED <<cache, refresh, caller>>
      BY <1>2, <2>1 DEF ConnectionAnswered
    <2>. HIDE DEF f
    <2>5. CallsTypeOK'
      BY <2>3, <2>4 DEF Inv, CallsTypeOK
    <2>6. Shape'
      <3>. HIDE DEF k
      <3>. QED
        BY <2>2, <2>3, <2>4 DEF Inv, CallsTypeOK, Shape, CallShape, FetchShape, RefreshShape
    <2>7. CacheIsKeyed' /\ FirstTryArrives'
      BY <2>3, <2>4 DEF Inv, CallsTypeOK, CacheIsKeyed, FirstTryArrives
    <2>. QED
      BY <2>5, <2>6, <2>7 DEF Inv
  <1>3. CASE ConnectionReceived(w)
    <2>. DEFINE k == fetching[w].conn
                C == Waiting("connecting", {w})
    <2>1. k \in Conn /\ k.to = w
      BY <1>3 DEF ConnectionReceived, Inv, Shape, FetchShape
    <2>2. /\ cache' = [cache EXCEPT ![w] = k]
          /\ caller' = Resumed(C, "sent", k)
          /\ fetching' = [fetching EXCEPT ![w] = NoFetch]
          /\ refresh' = refresh
      BY <1>3 DEF ConnectionReceived
    <2>3. \A c \in Callers : c \in C <=> caller[c].pc = "connecting" /\ caller[c].to = w
      BY DEF Waiting
    <2>. HIDE DEF k, C
    <2>4. caller' \in [Callers -> TabCall]
      BY <2>1, <2>2, ResumedTyped DEF Inv, MaybeConn
    <2>5. \A c \in Callers : /\ c \in C => /\ caller'[c].pc = "sent" /\ caller'[c].conn = k
                                          /\ caller'[c].to = caller[c].to
                             /\ c \notin C => caller'[c] = caller[c]
      <3>1. \A c \in Callers : caller[c] \in TabCall
        BY DEF Inv, CallsTypeOK
      <3>. QED
        BY <2>2, <3>1 DEF Resumed, TabCall
    <2>6. CallsTypeOK'
      BY <1>1, <2>1, <2>2, <2>4 DEF Inv, CallsTypeOK, MaybeConn
    <2>7. Shape'
      BY <1>1, <2>2, <2>3, <2>5 DEF Inv, CallsTypeOK, Shape, CallShape, FetchShape, RefreshShape
    <2>8. CacheIsKeyed'
      BY <2>1, <2>2 DEF Inv, CallsTypeOK, CacheIsKeyed
    <2>9. FirstTryArrives'
      BY <2>1, <2>3, <2>5 DEF Inv, FirstTryArrives
    <2>. QED
      BY <2>6, <2>7, <2>8, <2>9 DEF Inv
  <1>4. CASE ConnectionFailed(w)
    <2>. DEFINE C == Waiting("connecting", {w})
    <2>1. /\ caller' = Thrown(C)
          /\ fetching' = [fetching EXCEPT ![w] = NoFetch]
          /\ UNCHANGED <<cache, refresh>>
      BY <1>4 DEF ConnectionFailed
    <2>2. \A c \in Callers : c \in C <=> caller[c].pc = "connecting" /\ caller[c].to = w
      BY DEF Waiting
    <2>. HIDE DEF C
    <2>3. caller' \in [Callers -> TabCall]
      BY <2>1, ThrownTyped DEF Inv
    <2>4. \A c \in Callers : /\ c \in C => caller'[c].pc = "idle"
                             /\ c \notin C => caller'[c] = caller[c]
      BY <2>1 DEF Thrown, NoTabCall
    <2>5. CallsTypeOK'
      BY <1>1, <2>1, <2>3 DEF Inv, CallsTypeOK
    <2>6. Shape'
      BY <1>1, <2>1, <2>2, <2>4 DEF Inv, CallsTypeOK, Shape, CallShape, FetchShape, RefreshShape
    <2>7. CacheIsKeyed' /\ FirstTryArrives'
      BY <2>1, <2>2, <2>4 DEF Inv, CallsTypeOK, CacheIsKeyed, FirstTryArrives, Shape, CallShape
    <2>. QED
      BY <2>5, <2>6, <2>7 DEF Inv
  <1>. QED
    BY <1>2, <1>3, <1>4 DEF FetchStep

\* A rotation or a move reaches the copies.
LEMMA CopiesInv ==
    ASSUME Inv, NEW w \in Called, NEW state \in {"stale", "overtaken", "dead"},
           cache' = CacheAfter(w, state), fetching' = FetchesAfter(w, state),
           caller' = CallsAfter(w, state),
           refresh' \in Refresh, RefreshShape'
    PROVE Inv'
  <1>1. /\ cache' \in [Called -> MaybeConn] /\ fetching' \in [Called -> Fetch]
        /\ caller' \in [Callers -> TabCall]
        /\ CacheIsKeyed'
    BY CopiesAfter DEF CacheIsKeyed
  <1>2. \A x \in Called :
           /\ fetching'[x].pc = fetching[x].pc
           /\ fetching[x].pc = "none" => fetching'[x] = NoFetch
           /\ fetching[x].pc = "answered" =>
                 fetching'[x].conn \in Conn /\ fetching'[x].conn.to = x
    BY CopiesAfter
  <1>3. \A c \in Callers : caller'[c].pc = caller[c].pc /\ caller'[c].to = caller[c].to
    BY CopiesAfter
  <1>4. CallsTypeOK'
    BY <1>1 DEF CallsTypeOK
  <1>5. CallShape'
    BY <1>3 DEF CallShape, Inv, Shape
  <1>6. FetchShape'
    BY <1>2 DEF FetchShape
  <1>7. FirstTryArrives'
    <2>1. \A c \in Callers : caller'[c].conn.to = caller[c].conn.to
      BY CopiesAfter
    <2>. QED
      BY <1>3, <2>1 DEF Inv, FirstTryArrives
  <1>. QED
    BY <1>1, <1>4, <1>5, <1>6, <1>7 DEF Inv, Shape

LEMMA RefreshStepInv ==
    ASSUME Inv, RefreshStep
    PROVE Inv'
  <1>1. /\ refresh \in Refresh /\ refresh.of \in Called /\ RefreshShape
        /\ NoRefresh \in Refresh /\ NoRefresh.pc = "none"
    <2>1. refresh.pc # "none"
      BY DEF RefreshStep, TokenRotated, ConnectionReloaded, RefreshResolved, RefreshFails
    <2>. QED
      BY <2>1 DEF Inv, CallsTypeOK, Shape, RefreshShape, Refresh, NoRefresh, MaybeConn
  <1>2. CASE TokenRotated
    <2>. DEFINE k == [to |-> refresh.of, state |-> "fresh"]
                r == [refresh EXCEPT !.pc = "reload", !.conn = k]
    <2>1. k \in Conn /\ k.to = refresh.of
      BY <1>1 DEF Conn
    <2>2. r \in Refresh /\ r.pc = "reload" /\ r.of = refresh.of /\ r.conn = k
      BY <1>1, <2>1 DEF Refresh, MaybeConn
    <2>3. /\ refresh' = r /\ cache' = CacheAfter(refresh.of, "overtaken")
          /\ fetching' = FetchesAfter(refresh.of, "overtaken")
          /\ caller' = CallsAfter(refresh.of, "overtaken")
          /\ refresh.pc = "rotate"
      BY <1>2 DEF TokenRotated
    <2>. HIDE DEF r, k
    <2>4. refresh # NoRefresh /\ refresh' # NoRefresh /\ refresh' \in Refresh
      BY <1>1, <2>2, <2>3
    <2>5. RefreshShape'
      BY <1>1, <2>1, <2>2, <2>3 DEF RefreshShape
    <2>. QED
      BY <1>1, <2>3, <2>4, <2>5, CopiesInv
  <1>3. CASE ConnectionReloaded
    <2>. DEFINE r == [refresh EXCEPT !.pc = "answered"]
                q == [refresh EXCEPT !.pc = "answered", !.conn.state = "dead"]
                k == [refresh.conn EXCEPT !.state = "dead"]
    <2>1. refresh.pc = "reload" /\ refresh.conn \in Conn /\ refresh.conn.to = refresh.of
      BY <1>1, <1>3 DEF ConnectionReloaded, RefreshShape
    <2>2. k \in Conn /\ k.to = refresh.of
      BY <2>1 DEF Conn
    <2>3. r \in Refresh /\ r.pc = "answered" /\ r.of = refresh.of /\ r.conn = refresh.conn
      BY <1>1 DEF Refresh
    <2>4. q \in Refresh /\ q.pc = "answered" /\ q.of = refresh.of /\ q.conn = k
      <3>1. q = [refresh EXCEPT !.pc = "answered", !.conn = k]
        BY <1>1 DEF Refresh
      <3>. QED
        BY <1>1, <2>2, <3>1 DEF Refresh, MaybeConn
    <2>5. refresh' \in {r, q} /\ UNCHANGED <<cache, fetching, caller>>
      BY <1>3 DEF ConnectionReloaded
    <2>. HIDE DEF r, q, k
    <2>6. refresh' \in Refresh /\ refresh'.pc = "answered" /\ refresh'.of = refresh.of
          /\ refresh'.conn \in Conn /\ refresh'.conn.to = refresh.of
      BY <2>1, <2>2, <2>3, <2>4, <2>5
    <2>7. CallsTypeOK' /\ CacheIsKeyed'
      BY <2>5, <2>6 DEF Inv, CallsTypeOK, CacheIsKeyed
    <2>8. Shape'
      BY <1>1, <2>5, <2>6 DEF Inv, Shape, CallShape, FetchShape, RefreshShape
    <2>9. FirstTryArrives'
      BY <1>1, <2>5, <2>6 DEF Inv, FirstTryArrives
    <2>. QED
      BY <2>7, <2>8, <2>9 DEF Inv
  <1>4. ASSUME refresh' = NoRefresh, fetching' = fetching,
               cache' \in [Called -> MaybeConn], CacheIsKeyed',
               caller' \in [Callers -> TabCall],
               \A c \in Callers : IF caller[c].pc = "refreshing"
                                   THEN /\ caller'[c].pc # "sent"
                                        /\ caller'[c].pc # "idle" => caller'[c].to = caller[c].to
                                   ELSE caller'[c] = caller[c]
        PROVE Inv'
    <2>1. CallsTypeOK'
      BY <1>1, <1>4 DEF Inv, CallsTypeOK
    <2>2. CallShape'
      BY <1>4 DEF Inv, Shape, CallShape
    <2>3. FetchShape' /\ RefreshShape'
      BY <1>1, <1>4 DEF Inv, Shape, FetchShape, RefreshShape
    <2>4. FirstTryArrives'
      BY <1>4 DEF Inv, FirstTryArrives
    <2>. QED
      BY <1>4, <2>1, <2>2, <2>3, <2>4 DEF Inv, Shape
  <1>5. \A c \in Callers : c \in Waiting("refreshing", Called) <=> caller[c].pc = "refreshing"
    BY DEF Waiting, Inv, Shape, CallShape
  <1>6. CASE RefreshResolved
    <2>. DEFINE k == refresh.conn
                C == Waiting("refreshing", Called)
    <2>1. k \in Conn /\ k.to = refresh.of
      BY <1>1, <1>6 DEF RefreshResolved, RefreshShape
    <2>2. /\ cache' = [cache EXCEPT ![refresh.of] = k]
          /\ caller' = Resumed(C, "resent", k)
          /\ refresh' = NoRefresh /\ fetching' = fetching
      BY <1>6 DEF RefreshResolved
    <2>3. \A c \in Callers : c \in C <=> caller[c].pc = "refreshing"
      BY <1>5
    <2>. HIDE DEF k, C
    <2>4. caller' \in [Callers -> TabCall]
      BY <2>1, <2>2, ResumedTyped DEF Inv, MaybeConn
    <2>5. \A c \in Callers : /\ c \in C => caller'[c].pc = "resent" /\ caller'[c].to = caller[c].to
                             /\ c \notin C => caller'[c] = caller[c]
      <3>1. \A c \in Callers : caller[c] \in TabCall
        BY DEF Inv, CallsTypeOK
      <3>. QED
        BY <2>2, <3>1 DEF Resumed, TabCall
    <2>6. cache' \in [Called -> MaybeConn] /\ CacheIsKeyed'
      BY <1>1, <2>1, <2>2 DEF Inv, CallsTypeOK, MaybeConn, CacheIsKeyed
    <2>. QED
      BY <1>4, <2>2, <2>3, <2>4, <2>5, <2>6
  <1>7. CASE RefreshFails
    <2>. DEFINE C == Waiting("refreshing", Called)
    <2>1. caller' = Thrown(C) /\ refresh' = NoRefresh /\ UNCHANGED <<cache, fetching>>
      BY <1>7 DEF RefreshFails
    <2>2. \A c \in Callers : c \in C <=> caller[c].pc = "refreshing"
      BY <1>5
    <2>. HIDE DEF C
    <2>3. caller' \in [Callers -> TabCall]
      BY <2>1, ThrownTyped DEF Inv
    <2>4. \A c \in Callers : /\ c \in C => caller'[c].pc = "idle"
                             /\ c \notin C => caller'[c] = caller[c]
      BY <2>1 DEF Thrown, NoTabCall
    <2>5. cache' \in [Called -> MaybeConn] /\ CacheIsKeyed'
      BY <2>1 DEF Inv, CallsTypeOK, CacheIsKeyed
    <2>. QED
      BY <1>4, <2>1, <2>2, <2>3, <2>4, <2>5
  <1>. QED
    BY <1>2, <1>3, <1>6, <1>7 DEF RefreshStep

LEMMA OvertakenInv ==
    ASSUME Inv, NEW w \in Called, NEW state \in {"stale", "dead"}, Overtaken(w, state)
    PROVE Inv'
  <1>. DEFINE s == IF refresh.pc = "reload" THEN "stale" ELSE state
              k == After(w, s, refresh.conn)
              r == [refresh EXCEPT !.conn = k]
  <1>1. refresh' = r /\ cache' = CacheAfter(w, state)
        /\ fetching' = FetchesAfter(w, state) /\ caller' = CallsAfter(w, state)
    BY DEF Overtaken
  <1>2. refresh \in Refresh /\ refresh.conn \in MaybeConn /\ RefreshShape
    BY DEF Inv, CallsTypeOK, Refresh, Shape
  <1>3. s \in {"stale", "overtaken", "dead"}
    OBVIOUS
  <1>. HIDE DEF s
  <1>4. /\ k \in MaybeConn
        /\ refresh.conn = Absent => k = Absent
        /\ refresh.conn \in Conn => k \in Conn /\ k.to = refresh.conn.to
    BY <1>2, <1>3, AfterTyped
  <1>. HIDE DEF k
  <1>5. r \in Refresh /\ r.pc = refresh.pc /\ r.of = refresh.of /\ r.conn = k
    BY <1>2, <1>4 DEF Refresh
  <1>6. refresh = NoRefresh => r = NoRefresh
    BY <1>4 DEF NoRefresh
  <1>7. r = NoRefresh => refresh = NoRefresh
    BY <1>2, <1>5 DEF RefreshShape, NoRefresh
  <1>. HIDE DEF r
  <1>8. RefreshShape'
    BY <1>1, <1>2, <1>4, <1>5, <1>6 DEF RefreshShape
  <1>. QED
    BY <1>1, <1>5, <1>6, <1>7, <1>8, CopiesInv

LEMMA InvalidatedInv ==
    ASSUME Inv, NEW w \in Called, Invalidated(w)
    PROVE Inv'
  <1>1. CallsTypeOK' /\ CacheIsKeyed'
    BY DEF Invalidated, Inv, CallsTypeOK, CacheIsKeyed, MaybeConn
  <1>2. Shape' /\ FirstTryArrives'
    BY DEF Invalidated, Inv, Shape, CallShape, FetchShape, RefreshShape, FirstTryArrives
  <1>. QED
    BY <1>1, <1>2 DEF Inv

LEMMA InitInv == CallsInit => Inv
  <1>. SUFFICES ASSUME CallsInit PROVE Inv
    OBVIOUS
  <1>1. NoFetch \in Fetch /\ NoRefresh \in Refresh /\ NoTabCall \in TabCall
    BY DEF NoFetch, NoRefresh, NoTabCall, Fetch, Refresh, TabCall, MaybeConn
  <1>2. CallsTypeOK
    BY <1>1 DEF CallsInit, CallsTypeOK, MaybeConn
  <1>3. Shape
    BY DEF CallsInit, Shape, CallShape, FetchShape, RefreshShape, NoFetch, NoRefresh, NoTabCall
  <1>4. CacheIsKeyed /\ FirstTryArrives
    BY DEF CallsInit, CacheIsKeyed, FirstTryArrives, NoTabCall
  <1>. QED
    BY <1>2, <1>3, <1>4 DEF Inv

LEMMA NextInv == Inv /\ [CallsNext]_tabVars => Inv'
  <1>. SUFFICES ASSUME Inv, [CallsNext]_tabVars PROVE Inv'
    OBVIOUS
  <1>1. ASSUME NEW c \in Callers, NEW w \in Called, CallStarts(c, w) PROVE Inv'
    BY <1>1, StartsInv
  <1>2. ASSUME NEW c \in Callers, WorkerAnswers(c) \/ CallBreaks(c) \/ RefusalReceived(c) PROVE Inv'
    BY <1>2, CallStepInv
  <1>3. ASSUME NEW w \in Called, FetchStep(w) PROVE Inv'
    BY <1>3, FetchStepInv
  <1>4. ASSUME NEW w \in Called, OtherRotates(w) \/ TunnelMoves(w) PROVE Inv'
    BY <1>4, OvertakenInv DEF OtherRotates, TunnelMoves
  <1>5. ASSUME NEW w \in Called, Invalidated(w) PROVE Inv'
    BY <1>5, InvalidatedInv
  <1>6. CASE RefreshStep
    BY <1>6, RefreshStepInv
  <1>7. CASE UNCHANGED tabVars
    BY <1>7 DEF tabVars, Inv, CallsTypeOK, Shape, CallShape, FetchShape, RefreshShape, CacheIsKeyed, FirstTryArrives
  <1>. QED
    BY <1>1, <1>2, <1>3, <1>4, <1>5, <1>6, <1>7 DEF CallsNext

LEMMA Invariance == CallsSpec => []Inv
  BY InitInv, NextInv, PTL DEF CallsSpec

-----------------------------------------------------------------------------
\* Cache, promises and calls keep their types (workerConnection.ts:300-444).
THEOREM TabTyped == CallsSpec => []CallsTypeOK
  <1>1. Inv => CallsTypeOK
    BY DEF Inv
  <1>. QED
    BY <1>1, Invariance, PTL

\* However many refreshes of one worker resume calls to another, a connection is
\* cached under its own worker and a call's first request goes to the worker it names
\* (workerConnection.ts:320-356, 404, 423-434).
THEOREM RetriesStrayOnly == CallsSpec => []OnlyRetriesStray
  <1>1. Inv => OnlyRetriesStray
    BY DEF Inv, OnlyRetriesStray
  <1>. QED
    BY <1>1, Invariance, PTL

-----------------------------------------------------------------------------
(* The feeds of the SharedWorker                                           *)

\* FeedsAreKept is inductive as it stands: what a message, a stream or an answer does to
\* the EventSources of either feed is decided by what the SharedWorker holds at that moment.
LEMMA FeedsStart == FeedsInit => FeedsTyped /\ FeedsAreKept
BY FeedsAssumption DEF FeedsInit, FeedsTyped, FeedsAreKept, OneStream, StatusComes

LEMMA TabsHear ==
    ASSUME following \in [Viewers -> Followed \cup {Nil, Away}], sawDone \in [Viewers -> BOOLEAN],
           ToldRunning \/ ToldDone
    PROVE  following' \in [Viewers -> Followed \cup {Nil, Away}] /\ sawDone' \in [Viewers -> BOOLEAN]
BY DEF ToldRunning, ToldDone

LEMMA FeedsStay ==
    ASSUME FeedsTyped, FeedsAreKept, [FeedsNext]_feedVars
    PROVE  FeedsTyped' /\ FeedsAreKept'
<1> USE DEF FeedsAreKept, OneStream, StatusComes
<1>1. CASE UNCHANGED feedVars
  BY <1>1 DEF feedVars, progressVars, statusVars, FeedsTyped
<1>2. CASE ProgressStep
  <2>0. UNCHANGED statusVars
    BY <1>2 DEF ProgressStep, BackendStep, Look, PageOpens, PageLeaves, StreamSays, StreamFails, PollTicks,
                ProgressAnswered, AnswerComes
  <2>1. CASE BackendStep
    <3>1. rowStatus' \in [Followed -> {"pending", "downloading", "ended"}]
          /\ progress' \in [Followed -> {"none", "running", "done"}]
      BY <2>1 DEF BackendStep, FeedsTyped
    <3> QED
      BY <2>0, <2>1, <3>1 DEF BackendStep, FeedsTyped, trackVars, statusVars
  <2>2. ASSUME NEW t \in Viewers, Look(t) PROVE FeedsTyped' /\ FeedsAreKept'
    <3>1. UNCHANGED <<rowStatus, progress, answers>>
      BY <2>2 DEF Look, backendVars
    <3>2. CASE \E f \in Followed : following' = [following EXCEPT ![t] = f] /\ UNCHANGED sawDone /\ Track(f)
      BY <2>0, <3>1, <3>2 DEF FeedsTyped, Track, statusVars
    <3>3. CASE /\ following' = [following EXCEPT ![t] = Nil] /\ sawDone' = [sawDone EXCEPT ![t] = FALSE]
               /\ StopTracking
      BY <2>0, <3>1, <3>3 DEF FeedsTyped, StopTracking, statusVars
    <3> QED
      BY <2>2, <3>2, <3>3 DEF Look
  <2>3. ASSUME NEW t \in Viewers, PageOpens(t) PROVE FeedsTyped' /\ FeedsAreKept'
    BY <2>0, <2>3 DEF PageOpens, FeedsTyped, StopTracking, backendVars, statusVars
  <2>4. ASSUME NEW t \in Viewers, PageLeaves(t) PROVE FeedsTyped' /\ FeedsAreKept'
    BY <2>0, <2>4 DEF PageLeaves, FeedsTyped, StopTracking, backendVars, statusVars, trackVars
  <2>5. ASSUME NEW f \in Followed, StreamSays(f) PROVE FeedsTyped' /\ FeedsAreKept'
    <3>1. following' \in [Viewers -> Followed \cup {Nil, Away}] /\ sawDone' \in [Viewers -> BOOLEAN]
      BY <2>5, TabsHear DEF StreamSays, FeedsTyped
    <3> QED
      BY <2>0, <2>5, <3>1 DEF StreamSays, FeedsTyped, StopTracking, backendVars, statusVars, trackVars
  <2>6. ASSUME NEW f \in Followed, StreamFails(f) PROVE FeedsTyped' /\ FeedsAreKept'
    <3>1. FetchOf(f, "check") \in Answer
      BY DEF FetchOf, Answer
    <3> QED
      BY <2>0, <2>6, <3>1 DEF StreamFails, FeedsTyped, backendVars, statusVars
  <2>7. CASE PollTicks
    <3>1. FetchOf(timer, "poll") \in Answer
      BY <2>7 DEF PollTicks, FetchOf, Answer, FeedsTyped
    <3> QED
      BY <2>0, <2>7, <3>1 DEF PollTicks, FeedsTyped, backendVars, statusVars, trackVars
  <2>8. ASSUME NEW a \in answers, ProgressAnswered(a) PROVE FeedsTyped' /\ FeedsAreKept'
    <3>1. PICK s \in {progress[a.of], "none"} : answers' = (answers \ {a}) \cup {[a EXCEPT !.says = s]}
      BY <2>8 DEF ProgressAnswered
    <3>2. a \in Answer /\ s \in {"none", "running", "done"}
      BY DEF FeedsTyped, Answer
    <3>3. [a EXCEPT !.says = s] \in Answer
      BY <3>2 DEF Answer
    <3> QED
      BY <2>0, <2>8, <3>1, <3>3 DEF ProgressAnswered, FeedsTyped, backendVars, statusVars, trackVars
  <2>9. ASSUME NEW a \in answers, AnswerComes(a) PROVE FeedsTyped' /\ FeedsAreKept'
    <3>1. a.of \in Followed
      BY DEF FeedsTyped, Answer
    <3>2. following' \in [Viewers -> Followed \cup {Nil, Away}] /\ sawDone' \in [Viewers -> BOOLEAN]
      BY <2>9, TabsHear DEF AnswerComes, FeedsTyped
    <3> QED
      BY <2>0, <2>9, <3>1, <3>2 DEF AnswerComes, FeedsTyped, StopTracking, backendVars, statusVars, trackVars
  <2> QED
    BY <1>2, <2>1, <2>2, <2>3, <2>4, <2>5, <2>6, <2>7, <2>8, <2>9 DEF ProgressStep
<1>3. CASE StatusStep
  <2> USE DEF FeedsTyped, progressVars
  <2>1. ASSUME NEW t \in Viewers, NEW w \in Watchable, PanelOpens(t, w) PROVE FeedsTyped' /\ FeedsAreKept'
    BY <2>1 DEF PanelOpens, OpenStatusStream
  <2>2. ASSUME NEW t \in Viewers, PanelCloses(t) PROVE FeedsTyped' /\ FeedsAreKept'
    BY <2>2 DEF PanelCloses, CloseAll
  <2>3. ASSUME NEW t \in Viewers, PanelGoes(t) PROVE FeedsTyped' /\ FeedsAreKept'
    BY <2>3 DEF PanelGoes
  <2>4. CASE StatusStreamFails
    BY <2>4 DEF StatusStreamFails
  <2>5. CASE RetryDue
    BY <2>5 DEF RetryDue, OpenStatusStream
  <2> QED
    BY <1>3, <2>1, <2>2, <2>3, <2>4, <2>5 DEF StatusStep
<1> QED
  BY <1>1, <1>2, <1>3 DEF FeedsNext

\* However pages come and go, streams break and answers are late, the SharedWorker has at
\* most the stream of the download it tracks, and the status of a watched worker comes.
THEOREM FeedsKept == FeedsSpec => []FeedsAreKept
<1>1. FeedsInit => FeedsTyped /\ FeedsAreKept
  BY FeedsStart
<1>2. (FeedsTyped /\ FeedsAreKept) /\ [FeedsNext]_feedVars => (FeedsTyped /\ FeedsAreKept)'
  BY FeedsStay
<1> QED
  BY <1>1, <1>2, PTL DEF FeedsSpec
-----------------------------------------------------------------------------
(* The MEGA session of a worker                                            *)

\* UnlinkedIsFlagged is inductive with the type invariant: the thread that clears the row
\* is the one that reports it, and what ends a thread before it does is remembered.
LEMMA MegaStarts == MegaInit => MegaTypeOK /\ UnlinkedIsFlagged
<1> SUFFICES ASSUME MegaInit PROVE MegaTypeOK /\ UnlinkedIsFlagged
  OBVIOUS
<1>1. PICK s \in MegaLogins : issued = {s} /\ stored = s
  BY DEF MegaInit
<1>2. NoWork \in Work
  BY DEF NoWork, Work, MaybeLogin
<1>3. stored # NoLogin
  BY <1>1, MegaAssumption
<1> QED
  BY <1>1, <1>2, <1>3 DEF MegaInit, MegaTypeOK, UnlinkedIsFlagged

\* A thread is the only one whose work changes, and it stays typed.
LEMMA WorkTyped ==
    ASSUME work \in [Uploaders -> Work], NEW t \in Uploaders
    PROVE  /\ work[t] \in Work /\ NoWork \in Work /\ Expired(t) \in Work
           /\ [NoWork EXCEPT !.pc = "report"] \in Work
           /\ \A s \in MaybeLogin : [work[t] EXCEPT !.pc = "using", !.session = s] \in Work
           /\ \A s \in MaybeLogin : [work[t] EXCEPT !.pc = "login", !.session = s] \in Work
           /\ [work[t] EXCEPT !.pc = "using"] \in Work /\ [work[t] EXCEPT !.pc = "clear"] \in Work
           /\ [work[t] EXCEPT !.pc = "clear", !.attempt = "second"] \in Work
           /\ [work[t] EXCEPT !.pc = "report"] \in Work
           /\ \A attempt \in {"first", "only"} : [pc |-> "loading", session |-> NoLogin, attempt |-> attempt] \in Work
BY DEF Work, NoWork, Expired, MaybeLogin

\* A step of a thread keeps the types and leaves the row to those that write it.
LEMMA UploaderKeepsTypes ==
    ASSUME MegaTypeOK, NEW t \in Uploaders, UploaderStep(t)
    PROVE  /\ MegaTypeOK' /\ UNCHANGED <<issued, alive>>
           /\ \A u \in Uploaders : u # t => work'[u] = work[u]
<1> USE DEF MegaTypeOK, megaRowVars, WorkOnly, MaybeLogin
<1>0. /\ work[t] \in Work /\ NoWork \in Work /\ Expired(t) \in Work
      /\ [NoWork EXCEPT !.pc = "report"] \in Work
      /\ \A s \in MaybeLogin : [work[t] EXCEPT !.pc = "using", !.session = s] \in Work
      /\ \A s \in MaybeLogin : [work[t] EXCEPT !.pc = "login", !.session = s] \in Work
      /\ [work[t] EXCEPT !.pc = "using"] \in Work /\ [work[t] EXCEPT !.pc = "clear"] \in Work
      /\ [work[t] EXCEPT !.pc = "clear", !.attempt = "second"] \in Work
      /\ [work[t] EXCEPT !.pc = "report"] \in Work
      /\ \A attempt \in {"first", "only"} : [pc |-> "loading", session |-> NoLogin, attempt |-> attempt] \in Work
  BY WorkTyped
<1>00. issued \in SUBSET MegaLogins /\ client \in MaybeLogin /\ stored \in MaybeLogin /\ work[t].session \in MaybeLogin
  BY <1>0, ZenonT(60) DEF Work
<1>1. CASE \E attempt \in {"first", "only"} : Begins(t, attempt)
  BY <1>0, <1>1 DEF Begins
<1>2. CASE HasClient(t)
  BY <1>0, <1>00, <1>2 DEF HasClient
<1>3. CASE SessionLoaded(t)
  BY <1>0, <1>00, <1>3 DEF SessionLoaded
<1>4. CASE NothingLoaded(t)
  BY <1>0, <1>4 DEF NothingLoaded
<1>5. CASE SignedIn(t)
  BY <1>0, <1>5 DEF SignedIn
<1>6. CASE SignInFails(t)
  BY <1>0, <1>6 DEF SignInFails
<1>7. CASE UploadEnds(t) \/ UploadBreaks(t)
  BY <1>0, <1>7 DEF UploadEnds, UploadBreaks
<1>8. CASE SessionRefused(t)
  BY <1>0, <1>8 DEF SessionRefused
<1>9. CASE Cleared(t)
  BY <1>0, <1>9 DEF Cleared
<1>10. CASE ClearGivenUp(t)
  BY <1>0, <1>10 DEF ClearGivenUp
<1>11. CASE Flagged(t)
  BY <1>0, <1>11 DEF Flagged
<1>12. CASE ReportGivenUp(t)
  BY <1>0, <1>12 DEF ReportGivenUp
<1> QED
  BY <1>1, <1>2, <1>3, <1>4, <1>5, <1>6, <1>7, <1>8, <1>9, <1>10, <1>11, <1>12 DEF UploaderStep

\* A thread that clears the row reports it next; one that was to report has flagged the
\* worker, or cut the report short.
LEMMA UploaderKeepsFlag ==
    ASSUME MegaTypeOK, UnlinkedIsFlagged, NEW t \in Uploaders, UploaderStep(t)
    PROVE  UnlinkedIsFlagged'
<1> USE DEF MegaTypeOK
<1>1. \A u \in Uploaders : u # t => work'[u] = work[u]
  BY UploaderKeepsTypes
<1>2. CASE Cleared(t) \/ ClearGivenUp(t)
  <2>1. work'[t].pc = "report"
    BY <1>2 DEF Cleared, ClearGivenUp, Work
  <2> QED
    BY <2>1 DEF UnlinkedIsFlagged
<1>3. CASE Flagged(t) \/ ReportGivenUp(t)
  BY <1>3 DEF Flagged, ReportGivenUp, UnlinkedIsFlagged
<1>4. CASE /\ work[t].pc # "report" /\ UNCHANGED <<stored, flagged, cut>>
  BY <1>1, <1>4 DEF UnlinkedIsFlagged
<1>5. CASE \E attempt \in {"first", "only"} : Begins(t, attempt)
  BY <1>4, <1>5 DEF Begins, WorkOnly, megaRowVars
<1>6. CASE \/ HasClient(t) \/ SessionLoaded(t) \/ NothingLoaded(t) \/ SignedIn(t) \/ SignInFails(t)
           \/ UploadEnds(t) \/ UploadBreaks(t) \/ SessionRefused(t)
  BY <1>4, <1>6 DEF HasClient, SessionLoaded, NothingLoaded, SignedIn, SignInFails, UploadEnds, UploadBreaks,
                    SessionRefused, WorkOnly, megaRowVars
<1> QED
  BY <1>2, <1>3, <1>5, <1>6 DEF UploaderStep

LEMMA MegaStays ==
    ASSUME MegaTypeOK, UnlinkedIsFlagged, [MegaNext]_megaVars
    PROVE  MegaTypeOK' /\ UnlinkedIsFlagged'
<1>1. CASE UNCHANGED megaVars
  BY <1>1 DEF megaVars, MegaTypeOK, UnlinkedIsFlagged
<1>2. ASSUME NEW s \in MegaLogins, SessionRevoked(s) PROVE MegaTypeOK' /\ UnlinkedIsFlagged'
  BY <1>2 DEF SessionRevoked, workerVars, MegaTypeOK, UnlinkedIsFlagged
<1>3. ASSUME NEW s \in MegaLogins, RelinkStored(s) \/ EditStored(s) PROVE MegaTypeOK' /\ UnlinkedIsFlagged'
  BY <1>3, MegaAssumption DEF RelinkStored, EditStored, Mints, MegaTypeOK, UnlinkedIsFlagged
<1>4. ASSUME NEW t \in Uploaders, UploaderStep(t) PROVE MegaTypeOK' /\ UnlinkedIsFlagged'
  BY <1>4, UploaderKeepsTypes, UploaderKeepsFlag
<1>5. CASE LateClear \/ LateReport
  BY <1>5 DEF LateClear, LateReport, MegaTypeOK, UnlinkedIsFlagged
<1>6. CASE WorkerRestarts
  <2>1. NoWork \in Work
    BY DEF NoWork, Work, MaybeLogin
  <2> QED
    BY <1>6, <2>1 DEF WorkerRestarts, megaRowVars, MegaTypeOK, UnlinkedIsFlagged
<1> QED
  BY <1>1, <1>2, <1>3, <1>4, <1>5, <1>6 DEF MegaNext

\* A worker without a session asks to be linked again, however its threads and the user
\* overlap, unless the report was cut short or a clear came late.
THEOREM UnlinkedFlagged == MegaSpec => []UnlinkedIsFlagged
<1>1. MegaInit => MegaTypeOK /\ UnlinkedIsFlagged
  BY MegaStarts
<1>2. (MegaTypeOK /\ UnlinkedIsFlagged) /\ [MegaNext]_megaVars => (MegaTypeOK /\ UnlinkedIsFlagged)'
  BY MegaStays
<1> QED
  BY <1>1, <1>2, PTL DEF MegaSpec
-----------------------------------------------------------------------------
(* The panel of the workers page                                           *)

\* What the polling effect last ran with is the selection; a poll under way and what is
\* shown are of that worker, and it was online: LiveIsOfWorker alone forgets the poll.
PanelHolds ==
    /\ panel \in Status /\ panel.of = selected
    /\ poll # Unset => poll = panel.of /\ panel.online
    /\ live # Unset => live = panel.of /\ panel.online

\* The effect runs again whenever the worker or its being online is another.
LEMMA RenderedHolds ==
    ASSUME PanelHolds, NEW w \in MaybeMachine, NEW st, NEW list, Online(w, st, list) \in BOOLEAN, Rendered(w, st, list)
    PROVE  PanelHolds'
<1> DEFINE new == [of |-> w, online |-> Online(w, st, list)]
<1>1. new \in Status /\ new.of = w /\ panel' = new /\ selected' = w
  BY DEF Status, Rendered
<1>2. CASE new = panel
  BY <1>1, <1>2 DEF Rendered, PanelHolds
<1>3. CASE new # panel
  <2>1. live' = Unset /\ poll' = IF new.online THEN w ELSE Unset
    BY <1>3 DEF Rendered
  <2> QED
    BY <1>1, <2>1 DEF PanelHolds
<1> QED
  BY <1>2, <1>3

LEMMA OnlineTyped ==
    ASSUME NEW w \in MaybeMachine, NEW st \in Status, NEW list \in [Machines -> BOOLEAN]
    PROVE  Online(w, st, list) \in BOOLEAN
BY DEF Online, Status, MaybeMachine

LEMMA PatchedTyped ==
    ASSUME listed \in [Machines -> BOOLEAN], NEW w \in Machines, NEW st \in Status
    PROVE  Patched(w, st) \in [Machines -> BOOLEAN]
BY DEF Patched, Status

\* What the polling effect reads stays typed.
PanelTyped ==
    /\ selected \in MaybeMachine /\ status \in Status /\ listed \in [Machines -> BOOLEAN]

LEMMA RenderedTyped ==
    ASSUME PanelTyped, PanelHolds, NEW w \in MaybeMachine, NEW st \in Status, NEW list \in [Machines -> BOOLEAN],
           Rendered(w, st, list)
    PROVE  PanelTyped' /\ PanelHolds'
<1>1. Online(w, st, list) \in BOOLEAN
  BY OnlineTyped
<1>2. PanelHolds'
  BY <1>1, RenderedHolds
<1> QED
  BY <1>2 DEF Rendered, PanelTyped

LEMMA PanelStays ==
    ASSUME PanelTyped, PanelHolds, [MachinesNext]_machineVars
    PROVE  PanelTyped' /\ PanelHolds'
<1>0. NoStatus \in Status /\ Unset \in MaybeMachine /\ Machines \subseteq MaybeMachine
  BY DEF NoStatus, Status, MaybeMachine
<1>1. CASE UNCHANGED panelVars
  BY <1>1 DEF panelVars, PanelTyped, PanelHolds
<1>2. CASE UNCHANGED machineVars
  BY <1>1, <1>2 DEF panelVars, machineVars
<1>3. ASSUME NEW w \in Machines, Selects(w) PROVE PanelTyped' /\ PanelHolds'
  <2>1. Patched(w, status) \in [Machines -> BOOLEAN]
    BY PatchedTyped DEF PanelTyped
  <2> QED
    BY <1>0, <1>3, <2>1, RenderedTyped DEF Selects, PanelTyped
<1>4. CASE Deselects
  BY <1>0, <1>4, RenderedTyped DEF Deselects, PanelTyped
<1>5. ASSUME NEW on \in BOOLEAN, StatusArrives(on) PROVE PanelTyped' /\ PanelHolds'
  <2> DEFINE st == [of |-> selected, online |-> on]
  <2>1. st \in Status /\ selected \in Machines
    BY <1>5 DEF Status, StatusArrives, PanelTyped, MaybeMachine
  <2>2. Patched(selected, st) \in [Machines -> BOOLEAN]
    BY <2>1, PatchedTyped DEF PanelTyped
  <2>3. Rendered(selected, st, Patched(selected, st))
    BY <1>5 DEF StatusArrives
  <2> HIDE DEF st
  <2> QED
    BY <1>0, <2>1, <2>2, <2>3, RenderedTyped
<1>6. ASSUME NEW w \in Machines, NEW on \in BOOLEAN, ListSynced(w, on) PROVE PanelTyped' /\ PanelHolds'
  <2>1. [listed EXCEPT ![w] = on] \in [Machines -> BOOLEAN]
    BY DEF PanelTyped
  <2> QED
    BY <1>6, <2>1, RenderedTyped DEF ListSynced, PanelTyped
<1>7. CASE PollAgain \/ PollAnswered \/ PollFails
  BY <1>7 DEF PollAgain, PollAnswered, PollFails, PanelTyped, PanelHolds
<1>8. ASSUME NEW w \in Machines, AbandonedAnswers(w) PROVE PanelTyped' /\ PanelHolds'
  BY <1>8 DEF AbandonedAnswers, PanelTyped, PanelHolds
<1>9. DialogStep => UNCHANGED panelVars
  BY DEF DialogStep, AddOpens, EditorOpens, FormStep, FormCloses, PlaceChanges, EmailTyped, LoginClicked, LoggedIn,
         LoginFails, ChangeAccount, FormSubmitted, SaveFails, Created, Updated, FormsOnly
<1>10. RelinkStep => UNCHANGED panelVars
  BY DEF RelinkStep, RelinkOpens, RelinkCloses, RelinkTyped, RelinkClicked, RelinkLoggedIn, RelinkFails, Relinked, RelinkOnly
<1> QED
  BY <1>1, <1>2, <1>3, <1>4, <1>5, <1>6, <1>7, <1>8, <1>9, <1>10 DEF MachinesNext, PanelStep

\* The panel never shows what another worker than the selected one has answered.
THEOREM LiveOfWorker == MachinesSpec => []LiveIsOfWorker
<1>1. ASSUME NEW there \in SUBSET Machines, MachinesInit(there) PROVE PanelTyped /\ PanelHolds
  BY <1>1 DEF MachinesInit, NoStatus, Status, MaybeMachine, PanelTyped, PanelHolds
<1>2. (\E there \in SUBSET Machines : MachinesInit(there)) => PanelTyped /\ PanelHolds
  BY <1>1
<1>3. (PanelTyped /\ PanelHolds) /\ [MachinesNext]_machineVars => (PanelTyped /\ PanelHolds)'
  BY PanelStays
<1>4. PanelTyped /\ PanelHolds => LiveIsOfWorker
  BY DEF PanelHolds, LiveIsOfWorker
<1> QED
  BY <1>2, <1>3, <1>4, PTL DEF MachinesSpec
-----------------------------------------------------------------------------
(* The dialogs of the workers page                                         *)

DialogTyped ==
    /\ forms \in [Dialogs -> FormState] /\ saves \in [Dialogs -> Save]
    /\ relink \in Relink /\ links \in [Jobs -> Link] /\ records \in [Machines -> Record]

\* The address beside a session is the one it was made for in a form and in what is sent,
\* as it is in the row.
SessionsOwn ==
    /\ \A d \in Dialogs : forms[d].session # Unset => forms[d].email = forms[d].session
    /\ \A d \in Dialogs : saves[d].session # Unset => saves[d].mega /\ saves[d].email = saves[d].session
    /\ SessionIsOfEmail

DialogInv == PanelTyped /\ DialogTyped /\ SessionsOwn

LEMMA Blanks ==
    /\ EmptyForm \in FormState /\ NoSave \in Save /\ NoRelink \in Relink /\ NoLink \in Link
    /\ Unset \in MaybeEmail /\ Unset \in MaybeMachine /\ MegaEmails \subseteq MaybeEmail
BY DEF EmptyForm, FormState, NoSave, Save, NoRelink, Relink, NoLink, Link, MaybeEmail, MaybeMachine

\* A step that changes one form alone.
LEMMA FormKeeps ==
    ASSUME DialogInv, NEW d \in Dialogs, NEW f \in FormState, f.session # Unset => f.email = f.session,
           forms' = [forms EXCEPT ![d] = f], UNCHANGED <<panelVars, saves, relink, links, records>>
    PROVE  DialogInv'
BY DEF DialogInv, PanelTyped, DialogTyped, SessionsOwn, SessionIsOfEmail, panelVars

LEMMA FormStepKeeps ==
    ASSUME DialogInv, NEW d \in Dialogs, FormStep(d)
    PROVE  DialogInv'
<1> USE DEF FormsOnly
<1>0. /\ forms \in [Dialogs -> FormState] /\ forms[d] \in FormState
      /\ forms[d].session # Unset => forms[d].email = forms[d].session
  BY DEF DialogInv, DialogTyped, SessionsOwn
<1>1. CASE FormCloses(d)
  <2> DEFINE f == IF d = "add" THEN [EmptyForm EXCEPT !.login = forms[d].login]
                  ELSE [forms[d] EXCEPT !.open = FALSE, !.of = Unset]
  <2>1. f \in FormState /\ (f.session # Unset => f.email = f.session)
    BY <1>0, Blanks DEF EmptyForm, FormState
  <2>2. forms' = [forms EXCEPT ![d] = f]
    BY <1>0, <1>1 DEF FormCloses
  <2> QED
    BY <1>1, <2>1, <2>2, FormKeeps DEF FormCloses
<1>2. CASE PlaceChanges(d)
  <2> DEFINE f == [forms[d] EXCEPT !.mega = ~@, !.session = IF d = "add" /\ forms[d].mega THEN Unset ELSE @]
  <2>1. f \in FormState /\ (f.session # Unset => f.email = f.session)
    BY <1>0, Blanks DEF FormState
  <2>2. forms' = [forms EXCEPT ![d] = f]
    BY <1>0, <1>2 DEF PlaceChanges
  <2> QED
    BY <1>2, <2>1, <2>2, FormKeeps DEF PlaceChanges
<1>3. CASE \E e \in MegaEmails : EmailTyped(d, e)
  <2>1. PICK e \in MegaEmails : EmailTyped(d, e)
    BY <1>3
  <2> DEFINE f == [forms[d] EXCEPT !.email = e]
  <2>2. f \in FormState /\ f.session = Unset
    BY <1>0, <2>1, Blanks DEF FormState, EmailTyped
  <2>3. forms' = [forms EXCEPT ![d] = f]
    BY <1>0, <2>1 DEF EmailTyped
  <2> HIDE DEF f
  <2> QED
    BY <2>1, <2>2, <2>3, FormKeeps DEF EmailTyped
<1>4. CASE LoginClicked(d)
  <2> DEFINE f == [forms[d] EXCEPT !.login = forms[d].email]
  <2>1. f \in FormState /\ f.session = forms[d].session /\ f.email = forms[d].email
    BY <1>0 DEF FormState
  <2>2. forms' = [forms EXCEPT ![d] = f]
    BY <1>0, <1>4 DEF LoginClicked
  <2> HIDE DEF f
  <2> QED
    BY <1>0, <1>4, <2>1, <2>2, FormKeeps DEF LoginClicked
<1>5. CASE LoggedIn(d)
  <2> DEFINE f == [forms[d] EXCEPT !.email = forms[d].login, !.session = forms[d].login, !.login = Unset]
  <2>1. f \in FormState /\ f.email = f.session
    BY <1>0, Blanks DEF FormState
  <2>2. forms' = [forms EXCEPT ![d] = f]
    BY <1>0, <1>5 DEF LoggedIn
  <2> HIDE DEF f
  <2> QED
    BY <1>5, <2>1, <2>2, FormKeeps DEF LoggedIn
<1>6. CASE LoginFails(d)
  <2> DEFINE f == [forms[d] EXCEPT !.login = Unset]
  <2>1. f \in FormState /\ f.session = forms[d].session /\ f.email = forms[d].email
    BY <1>0, Blanks DEF FormState
  <2>2. forms' = [forms EXCEPT ![d] = f]
    BY <1>0, <1>6 DEF LoginFails
  <2> HIDE DEF f
  <2> QED
    BY <1>0, <1>6, <2>1, <2>2, FormKeeps DEF LoginFails
<1>7. CASE ChangeAccount(d)
  <2> DEFINE f == [forms[d] EXCEPT !.session = Unset]
  <2>1. f \in FormState /\ f.session = Unset
    BY <1>0, Blanks DEF FormState
  <2>2. forms' = [forms EXCEPT ![d] = f]
    BY <1>0, <1>7 DEF ChangeAccount
  <2> HIDE DEF f
  <2> QED
    BY <1>7, <2>1, <2>2, FormKeeps DEF ChangeAccount
<1>8. CASE FormSubmitted(d)
  <2> DEFINE new == [busy |-> TRUE, of |-> forms[d].of, mega |-> forms[d].mega,
                     email |-> IF forms[d].mega THEN forms[d].email ELSE Unset,
                     session |-> IF forms[d].mega THEN forms[d].session ELSE Unset]
  <2>1. new \in Save /\ (new.session # Unset => new.mega /\ new.email = new.session)
    BY <1>0, Blanks DEF FormState, Save
  <2>2. saves' = [saves EXCEPT ![d] = new]
    BY <1>8 DEF FormSubmitted
  <2> HIDE DEF new
  <2> QED
    BY <1>8, <2>1, <2>2, ZenonT(60) DEF FormSubmitted, DialogInv, PanelTyped, DialogTyped, SessionsOwn, SessionIsOfEmail, panelVars
<1>9. CASE SaveFails(d)
  BY <1>9, Blanks DEF SaveFails, NoSave, DialogInv, PanelTyped, DialogTyped, SessionsOwn, SessionIsOfEmail, panelVars
<1> QED
  BY <1>1, <1>2, <1>3, <1>4, <1>5, <1>6, <1>7, <1>8, <1>9 DEF FormStep

\* A step that writes one row, and closes what it was saved from.
LEMMA RowKeeps ==
    ASSUME DialogInv, NEW w \in Machines, NEW r \in Record,
           r.session # Unset => r.email = r.session \/ r.edited,
           records' = [records EXCEPT ![w] = r]
    PROVE  records' \in [Machines -> Record] /\ SessionIsOfEmail'
BY DEF DialogInv, DialogTyped, SessionsOwn, SessionIsOfEmail

LEMMA ClosedKeeps ==
    ASSUME DialogInv, NEW d \in Dialogs, forms' = Closed(d), saves' = [saves EXCEPT ![d] = NoSave]
    PROVE  /\ forms' \in [Dialogs -> FormState] /\ saves' \in [Dialogs -> Save]
           /\ \A x \in Dialogs : forms'[x].session # Unset => forms'[x].email = forms'[x].session
           /\ \A x \in Dialogs : saves'[x].session # Unset => saves'[x].mega /\ saves'[x].email = saves'[x].session
<1> DEFINE f == [forms[d] EXCEPT !.open = FALSE, !.of = Unset]
<1>1. forms[d] \in FormState /\ forms \in [Dialogs -> FormState]
  BY DEF DialogInv, DialogTyped
<1>2. f \in FormState /\ f.session = forms[d].session /\ f.email = forms[d].email
  BY <1>1, Blanks DEF FormState
<1>3. forms' = [forms EXCEPT ![d] = f]
  BY <1>1 DEF Closed
<1> HIDE DEF f
<1>4. NoSave \in Save /\ NoSave.session = Unset
  BY Blanks DEF NoSave
<1> QED
  BY <1>1, <1>2, <1>3, <1>4 DEF DialogInv, DialogTyped, SessionsOwn

LEMMA CreatedKeeps ==
    ASSUME DialogInv, NEW w \in Machines, Created(w)
    PROVE  DialogInv'
<1> DEFINE r == [there |-> TRUE, mega |-> saves["add"].mega, email |-> saves["add"].email,
                 session |-> saves["add"].session, edited |-> FALSE]
<1>1. saves["add"] \in Save
  BY DEF DialogInv, DialogTyped, Dialogs
<1>2. r \in Record /\ (r.session # Unset => r.email = r.session)
  BY <1>1 DEF Save, Record, DialogInv, SessionsOwn, Dialogs
<1>3. records' = [records EXCEPT ![w] = r] /\ forms' = Closed("add") /\ saves' = [saves EXCEPT !["add"] = NoSave]
      /\ UNCHANGED <<panelVars, relink, links>>
  BY DEF Created
<1> HIDE DEF r
<1>4. records' \in [Machines -> Record] /\ SessionIsOfEmail'
  BY <1>2, <1>3, RowKeeps
<1>5. "add" \in Dialogs
  BY DEF Dialogs
<1>6. /\ forms' \in [Dialogs -> FormState] /\ saves' \in [Dialogs -> Save]
      /\ \A x \in Dialogs : forms'[x].session # Unset => forms'[x].email = forms'[x].session
      /\ \A x \in Dialogs : saves'[x].session # Unset => saves'[x].mega /\ saves'[x].email = saves'[x].session
  BY <1>3, <1>5, ClosedKeeps
<1> QED
  BY <1>3, <1>4, <1>6 DEF DialogInv, PanelTyped, DialogTyped, SessionsOwn, panelVars

\* An edit that stores an address without a session leaves its mark.
LEMMA UpdatedKeeps ==
    ASSUME DialogInv, Updated
    PROVE  DialogInv'
<1> DEFINE s == saves["edit"]
           was == records[s.of]
           r == [was EXCEPT
                     !.mega = s.mega,
                     !.email = IF s.mega THEN s.email ELSE was.email,
                     !.session = IF s.session # Unset THEN s.session ELSE was.session,
                     !.edited = s.session = Unset /\ (was.edited \/ (s.mega /\ s.email # was.email))]
<1>0. "edit" \in Dialogs /\ s \in Save /\ records \in [Machines -> Record]
      /\ (s.session # Unset => s.mega /\ s.email = s.session)
  BY DEF DialogInv, DialogTyped, Dialogs, SessionsOwn
<1>1. records' = [records EXCEPT ![s.of] = r] /\ forms' = Closed("edit") /\ saves' = [saves EXCEPT !["edit"] = NoSave]
      /\ UNCHANGED <<panelVars, relink, links>>
  <2>1. records' = [records EXCEPT ![s.of] = r]
    BY Zenon DEF Updated
  <2> QED
    BY <2>1 DEF Updated
<1>2. records' \in [Machines -> Record] /\ SessionIsOfEmail'
  <2>1. CASE s.of \in Machines
    <3>1. records[s.of] \in Record
      BY <1>0, <2>1
    <3>2. records[s.of].session # Unset => records[s.of].email = records[s.of].session \/ records[s.of].edited
      BY <2>1 DEF DialogInv, SessionsOwn, SessionIsOfEmail
    <3>3. CASE s.session # Unset
      <4>1. r \in Record
        BY <1>0, <3>1, <3>3 DEF Save, Record
      <4>2. r.email = r.session
        BY <1>0, <3>1, <3>3 DEF Save, Record
      <4> HIDE DEF r, s
      <4> QED
        BY <1>1, <2>1, <4>1, <4>2, RowKeeps
    <3>4. CASE s.session = Unset
      <4>1. r \in Record
        BY <1>0, <3>1, <3>4 DEF Save, Record
      <4>2. r.session = records[s.of].session
        BY <3>1, <3>4 DEF Record
      <4>3. s.mega /\ s.email # records[s.of].email => r.edited
        BY <3>1, <3>4 DEF Record
      <4>4. ~(s.mega /\ s.email # records[s.of].email) => r.email = records[s.of].email
        BY <3>1, <3>4 DEF Record
      <4>5. records[s.of].edited => r.edited
        BY <3>1, <3>4 DEF Record
      <4> HIDE DEF r, s
      <4>6. r.session # Unset => r.email = r.session \/ r.edited
        BY <3>2, <4>2, <4>3, <4>4, <4>5
      <4> QED
        BY <1>1, <2>1, <4>1, <4>6, RowKeeps
    <3> QED
      BY <3>3, <3>4
  <2>2. CASE s.of \notin Machines
    <3>1. records' = records
      BY <1>0, <1>1, <2>2
    <3> QED
      BY <1>0, <3>1 DEF DialogInv, SessionsOwn, SessionIsOfEmail
  <2> QED
    BY <2>1, <2>2
<1>3. /\ forms' \in [Dialogs -> FormState] /\ saves' \in [Dialogs -> Save]
      /\ \A x \in Dialogs : forms'[x].session # Unset => forms'[x].email = forms'[x].session
      /\ \A x \in Dialogs : saves'[x].session # Unset => saves'[x].mega /\ saves'[x].email = saves'[x].session
  BY <1>0, <1>1, ClosedKeeps
<1> QED
  BY <1>1, <1>2, <1>3 DEF DialogInv, PanelTyped, DialogTyped, SessionsOwn, panelVars

LEMMA RelinkedKeeps ==
    ASSUME DialogInv, NEW j \in Jobs, Relinked(j)
    PROVE  DialogInv'
<1> DEFINE w == links[j].of
           r == [records[w] EXCEPT !.email = links[j].email, !.session = links[j].email, !.edited = FALSE]
<1>0. links[j] \in Link /\ links \in [Jobs -> Link] /\ records \in [Machines -> Record]
  BY DEF DialogInv, DialogTyped
<1>1. /\ records' = [records EXCEPT ![w] = r]
      /\ links' = [links EXCEPT ![j] = NoLink] /\ relink' = NoRelink /\ UNCHANGED <<panelVars, forms, saves>>
  BY DEF Relinked
<1>2. records' \in [Machines -> Record] /\ SessionIsOfEmail'
  <2>1. CASE w \in Machines
    <3>1. r \in Record /\ r.email = r.session
      BY <1>0, <2>1, ZenonT(60) DEF Link, Record
    <3> HIDE DEF r, w
    <3> QED
      BY <1>1, <2>1, <3>1, RowKeeps
  <2>2. CASE w \notin Machines
    <3>1. records' = records
      BY <1>0, <1>1, <2>2
    <3> QED
      BY <1>0, <3>1 DEF DialogInv, SessionsOwn, SessionIsOfEmail
  <2> QED
    BY <2>1, <2>2
<1>3. links' \in [Jobs -> Link] /\ relink' \in Relink
  BY <1>0, <1>1, Blanks
<1> HIDE DEF r, w
<1> QED
  BY <1>1, <1>2, <1>3 DEF DialogInv, PanelTyped, DialogTyped, SessionsOwn, panelVars

\* The other steps of the re-link dialog touch neither forms nor rows.
LEMMA RelinkStepKeeps ==
    ASSUME DialogInv, RelinkStep
    PROVE  DialogInv'
<1> USE DEF RelinkOnly
<1>0. /\ relink \in Relink /\ links \in [Jobs -> Link] /\ records \in [Machines -> Record]
      /\ selected \in MaybeMachine
  BY DEF DialogInv, DialogTyped, PanelTyped
<1>1. ASSUME relink' \in Relink, links' \in [Jobs -> Link], RelinkOnly
      PROVE  DialogInv'
  BY <1>1 DEF DialogInv, PanelTyped, DialogTyped, SessionsOwn, SessionIsOfEmail, panelVars
<1>2. CASE RelinkOpens
  <2>1. records[selected] \in Record
    BY <1>0, <1>2 DEF RelinkOpens, MaybeMachine
  <2>2. relink' \in Relink
    BY <1>0, <1>2, <2>1 DEF RelinkOpens, Relink, Record
  <2> QED
    BY <1>0, <1>1, <1>2, <2>2 DEF RelinkOpens
<1>3. CASE RelinkCloses
  BY <1>0, <1>1, <1>3, Blanks DEF RelinkCloses
<1>4. CASE \E e \in MegaEmails : RelinkTyped(e)
  <2>1. relink' \in Relink
    BY <1>0, <1>4, Blanks DEF RelinkTyped, Relink
  <2> QED
    BY <1>0, <1>1, <1>4, <2>1 DEF RelinkTyped
<1>5. ASSUME NEW j \in Jobs, RelinkClicked(j) PROVE DialogInv'
  <2>1. [pc |-> "login", of |-> relink.of, email |-> relink.email] \in Link
    BY <1>0 DEF Relink, Link
  <2>2. links' \in [Jobs -> Link]
    BY <1>0, <1>5, <2>1 DEF RelinkClicked
  <2>3. relink' \in Relink
    BY <1>0, <1>5 DEF RelinkClicked, Relink
  <2> QED
    BY <1>1, <1>5, <2>2, <2>3 DEF RelinkClicked
<1>6. ASSUME NEW j \in Jobs, RelinkLoggedIn(j) PROVE DialogInv'
  <2>1. links' \in [Jobs -> Link]
    BY <1>0, <1>6 DEF RelinkLoggedIn, Link
  <2>2. relink' \in Relink
    BY <1>0, <1>6 DEF RelinkLoggedIn, Relink
  <2> QED
    BY <1>1, <1>6, <2>1, <2>2 DEF RelinkLoggedIn
<1>7. ASSUME NEW j \in Jobs, RelinkFails(j) PROVE DialogInv'
  <2>1. links' \in [Jobs -> Link]
    BY <1>0, <1>7, Blanks DEF RelinkFails
  <2>2. relink' \in Relink
    BY <1>0, <1>7 DEF RelinkFails, Relink
  <2> QED
    BY <1>1, <1>7, <2>1, <2>2 DEF RelinkFails
<1> QED
  BY <1>2, <1>3, <1>4, <1>5, <1>6, <1>7, RelinkedKeeps DEF RelinkStep

LEMMA DialogStepKeeps ==
    ASSUME DialogInv, DialogStep
    PROVE  DialogInv'
<1>0. forms \in [Dialogs -> FormState]
  BY DEF DialogInv, DialogTyped
<1>1. CASE AddOpens
  <2> DEFINE f == [forms["add"] EXCEPT !.open = TRUE]
  <2>1. "add" \in Dialogs /\ forms["add"] \in FormState
        /\ (forms["add"].session # Unset => forms["add"].email = forms["add"].session)
    BY <1>0 DEF Dialogs, DialogInv, SessionsOwn
  <2>2. f \in FormState /\ f.session = forms["add"].session /\ f.email = forms["add"].email
    BY <2>1 DEF FormState
  <2>3. forms' = [forms EXCEPT !["add"] = f]
    BY <1>0, <1>1 DEF AddOpens
  <2> HIDE DEF f
  <2> QED
    BY <1>1, <2>1, <2>2, <2>3, FormKeeps DEF AddOpens, FormsOnly
<1>2. ASSUME NEW w \in Machines, NEW e \in MaybeEmail, EditorOpens(w, e) PROVE DialogInv'
  <2> DEFINE f == [open |-> TRUE, of |-> w, mega |-> records[w].mega, email |-> e,
                   session |-> Unset, login |-> forms["edit"].login]
  <2>1. "edit" \in Dialogs /\ forms["edit"] \in FormState /\ records[w] \in Record
    BY <1>0 DEF Dialogs, DialogInv, DialogTyped
  <2>2. f \in FormState /\ f.session = Unset
    BY <2>1, Blanks DEF FormState, Record, MaybeMachine
  <2>3. forms' = [forms EXCEPT !["edit"] = f]
    BY <1>2 DEF EditorOpens
  <2> HIDE DEF f
  <2> QED
    BY <1>2, <2>1, <2>2, <2>3, FormKeeps DEF EditorOpens, FormsOnly
<1> QED
  BY <1>1, <1>2, FormStepKeeps, CreatedKeeps, UpdatedKeeps DEF DialogStep

\* A row whose session belongs to another account than its address: an edit stored the
\* address, whatever was typed, closed and reopened while the logins were under way.
THEOREM SessionOfEmail == MachinesSpec => []SessionIsOfEmail
<1> DEFINE IInv == PanelHolds /\ DialogInv
<1>1. ASSUME NEW there \in SUBSET Machines, MachinesInit(there) PROVE IInv
  <2>1. PanelTyped /\ PanelHolds
    BY <1>1 DEF MachinesInit, NoStatus, Status, MaybeMachine, PanelTyped, PanelHolds
  <2>2. records \in [Machines -> Record] /\ \A w \in Machines : records[w].session = Unset
    BY <1>1, Blanks DEF MachinesInit, Record
  <2>3. forms \in [Dialogs -> FormState] /\ \A d \in Dialogs : forms[d].session = Unset
    BY <1>1, Blanks DEF MachinesInit, EmptyForm
  <2>4. saves \in [Dialogs -> Save] /\ \A d \in Dialogs : saves[d].session = Unset
    BY <1>1, Blanks DEF MachinesInit, NoSave
  <2>5. relink \in Relink /\ links \in [Jobs -> Link]
    BY <1>1, Blanks DEF MachinesInit
  <2> QED
    BY <2>1, <2>2, <2>3, <2>4, <2>5 DEF DialogInv, DialogTyped, SessionsOwn, SessionIsOfEmail
<1>2. (\E there \in SUBSET Machines : MachinesInit(there)) => IInv
  BY <1>1
<1>3. IInv /\ [MachinesNext]_machineVars => IInv'
  <2> SUFFICES ASSUME PanelHolds, DialogInv, [MachinesNext]_machineVars PROVE IInv'
    OBVIOUS
  <2>1. PanelTyped' /\ PanelHolds'
    BY PanelStays DEF DialogInv
  <2>2. CASE UNCHANGED <<dialogVars, records>>
    BY <2>1, <2>2 DEF DialogInv, DialogTyped, SessionsOwn, SessionIsOfEmail, dialogVars
  <2>3. PanelStep => UNCHANGED <<dialogVars, records>>
    BY DEF PanelStep, Selects, Deselects, StatusArrives, ListSynced, PollAgain, PollAnswered, PollFails, AbandonedAnswers, Rendered
  <2>4. UNCHANGED machineVars => UNCHANGED <<dialogVars, records>>
    BY DEF machineVars, dialogVars
  <2>5. DialogStep \/ RelinkStep => DialogInv'
    BY DialogStepKeeps, RelinkStepKeeps
  <2> QED
    BY <2>1, <2>2, <2>3, <2>4, <2>5 DEF MachinesNext
<1>4. IInv => SessionIsOfEmail
  BY DEF DialogInv, SessionsOwn
<1> QED
  BY <1>2, <1>3, <1>4, PTL DEF MachinesSpec
-----------------------------------------------------------------------------
(* The download page: the dialog                                           *)

\* The details a form shows or waits for are those of the link in its field; a file may
\* have replaced it meanwhile, or a magnet link been typed.
Sound(f, t) ==
    /\ f.asked # Nothing => f.step = "source" /\ (f.asked = f.text \/ (t = "torrent" /\ f.crossed))
    /\ f.step = "details" => f.info = f.text \/ (t = "torrent" /\ f.crossed)
    /\ f.parsing => t = "torrent"

PageInv ==
    /\ dialog \in [open : BOOLEAN, tab : Tabs] /\ form \in Form
    /\ busy \in BOOLEAN /\ awaiting \in 0 .. MaxAdds
    /\ Sound(form, dialog.tab)

LEMMA BlankSound ==
    ASSUME NEW t \in Tabs
    PROVE  Blank(t) \in Form /\ Sound(Blank(t), t)
BY DEF Blank, Form, Places, Tabs, Sound

\* A step of the mounted form alone.
LEMMA FormSound ==
    ASSUME PageInv, NEW f \in Form, Sound(f, dialog.tab), form' = f, FormChanges
    PROVE  PageInv'
BY DEF PageInv, FormChanges

LEMMA TypeKeeps ==
    ASSUME PageInv, NEW l \in Links, Type(l)
    PROVE  PageInv'
<1> DEFINE f == form'
<1>0. form \in Form /\ Sound(form, dialog.tab) /\ form.step = "source"
  BY DEF PageInv, Type, Source
<1>1. CASE form.asked = Nothing
  <2>1. f = [form EXCEPT !.text = l, !.crossed = FALSE]
    BY <1>1, Zenon DEF Type
  <2>2. f \in Form /\ Sound(f, dialog.tab)
    BY <1>0, <1>1, <2>1 DEF Form, Sound
  <2> QED
    BY <2>2, FormSound DEF Type
<1>2. CASE form.asked # Nothing
  <2>1. f = [form EXCEPT !.text = l, !.crossed = TRUE] /\ dialog.tab = "torrent"
    BY <1>2, Zenon DEF Type
  <2>2. f \in Form /\ Sound(f, dialog.tab)
    BY <1>0, <1>2, <2>1 DEF Form, Sound
  <2> QED
    BY <2>2, FormSound DEF Type
<1> QED
  BY <1>1, <1>2

LEMMA ParsedKeeps ==
    ASSUME PageInv, NEW l \in Links, Parsed(l)
    PROVE  PageInv'
<1> DEFINE f == form'
<1>0. form \in Form /\ Sound(form, dialog.tab) /\ dialog.tab = "torrent"
  BY DEF PageInv, Parsed, Sound
<1>1. CASE form.crossed \/ (l # form.text /\ (form.asked # Nothing \/ Details))
  <2>1. f = [form EXCEPT !.text = l, !.parsing = FALSE, !.crossed = TRUE]
    BY <1>1, Zenon DEF Parsed
  <2>2. f \in Form /\ Sound(f, dialog.tab)
    BY <1>0, <2>1 DEF Form, Sound
  <2> QED
    BY <2>2, FormSound DEF Parsed
<1>2. CASE ~form.crossed /\ (l = form.text \/ (form.asked = Nothing /\ ~Details))
  <2>1. f = [form EXCEPT !.text = l, !.parsing = FALSE, !.crossed = FALSE]
    BY <1>2, Zenon DEF Parsed
  <2>2. form.step = "details" => Details
    BY DEF Parsed, Details
  <2>3. f \in Form /\ Sound(f, dialog.tab)
    BY <1>0, <1>2, <2>1, <2>2 DEF Form, Sound
  <2> QED
    BY <2>3, FormSound DEF Parsed
<1> QED
  BY <1>0, <1>1, <1>2 DEF Form

\* Whatever empties the form leaves it sound, under whichever tab.
LEMMA EmptiedKeeps ==
    ASSUME PageInv, form' = Blank(dialog'.tab), dialog' \in [open : BOOLEAN, tab : Tabs],
           busy' \in BOOLEAN, awaiting' \in 0 .. MaxAdds
    PROVE  PageInv'
BY BlankSound DEF PageInv

LEMMA SubmitKeeps ==
    ASSUME PageInv, NEW a \in AddIds, NEW p \in Places, Submit(a, p)
    PROVE  PageInv'
<1>0. busy' \in BOOLEAN /\ MaxAdds \in Nat /\ a \in 0 .. MaxAdds
  BY AddsAssumption DEF Submit, SendsAdd, AddIds
<1>1. CASE dialog.tab = "torrent"
  <2>1. dialog' = [dialog EXCEPT !.open = FALSE] /\ form' = Blank("torrent") /\ awaiting' = 0
    BY <1>1 DEF Submit
  <2>2. dialog' \in [open : BOOLEAN, tab : Tabs] /\ dialog'.tab = "torrent"
    BY <1>1, <2>1 DEF PageInv
  <2> QED
    BY <1>0, <2>1, <2>2, EmptiedKeeps
<1>2. CASE dialog.tab # "torrent"
  BY <1>0, <1>2 DEF Submit, PageInv
<1> QED
  BY <1>1, <1>2

LEMMA PageStepKeeps ==
    ASSUME PageInv, PageStep
    PROVE  PageInv'
<1> DEFINE f == form'
<1>0. /\ form \in Form /\ Sound(form, dialog.tab) /\ dialog \in [open : BOOLEAN, tab : Tabs]
      /\ busy \in BOOLEAN /\ awaiting \in 0 .. MaxAdds /\ MaxAdds \in Nat
  BY AddsAssumption DEF PageInv
<1>1. CASE OpenDialog
  <2>1. dialog' \in [open : BOOLEAN, tab : Tabs] /\ dialog'.tab = dialog.tab
    BY <1>0, <1>1 DEF OpenDialog
  <2> QED
    BY <1>0, <1>1, <2>1 DEF OpenDialog, PageInv
<1>2. CASE CloseDialog
  <2>1. dialog' \in [open : BOOLEAN, tab : Tabs] /\ dialog'.tab = dialog.tab
    BY <1>0, <1>2 DEF CloseDialog
  <2> QED
    BY <1>0, <1>2, <2>1, EmptiedKeeps DEF CloseDialog
<1>3. ASSUME NEW t \in Tabs, PickTab(t) PROVE PageInv'
  <2>1. dialog' \in [open : BOOLEAN, tab : Tabs] /\ dialog'.tab = t
    BY <1>0, <1>3 DEF PickTab
  <2> QED
    BY <1>0, <1>3, <2>1, EmptiedKeeps DEF PickTab
<1>4. ASSUME NEW p \in Places, PickPlace(p) PROVE PageInv'
  <2>1. f \in Form /\ Sound(f, dialog.tab)
    BY <1>0, <1>4 DEF PickPlace, Form, Sound
  <2> QED
    BY <1>4, <2>1, FormSound DEF PickPlace
<1>5. CASE Browse
  <2>1. f \in Form /\ Sound(f, dialog.tab)
    BY <1>0, <1>5 DEF Browse, Form, Sound
  <2> QED
    BY <1>5, <2>1, FormSound DEF Browse
<1>6. CASE ParseFails
  <2>1. f \in Form /\ Sound(f, dialog.tab)
    BY <1>0, <1>6 DEF ParseFails, Form, Sound
  <2> QED
    BY <1>6, <2>1, FormSound DEF ParseFails
<1>7. CASE AskDetails
  <2>1. f \in Form /\ Sound(f, dialog.tab)
    BY <1>0, <1>7 DEF AskDetails, Source, Form, Sound
  <2> QED
    BY <1>7, <2>1, FormSound DEF AskDetails
<1>8. CASE DetailsArrive
  <2>1. f \in Form /\ Sound(f, dialog.tab)
    BY <1>0, <1>8 DEF DetailsArrive, Form, Sound
  <2> QED
    BY <1>8, <2>1, FormSound DEF DetailsArrive
<1>9. CASE DetailsFail
  <2>1. f \in Form /\ Sound(f, dialog.tab)
    BY <1>0, <1>9 DEF DetailsFail, Form, Sound
  <2> QED
    BY <1>9, <2>1, FormSound DEF DetailsFail
<1>10. CASE Back
  <2>1. f \in Form /\ Sound(f, dialog.tab)
    BY <1>0, <1>10 DEF Back, Details, Form, Sound
  <2> QED
    BY <1>10, <2>1, FormSound DEF Back
<1> QED
  BY <1>1, <1>2, <1>3, <1>4, <1>5, <1>6, <1>7, <1>8, <1>9, <1>10, TypeKeeps, ParsedKeeps, SubmitKeeps DEF PageStep

-----------------------------------------------------------------------------
(* The download page: what is added                                        *)

AddsTyped == adds \in [AddIds -> Add]

LEMMA SubmitAdds ==
    ASSUME PageInv, AddsTyped, InfoIsOfSource, NEW a \in AddIds, NEW p \in Places, Submit(a, p)
    PROVE  AddsTyped' /\ InfoIsOfSource'
<1> DEFINE new == [pc |-> "sent", tab |-> dialog.tab, link |-> form.text, info |-> form.info, place |-> p,
                   crossed |-> form.crossed, waiting |-> TRUE, worker |-> Nothing]
<1>1. adds' = [adds EXCEPT ![a] = new]
  BY DEF Submit, SendsAdd
<1>2. form \in Form /\ dialog.tab \in Tabs
  BY DEF PageInv
<1>3. new \in Add
  BY <1>2 DEF Add, Form
<1>4. new.info = new.link \/ (new.tab = "torrent" /\ new.crossed)
  BY DEF Submit, Details, PageInv, Sound
<1> HIDE DEF new
<1> QED
  BY <1>1, <1>3, <1>4 DEF AddsTyped, InfoIsOfSource

LEMMA AddStepAdds ==
    ASSUME AddsTyped, InfoIsOfSource, NEW a \in AddIds, AddStep(a)
    PROVE  AddsTyped' /\ InfoIsOfSource'
<1>0. adds \in [AddIds -> Add] /\ adds[a] \in Add
  BY DEF AddsTyped
<1>1. ASSUME NEW new \in Add, adds' = [adds EXCEPT ![a] = new], adds[a].pc # "none",
             new.info = adds[a].info, new.link = adds[a].link, new.tab = adds[a].tab, new.crossed = adds[a].crossed
      PROVE  AddsTyped' /\ InfoIsOfSource'
  BY <1>1 DEF AddsTyped, InfoIsOfSource
<1>2. ASSUME NEW w \in Hosts \cup {Nothing}, Resolved(a, w) PROVE AddsTyped' /\ InfoIsOfSource'
  <2> DEFINE new == [adds[a] EXCEPT !.pc = "resolved", !.worker = w]
  <2>1. adds' = [adds EXCEPT ![a] = new] /\ adds[a].pc # "none"
    BY <1>0, <1>2 DEF Resolved
  <2>2. /\ new \in Add /\ new.info = adds[a].info /\ new.link = adds[a].link
        /\ new.tab = adds[a].tab /\ new.crossed = adds[a].crossed
    BY <1>0 DEF Add
  <2> HIDE DEF new
  <2> QED
    BY <1>1, <2>1, <2>2
<1>3. CASE WorkerNotFound(a) \/ InsertRefused(a) \/ Inserted(a)
  <2> DEFINE new(x) == [adds[a] EXCEPT !.pc = x]
  <2>1. PICK x \in {"inserted", "refused"} : adds' = [adds EXCEPT ![a] = new(x)]
    BY <1>0, <1>3 DEF WorkerNotFound, InsertRefused, Inserted
  <2>2. adds[a].pc # "none"
    BY <1>3 DEF WorkerNotFound, InsertRefused, Inserted
  <2>3. /\ new(x) \in Add /\ new(x).info = adds[a].info /\ new(x).link = adds[a].link
        /\ new(x).tab = adds[a].tab /\ new(x).crossed = adds[a].crossed
    BY <1>0 DEF Add
  <2> HIDE DEF new
  <2> QED
    BY <1>1, <2>1, <2>2, <2>3
<1>4. CASE Added(a) \/ NotAdded(a)
  <2> DEFINE new == [adds[a] EXCEPT !.waiting = FALSE]
  <2>1. adds' = [adds EXCEPT ![a] = new]
    BY <1>0, <1>4 DEF Added, NotAdded
  <2>2. /\ new \in Add /\ new.info = adds[a].info /\ new.link = adds[a].link /\ new.pc = adds[a].pc
        /\ new.tab = adds[a].tab /\ new.crossed = adds[a].crossed
    BY <1>0 DEF Add
  <2> HIDE DEF new
  <2> QED
    BY <2>1, <2>2 DEF AddsTyped, InfoIsOfSource
<1> QED
  BY <1>2, <1>3, <1>4 DEF AddStep

\* The page under a step of a call: an answer empties a form, or none.
LEMMA AddStepPage ==
    ASSUME PageInv, NEW a \in AddIds, AddStep(a)
    PROVE  PageInv'
<1>0. dialog \in [open : BOOLEAN, tab : Tabs] /\ 0 \in 0 .. MaxAdds /\ FALSE \in BOOLEAN
  BY AddsAssumption DEF PageInv
<1>1. CASE UNCHANGED pageVars
  BY <1>1 DEF pageVars, PageInv
<1>2. (\E w \in Hosts \cup {Nothing} : Resolved(a, w)) \/ WorkerNotFound(a) \/ Inserted(a) \/ InsertRefused(a) => UNCHANGED pageVars
  BY DEF Resolved, WorkerNotFound, Inserted, InsertRefused
<1>3. CASE Added(a)
  <2>1. dialog' \in [open : BOOLEAN, tab : Tabs] /\ dialog'.tab = dialog.tab
    BY <1>0, <1>3 DEF Added
  <2>2. form' = Blank(dialog.tab) /\ busy' \in BOOLEAN /\ awaiting' \in 0 .. MaxAdds
    BY <1>0, <1>3, Zenon DEF Added
  <2> QED
    BY <2>1, <2>2, EmptiedKeeps
<1>4. CASE NotAdded(a)
  <2>1. dialog' = dialog /\ busy' \in BOOLEAN /\ awaiting' \in 0 .. MaxAdds
    BY <1>0, <1>4, Zenon DEF NotAdded
  <2>2. CASE form' = form
    BY <2>1, <2>2 DEF PageInv
  <2>3. CASE form' = Blank(dialog.tab)
    BY <1>0, <2>1, <2>3, EmptiedKeeps
  <2>4. form' = form \/ form' = Blank(dialog.tab)
    BY <1>4 DEF NotAdded
  <2> QED
    BY <2>2, <2>3, <2>4
<1> QED
  BY <1>1, <1>2, <1>3, <1>4 DEF AddStep

\* The steps of the rows, the editor and the removals.
LEMMA OthersPage ==
    ASSUME PageInv, AddsTyped, InfoIsOfSource,
           EditStep \/ (\E a \in AddIds : EntryStep(a)) \/ (\E w \in Hosts : RemovalStep(w))
    PROVE  PageInv' /\ AddsTyped' /\ InfoIsOfSource'
<1>1. UNCHANGED <<dialog, form, awaiting, adds>>
  BY DEF EditStep, EditCloses, EditSaves, EditTested, EditWritten, EditAnswered, EntryStep, EditOpens, DeleteTested,
         EntryDeleted, EntryMoves, RemovalStep, RemovalTested, Detached, Removed, pageVars
<1>2. busy' \in BOOLEAN
  BY DEF EditStep, EditCloses, EditSaves, EditTested, EditWritten, EditAnswered, EntryStep, EditOpens, DeleteTested,
         EntryDeleted, EntryMoves, RemovalStep, RemovalTested, Detached, Removed, pageVars, PageInv
<1> QED
  BY <1>1, <1>2 DEF PageInv, AddsTyped, InfoIsOfSource

LEMMA AddsStay ==
    ASSUME PageInv, AddsTyped, InfoIsOfSource, [AddsNext]_addVars
    PROVE  PageInv' /\ AddsTyped' /\ InfoIsOfSource'
<1>1. CASE PageStep
  <2>1. CASE \E a \in AddIds : \E p \in Places : Submit(a, p)
    BY <1>1, <2>1, PageStepKeeps, SubmitAdds
  <2>2. CASE ~\E a \in AddIds : \E p \in Places : Submit(a, p)
    <3>1. adds' = adds
      BY <1>1, <2>2 DEF PageStep, OpenDialog, CloseDialog, PickTab, Type, PickPlace, Browse, Parsed, ParseFails, AskDetails,
             DetailsArrive, DetailsFail, Back, FormChanges
    <3> QED
      BY <1>1, <3>1, PageStepKeeps DEF AddsTyped, InfoIsOfSource
  <2> QED
    BY <2>1, <2>2
<1>2. ASSUME NEW a \in AddIds, AddStep(a) PROVE PageInv' /\ AddsTyped' /\ InfoIsOfSource'
  BY <1>2, AddStepAdds, AddStepPage
<1>3. CASE UNCHANGED addVars
  BY <1>3 DEF addVars, PageInv, AddsTyped, InfoIsOfSource
<1> QED
  BY <1>1, <1>2, <1>3, OthersPage DEF AddsNext

LEMMA AddsStart == AddsInit => PageInv /\ AddsTyped /\ InfoIsOfSource
<1> SUFFICES ASSUME AddsInit PROVE PageInv /\ AddsTyped /\ InfoIsOfSource
  OBVIOUS
<1>1. dialog \in [open : BOOLEAN, tab : Tabs] /\ form = Blank(dialog.tab) /\ MaxAdds \in Nat
  BY AddsAssumption DEF AddsInit, Tabs
<1>2. PageInv
  <2>1. form \in Form /\ Sound(form, dialog.tab)
    BY <1>1, BlankSound
  <2>2. busy \in BOOLEAN /\ awaiting \in 0 .. MaxAdds
    <3>1. 0 \in 0 .. MaxAdds /\ FALSE \in BOOLEAN
      BY AddsAssumption
    <3> QED
      BY <3>1, Zenon DEF AddsInit
  <2> QED
    BY <1>1, <2>1, <2>2 DEF PageInv
<1>3. NoAdd \in Add /\ NoAdd.pc = "none"
  BY DEF NoAdd, Add, Tabs
<1> QED
  BY <1>2, <1>3 DEF AddsInit, AddsTyped, InfoIsOfSource

\* What is added under a link is what was found behind that link: the form, its tab and the
\* answers it waits for never mix two of them, but for a magnet link or a file.
THEOREM InfoOfSource == AddsSpec => []InfoIsOfSource
<1>1. AddsInit => PageInv /\ AddsTyped /\ InfoIsOfSource
  BY AddsStart
<1>2. (PageInv /\ AddsTyped /\ InfoIsOfSource) /\ [AddsNext]_addVars => (PageInv /\ AddsTyped /\ InfoIsOfSource)'
  BY AddsStay
<1> QED
  BY <1>1, <1>2, PTL DEF AddsSpec

-----------------------------------------------------------------------------
(* The download page: the rows and their workers                           *)

Active == {"pending", "downloading"}

\* A row keeps its worker, or loses it to a removal; active, only when it was a removal
\* that did not count it.
Keeps(e) ==
    /\ e.worker \in {e.assigned, Nothing}
    /\ e.status \in Active => e.worker = e.assigned \/ e.overtook
    /\ e.status \in Active /\ Tested(e.worker) => e.overtook

RowsTyped ==
    /\ entries \in [AddIds -> Entry] /\ editor \in Editor
    /\ hosts \in SUBSET Hosts /\ removal \in [Hosts -> {"none", "tested", "detached"}]

RowsInv == RowsTyped /\ \A a \in AddIds : Keeps(entries[a])

\* A step that writes one row.
LEMMA RowWritten ==
    ASSUME RowsInv, NEW a \in AddIds, NEW e \in Entry, Keeps(e),
           entries' = [entries EXCEPT ![a] = e], editor' \in Editor, UNCHANGED <<hosts, removal>>
    PROVE  RowsInv'
BY DEF RowsInv, RowsTyped, Keeps, Tested

\* A step that writes none.
LEMMA RowsLeft ==
    ASSUME RowsInv, UNCHANGED <<entries, hosts, removal>>, editor' \in Editor
    PROVE  RowsInv'
BY DEF RowsInv, RowsTyped, Keeps, Tested

LEMMA InsertedKeeps ==
    ASSUME RowsInv, AddsTyped, NEW a \in AddIds, Inserted(a)
    PROVE  RowsInv'
<1> DEFINE w == adds[a].worker
           e(b) == [status |-> "pending", link |-> adds[a].link, worker |-> w, assigned |-> w,
                    overtook |-> b, deleting |-> FALSE]
<1>0. adds[a] \in Add
  BY DEF AddsTyped
<1>1. \A b \in BOOLEAN : e(b) \in Entry
  BY <1>0 DEF Add, Entry
<1>2. PICK b \in BOOLEAN : (b <=> Tested(w)) /\ entries' = [entries EXCEPT ![a] = e(b)]
  <2>1. Tested(w) \in BOOLEAN
    BY DEF Tested
  <2> QED
    BY <2>1, Zenon DEF Inserted
<1>3. Keeps(e(b))
  BY <1>2 DEF Keeps
<1>4. e(b) \in Entry
  BY <1>1
<1> HIDE DEF e
<1> QED
  BY <1>2, <1>3, <1>4, RowWritten DEF Inserted, RowsInv, RowsTyped

LEMMA EntryStepKeeps ==
    ASSUME RowsInv, NEW a \in AddIds, EntryStep(a)
    PROVE  RowsInv'
<1>0. /\ entries[a] \in Entry /\ entries \in [AddIds -> Entry] /\ Keeps(entries[a]) /\ editor \in Editor
      /\ MaxAdds \in Nat
  BY AddsAssumption DEF RowsInv, RowsTyped
<1>1. CASE EditOpens(a)
  <2>1. editor' \in Editor
    BY <1>0, <1>1 DEF EditOpens, Editor, AddIds
  <2> QED
    BY <1>1, <2>1, RowsLeft DEF EditOpens
<1>2. CASE DeleteTested(a)
  <2> DEFINE e == [entries[a] EXCEPT !.deleting = TRUE]
  <2>1. entries' = [entries EXCEPT ![a] = e]
    BY <1>0, <1>2 DEF DeleteTested
  <2>2. e \in Entry /\ Keeps(e)
    BY <1>0 DEF Entry, Keeps
  <2> HIDE DEF e
  <2> QED
    BY <1>0, <1>2, <2>1, <2>2, RowWritten DEF DeleteTested
<1>3. CASE EntryDeleted(a)
  <2> DEFINE e == [NoEntry EXCEPT !.status = "gone"]
  <2>1. e \in Entry /\ Keeps(e)
    BY DEF NoEntry, Entry, Keeps, Active
  <2> QED
    BY <1>0, <1>3, <2>1, RowWritten DEF EntryDeleted
<1>4. ASSUME NEW m \in Moves, EntryMoves(a, m) PROVE RowsInv'
  <2> DEFINE e(b) == [entries[a] EXCEPT !.status = m[2], !.overtook = b]
  <2>1. PICK b \in BOOLEAN : /\ b <=> (entries[a].overtook \/ (m[1] = "ended" /\ Passed(a)))
                             /\ entries' = [entries EXCEPT ![a] = e(b)]
    <3>1. (entries[a].overtook \/ (m[1] = "ended" /\ Passed(a))) \in BOOLEAN
      OBVIOUS
    <3>2. entries' = [entries EXCEPT ![a] = e(entries[a].overtook \/ (m[1] = "ended" /\ Passed(a)))]
      BY <1>4, Zenon DEF EntryMoves
    <3> QED
      BY <3>1, <3>2, Zenon
  <2>2. /\ m[2] \in {"none", "pending", "downloading", "uploading", "ended", "gone"}
        /\ m[2] \in Active => m[1] = "ended" \/ m[1] \in Active
        /\ entries[a].status = m[1]
    BY <1>4 DEF Moves, Active, EntryMoves
  <2>3. e(b) \in Entry
    BY <1>0, <2>2 DEF Entry
  <2>4. Keeps(e(b))
    <3>1. /\ e(b).status = m[2] /\ e(b).worker = entries[a].worker /\ e(b).assigned = entries[a].assigned
          /\ e(b).overtook = b
      BY <1>0 DEF Entry
    <3> HIDE DEF e
    <3> QED
      BY <1>0, <2>1, <2>2, <3>1 DEF Keeps, Passed
  <2> HIDE DEF e
  <2> QED
    BY <1>0, <1>4, <2>1, <2>3, <2>4, RowWritten DEF EntryMoves
<1> QED
  BY <1>1, <1>2, <1>3, <1>4 DEF EntryStep

LEMMA EditStepKeeps ==
    ASSUME RowsInv, EditStep
    PROVE  RowsInv'
<1>0. entries \in [AddIds -> Entry] /\ editor \in Editor /\ 0 \in 0 .. MaxAdds
  BY AddsAssumption DEF RowsInv, RowsTyped
<1>1. CASE EditCloses \/ EditTested \/ EditAnswered \/ \E l \in Links : EditSaves(l)
  <2>1. editor' \in Editor
    BY <1>0, <1>1 DEF EditCloses, EditTested, EditAnswered, EditSaves, Editor
  <2>2. UNCHANGED <<entries, hosts, removal>>
    BY <1>1 DEF EditCloses, EditTested, EditAnswered, EditSaves
  <2> QED
    BY <2>1, <2>2, RowsLeft
<1>2. CASE EditWritten
  <2> DEFINE a == editor.of
             e == [entries[a] EXCEPT !.link = editor.link]
  <2>1. editor' \in Editor
    BY <1>0, <1>2 DEF EditWritten, Editor
  <2>2. CASE entries' = entries
    BY <1>2, <2>1, <2>2, RowsLeft DEF EditWritten
  <2>3. CASE entries' # entries
    <3>1. entries' = [entries EXCEPT ![a] = e] /\ a \in AddIds
      BY <1>0, <1>2, <2>3 DEF EditWritten
    <3>2. entries[a] \in Entry /\ Keeps(entries[a])
      BY <3>1 DEF RowsInv, RowsTyped
    <3>3. e \in Entry /\ Keeps(e)
      BY <1>0, <3>2 DEF Entry, Editor, Keeps
    <3> HIDE DEF e, a
    <3> QED
      BY <1>2, <2>1, <3>1, <3>3, RowWritten DEF EditWritten
  <2> QED
    BY <2>2, <2>3
<1> QED
  BY <1>1, <1>2 DEF EditStep

\* The removal of a worker: an active row that the test counts stops it, and one that became
\* active after it says so.
LEMMA RemovalKeeps ==
    ASSUME RowsInv, NEW w \in Hosts, RemovalStep(w)
    PROVE  RowsInv'
<1>0. /\ entries \in [AddIds -> Entry] /\ editor \in Editor /\ hosts \in SUBSET Hosts
      /\ removal \in [Hosts -> {"none", "tested", "detached"}] /\ \A a \in AddIds : Keeps(entries[a])
  BY DEF RowsInv, RowsTyped
<1>1. CASE RemovalTested(w)
  <2>1. RowsTyped' /\ entries' = entries
    BY <1>0, <1>1 DEF RemovalTested, RowsTyped
  <2>2. ASSUME NEW a \in AddIds PROVE Keeps(entries[a])'
    <3>1. entries[a].status \in Active => entries[a].worker # w
      BY <1>1 DEF RemovalTested, Active
    <3>2. Keeps(entries[a]) /\ entries'[a] = entries[a]
      BY <1>0, <2>1
    <3>3. entries[a].worker # w => (Tested(entries[a].worker)' <=> Tested(entries[a].worker))
      BY <1>0, <1>1, <2>1 DEF RemovalTested, Tested
    <3> QED
      BY <3>1, <3>2, <3>3 DEF Keeps
  <2> QED
    BY <2>1, <2>2 DEF RowsInv
<1>2. CASE Detached(w)
  <2> DEFINE e(a) == IF entries[a].worker = w THEN [entries[a] EXCEPT !.worker = Nothing] ELSE entries[a]
  <2>1. entries' = [a \in AddIds |-> e(a)] /\ removal' = [removal EXCEPT ![w] = "detached"]
        /\ UNCHANGED <<editor, hosts>>
    BY <1>2 DEF Detached
  <2>2. ASSUME NEW a \in AddIds PROVE e(a) \in Entry
    BY <1>0 DEF Entry
  <2>3. ASSUME NEW a \in AddIds PROVE Keeps(entries[a])'
    <3>1. Keeps(entries[a]) /\ entries[a] \in Entry /\ entries'[a] = e(a)
      BY <1>0, <2>1
    <3>2. CASE entries[a].worker = w
      <4>1. /\ entries'[a].worker = Nothing /\ entries'[a].assigned = entries[a].assigned
            /\ entries'[a].status = entries[a].status /\ entries'[a].overtook = entries[a].overtook
        BY <3>1, <3>2 DEF Entry
      <4>2. entries[a].status \in Active => entries[a].overtook
        BY <1>2, <3>1, <3>2, AddsAssumption DEF Keeps, Tested, Detached
      <4> QED
        BY <4>1, <4>2 DEF Keeps, Tested
    <3>3. CASE entries[a].worker # w
      <4>1. entries'[a] = entries[a]
        BY <3>1, <3>3
      <4>2. Tested(entries[a].worker)' => Tested(entries[a].worker)
        BY <1>0, <2>1, <3>1, <3>3, <4>1 DEF Tested, Entry
      <4> QED
        BY <3>1, <4>1, <4>2 DEF Keeps
    <3> QED
      BY <3>2, <3>3
  <2> HIDE DEF e
  <2> QED
    BY <1>0, <2>1, <2>2, <2>3 DEF RowsInv, RowsTyped
<1>3. CASE Removed(w)
  <2>1. RowsTyped' /\ entries' = entries
    BY <1>0, <1>3 DEF Removed, RowsTyped
  <2>2. ASSUME NEW a \in AddIds PROVE Keeps(entries[a])'
    <3>1. Keeps(entries[a]) /\ entries'[a] = entries[a] /\ entries[a] \in Entry
      BY <1>0, <2>1
    <3>2. Tested(entries[a].worker)' => Tested(entries[a].worker)
      BY <1>0, <1>3, <2>1, <3>1 DEF Removed, Tested, Entry
    <3> QED
      BY <3>1, <3>2 DEF Keeps
  <2> QED
    BY <2>1, <2>2 DEF RowsInv
<1> QED
  BY <1>1, <1>2, <1>3 DEF RemovalStep

LEMMA RowsStay ==
    ASSUME RowsInv, AddsTyped, [AddsNext]_addVars
    PROVE  RowsInv'
<1>0. editor \in Editor
  BY DEF RowsInv, RowsTyped
<1>1. CASE UNCHANGED <<entries, editor, hosts, removal>>
  BY <1>0, <1>1, RowsLeft
<1>2. PageStep => UNCHANGED <<entries, editor, hosts, removal>>
  BY DEF PageStep, OpenDialog, CloseDialog, PickTab, Type, PickPlace, Browse, Parsed, ParseFails, AskDetails,
         DetailsArrive, DetailsFail, Back, Submit, FormChanges
<1>3. ASSUME NEW a \in AddIds, AddStep(a), ~Inserted(a) PROVE UNCHANGED <<entries, editor, hosts, removal>>
  BY <1>3 DEF AddStep, Resolved, WorkerNotFound, InsertRefused, Added, NotAdded
<1>4. UNCHANGED addVars => UNCHANGED <<entries, editor, hosts, removal>>
  BY DEF addVars
<1> QED
  BY <1>1, <1>2, <1>3, <1>4, InsertedKeeps, EntryStepKeeps, EditStepKeeps, RemovalKeeps DEF AddsNext

\* Deleting a worker takes it from no row that waits or downloads, unless the row became so
\* between the test and the statement that detaches the rows.
THEOREM ActiveKeepsWorker == AddsSpec => []ActiveHasWorker
<1> DEFINE IInv == PageInv /\ AddsTyped /\ InfoIsOfSource /\ RowsInv
<1>1. AddsInit => IInv
  <2> SUFFICES ASSUME AddsInit PROVE RowsInv
    BY AddsStart
  <2>1. NoEntry \in Entry /\ Keeps(NoEntry)
    BY DEF NoEntry, Entry, Keeps, Active
  <2>2. editor \in Editor
    BY AddsAssumption DEF AddsInit, Editor
  <2> QED
    BY <2>1, <2>2 DEF AddsInit, RowsInv, RowsTyped
<1>2. IInv /\ [AddsNext]_addVars => IInv'
  BY AddsStay, RowsStay
<1>3. IInv => ActiveHasWorker
  BY DEF RowsInv, Keeps, Active, ActiveHasWorker
<1> QED
  BY <1>1, <1>2, <1>3, PTL DEF AddsSpec
=============================================================================

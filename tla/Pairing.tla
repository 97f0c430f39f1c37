------------------------------ MODULE Pairing ------------------------------
(***************************************************************************)
(* A television is paired with a workspace: AppViewModel.kt on the TV,     *)
(* tvPairing.ts and tvAuth.ts on the server, a browser that approves the   *)
(* code and one that revokes the device.                                   *)
(*                                                                         *)
(* The server's handlers are several SQL statements each, and every one is *)
(* a step: requests overlap, and one the TV no longer waits for is served  *)
(* all the same.  Pairings and devices are numbered in the order of their  *)
(* creation, tokens in the order of their making; 0 is none.  Of time the  *)
(* model keeps whether a code is past its expiry; an approval may be past  *)
(* its window, which is longer, when its code has expired.                 *)
(***************************************************************************)
EXTENDS Naturals, Sequences, FiniteSets

CONSTANTS
    Limit,          \* TV_MAX_DEVICES_PER_WORKSPACE
    MaxApprovals,   \* bound on the approvals of one code under way
    MaxPairings,    \* bound on the codes that are made
    MaxTokens       \* bound on the tokens that are made

ASSUME BoundsAreNumbers == {MaxApprovals, MaxPairings, MaxTokens} \subseteq Nat

VARIABLES
    pairings,   \* tv_pairings of this TV's secret, in the order of createdAt
    devices,    \* tv_devices of the workspace
    minted,     \* number of tokens made so far
    screen,     \* AppState.screen
    token,      \* the stored bearer token, with (history) the device it was made for
    job,        \* pairingJob
    call,       \* the library's refresh
    starts,     \* POST pair/start, the job's own and an old one nobody waits for
    polls,      \* GET pair/poll, likewise
    approvals   \* number of POST pair/approve that have read each pairing

pairVars == <<pairings, devices, minted, screen, token, job, call, starts, polls, approvals>>
server == <<pairings, devices, minted, approvals>>
tv == <<screen, token, job>>

\* gone: the row is deleted.
Pairing == [status : {"pending", "approved", "expired", "gone"}, late : BOOLEAN, device : Nat]
\* unheard: the last token went to a poll nobody waited for (history).
Device == [token : Nat, revoked : BOOLEAN, unheard : BOOLEAN]
\* code: the last one shown.  refused: a poll answered that it is of no use.
Job == [pc : {"none", "starting", "waiting", "asking", "ended", "refused"}, code : Nat]
Request == [pc : {"idle", "asked", "cleared", "found", "lapsing", "issuing", "answered"}, row : Nat, says : {"", "pending", "approved", "denied", "expired", "unknown"},
            token : Nat, device : Nat]
Slots == {"own", "old"}

Idle == [pc |-> "idle", row |-> 0, says |-> "", token |-> 0, device |-> 0]
Asked == [Idle EXCEPT !.pc = "asked"]
NewDevice == [token |-> 0, revoked |-> FALSE, unheard |-> FALSE]
NoToken == [id |-> 0, device |-> 0]
NoCall == [pc |-> "none", id |-> 0]

Ids(s) == 1 .. Len(s)
Rows == {p \in Ids(pairings) : pairings[p].status # "gone"}
OldestRow == IF Rows = {} THEN 0 ELSE CHOOSE p \in Rows : \A q \in Rows : p <= q   \* variant
Latest == IF Rows = {} THEN 0 ELSE CHOOSE p \in Rows : \A q \in Rows : q <= p
Live == {d \in Ids(devices) : ~devices[d].revoked}
Accepted(t) == t # 0 /\ \E d \in Live : devices[d].token = t

\* Rows that are taken away.
Without(gone) ==
    [p \in Ids(pairings) |-> IF p \in gone THEN [pairings[p] EXCEPT !.status = "gone"] ELSE pairings[p]]

\* Variant: a cancelled job's request is still waited for.
GivenUpStill(slots) == slots

\* The job gives its own request up; an answer nobody waits for is lost.  One old
\* request at a time is a bound of the model.
MayGiveUp ==
    \/ starts["own"].pc \in {"idle", "answered"} /\ polls["own"].pc \in {"idle", "answered"}
    \/ starts["old"].pc = "idle" /\ polls["old"].pc = "idle"
GivenUp(slots) ==
    [s \in Slots |-> IF s = "own" THEN Idle
                     ELSE IF slots["own"].pc \in {"idle", "answered"} THEN slots["old"] ELSE slots["own"]]

\* What is left of a request that is answered.
Answered(s, r) == IF s = "own" THEN [r EXCEPT !.pc = "answered"] ELSE Idle

-----------------------------------------------------------------------------
(* Faulty variants: what the code would do with one test or one reset less.  *)

-----------------------------------------------------------------------------
(* The television                                                           *)

\* beginPairing: the old job is cancelled, a new one asks for a code.
BeginPairing ==
    /\ MayGiveUp
    /\ screen' = "pairing"
    /\ job' = [job EXCEPT !.pc = "starting"]
    /\ starts' = [GivenUp(starts) EXCEPT !["own"] = Asked]
    /\ polls' = GivenUp(polls)

StopPairing ==
    /\ MayGiveUp
    /\ job' = [job EXCEPT !.pc = "none"]
    /\ starts' = GivenUp(starts)
    /\ polls' = GivenUp(polls)

\* The process starts: with a token the TV asks who it is, else it pairs.
Bootstrap ==
    IF token.id = 0 THEN BeginPairing ELSE screen' = "loading" /\ StopPairing

Restarts ==
    /\ Bootstrap
    /\ call' = NoCall
    /\ UNCHANGED <<server, token>>

\* getMe is accepted or refused.  After any other failure the user tries again or
\* opens the settings.
BootAccepted ==
    /\ screen = "loading" /\ Accepted(token.id)
    /\ screen' = "library"
    /\ pairings' = Without({p \in Rows : pairings[p].status = "approved"
                                            /\ devices[pairings[p].device].token = token.id})
    /\ UNCHANGED <<devices, minted, approvals, token, job, call, starts, polls>>

BootRefused ==
    /\ screen = "loading" /\ ~Accepted(token.id)
    /\ token' = NoToken
    /\ BeginPairing
    /\ UNCHANGED <<server, call>>

\* "Start a new code".
RetryPairing ==
    /\ screen = "pairing" /\ job.pc \in {"ended", "refused"}
    /\ BeginPairing
    /\ UNCHANGED <<server, token, call>>

\* The countdown starts later than the server's expiry and leaves out the time of
\* the requests: when it ends the code has expired.
CountdownEnds ==
    /\ job.pc = "waiting"
    /\ pairings[job.code].late
    /\ job' = [job EXCEPT !.pc = "ended"]
    /\ UNCHANGED <<server, screen, token, call, starts, polls>>

PollSent ==
    /\ job.pc = "waiting"
    /\ job' = [job EXCEPT !.pc = "asking"]
    /\ polls' = [polls EXCEPT !["own"] = Asked]
    /\ UNCHANGED <<server, screen, token, call, starts>>

\* The poll fails on the way, is refused for its rate, or times out: the server may
\* still serve it.  The TV goes on waiting.
PollLost ==
    /\ job.pc = "asking"
    /\ job' = [job EXCEPT !.pc = "waiting"]
    /\ \/ MayGiveUp /\ polls' = GivenUp(polls)
       \/ polls["own"].pc = "asked" /\ polls' = [polls EXCEPT !["own"] = Idle]
    /\ UNCHANGED <<server, screen, token, call, starts>>

\* "unknown" comes as a 404, which is an exception like a lost connection.
PollHeard ==
    LET r == polls["own"] IN
    /\ r.pc = "answered"
    /\ polls' = [polls EXCEPT !["own"] = Idle]
    /\ CASE r.says = "approved" ->
              /\ token' = [id |-> r.token, device |-> r.device]
              /\ screen' = "library" /\ job' = [job EXCEPT !.pc = "none"]
         [] r.says \in {"pending", "unknown"} ->
              job' = [job EXCEPT !.pc = "waiting"] /\ UNCHANGED <<token, screen>>
         [] OTHER -> job' = [job EXCEPT !.pc = "refused"] /\ UNCHANGED <<token, screen>>
    /\ UNCHANGED <<server, call, starts>>

\* Settings hide the code; leaving them shows the library or a new code.
OpenSettings ==
    /\ screen \in {"pairing", "library", "loading"}
    /\ screen' = "settings"
    /\ StopPairing
    /\ UNCHANGED <<server, token, call>>

CloseSettings ==
    /\ screen = "settings"
    /\ IF token.id = 0 THEN BeginPairing ELSE screen' = "library" /\ UNCHANGED <<job, starts, polls>>
    /\ UNCHANGED <<server, token, call>>

\* Another server is entered, or the TV is disconnected: its DELETE may have
\* revoked the device (Revoke) or failed.
Forget ==
    /\ screen = "settings"
    /\ token' = NoToken
    /\ BeginPairing
    /\ UNCHANGED <<server, call>>

\* LibraryViewModel.refresh, every 20 s, one at a time.
CallSent ==
    /\ screen = "library" /\ call.pc = "none"
    /\ call' = [pc |-> "asked", id |-> token.id]
    /\ UNCHANGED <<server, tv, starts, polls>>

CallFails ==
    /\ call.pc = "asked"
    /\ call' = NoCall
    /\ UNCHANGED <<server, tv, starts, polls>>

\* A 401 is an event that only the library collects.
CallRefused ==
    /\ call.pc = "refused"
    /\ call' = NoCall
    /\ IF screen = "library" THEN token' = NoToken /\ BeginPairing
       ELSE UNCHANGED <<screen, token, job, starts, polls>>
    /\ UNCHANGED <<server>>

-----------------------------------------------------------------------------
(* The server                                                               *)

\* startPairing: pending rows of the secret go, and any that expired an hour ago.
StartClears(s) ==
    /\ starts[s].pc = "asked"
    /\ \E old \in SUBSET {p \in Rows : pairings[p].late} :
          pairings' = Without(old \cup {p \in Rows : pairings[p].status = "pending"})
    /\ starts' = [starts EXCEPT ![s].pc = "cleared"]
    /\ UNCHANGED <<devices, minted, approvals, tv, call, polls>>

StartInserts(s) ==
    /\ starts[s].pc = "cleared" /\ Len(pairings) < MaxPairings
    /\ pairings' = Append(pairings, [status |-> "pending", late |-> FALSE, device |-> 0])
    /\ starts' = [starts EXCEPT ![s] = Answered(s, [Asked EXCEPT !.row = Len(pairings) + 1])]
    /\ UNCHANGED <<devices, minted, approvals, tv, call, polls>>

StartHeard ==
    LET p == starts["own"].row IN
    /\ starts["own"].pc = "answered"
    /\ job' = [pc |-> "waiting", code |-> p]
    /\ starts' = [starts EXCEPT !["own"] = Idle]
    /\ UNCHANGED <<server, screen, token, call, polls>>

\* Too many starts, too many codes, no free code, no connection, or no answer:
\* the TV shows the error, the server may go on.
StartLost ==
    /\ job.pc = "starting"
    /\ job' = [job EXCEPT !.pc = "ended"]
    /\ \/ MayGiveUp /\ starts' = GivenUp(starts)
       \/ starts' = [starts EXCEPT !["own"] = Idle]
    /\ UNCHANGED <<server, screen, token, call, polls>>

\* An old request fails.
OldFails ==
    /\ starts["old"].pc # "idle" \/ polls["old"].pc # "idle"
    /\ \/ starts' = [starts EXCEPT !["old"] = Idle] /\ polls' = polls
       \/ polls' = [polls EXCEPT !["old"] = Idle] /\ starts' = starts
    /\ UNCHANGED <<server, tv, call>>

\* pollPairing reads the latest row of the secret.
Says(s, r, says) == Answered(s, [r EXCEPT !.says = says])

PollReads(s) ==
    /\ polls[s].pc = "asked"
    /\ LET p == Latest
           stays(says) == polls' = [polls EXCEPT ![s] = Says(s, Asked, says)]
       IN IF p = 0 THEN stays("unknown")
          ELSE LET row == pairings[p] IN
               \/ row.status = "pending" /\ ~row.late /\ stays("pending")
               \/ /\ row.status = "pending" /\ row.late
                  /\ polls' = [polls EXCEPT ![s] = [Asked EXCEPT !.pc = "lapsing", !.row = p]]
               \/ row.status = "expired" /\ stays("expired")
               \/ row.status = "approved" /\ row.late /\ stays("expired")
               \/ /\ row.status = "approved"
                  /\ polls' = [polls EXCEPT ![s] = [Asked EXCEPT !.pc = "found", !.device = row.device]]
    /\ UNCHANGED <<server, tv, call, starts>>

\* The row that was read as pending is marked expired, whatever it is by now.
PollLapses(s) ==
    /\ polls[s].pc = "lapsing"
    /\ LET p == polls[s].row IN
       pairings' = IF p \in Rows THEN [pairings EXCEPT ![p].status = "expired"] ELSE pairings
    /\ polls' = [polls EXCEPT ![s] = Says(s, Asked, "expired")]
    /\ UNCHANGED <<devices, minted, approvals, tv, call, starts>>

\* The device is read: a revoked one is denied.
PollFinds(s) ==
    /\ polls[s].pc = "found"
    /\ \/ /\ polls[s].device \in Live
          /\ polls' = [polls EXCEPT ![s].pc = "issuing"]
       \/ /\ polls[s].device \notin Live
          /\ polls' = [polls EXCEPT ![s] = Says(s, Asked, "denied")]
    /\ UNCHANGED <<server, tv, call, starts>>

\* A fresh token replaces the device's, whatever became of the device.
PollIssues(s) ==
    /\ polls[s].pc = "issuing" /\ minted < MaxTokens
    /\ minted' = minted + 1
    /\ devices' = [devices EXCEPT ![polls[s].device] =
                      [@ EXCEPT !.token = minted + 1, !.unheard = (s = "old")]]
    /\ polls' = [polls EXCEPT ![s] = Says(s, [polls[s] EXCEPT !.token = minted + 1], "approved")]
    /\ UNCHANGED <<pairings, approvals, tv, call, starts>>

\* approvePairing: the code that is or was on the screen is looked up, and the devices are counted.
ApproveReads(p) ==
    /\ job.code = p /\ pairings[p].status = "pending" /\ ~pairings[p].late
    /\ Cardinality(Live) < Limit
    /\ approvals[p] < MaxApprovals /\ \A q \in DOMAIN approvals \ {p} : approvals[q] = 0
    /\ approvals' = [approvals EXCEPT ![p] = @ + 1]
    /\ UNCHANGED <<pairings, devices, minted, tv, call, starts, polls>>

\* The row is claimed if it is still pending, a device is made, and both are
\* committed: whoever else wants the row waits for that.
Claims(p) ==
    /\ approvals[p] > 0
    /\ IF pairings[p].status = "pending"
       THEN /\ pairings' = [pairings EXCEPT ![p] = [@ EXCEPT !.status = "approved", !.device = Len(devices) + 1]]
            /\ devices' = Append(devices, NewDevice)
       ELSE UNCHANGED <<pairings, devices>>
    /\ approvals' = [approvals EXCEPT ![p] = @ - 1]
    /\ UNCHANGED <<minted, tv, call, starts, polls>>

\* revokeTvDevice, for the TV that disconnects or from the web page.  Its second
\* statement deletes the pairings of the device.
Revoke(d) ==
    /\ d \in Live
    /\ devices' = [devices EXCEPT ![d] = [@ EXCEPT !.token = 0, !.revoked = TRUE]]
    /\ UNCHANGED <<pairings, minted, approvals, tv, call, starts, polls>>

RevokeClears(d) ==
    /\ devices[d].revoked
    /\ pairings' = Without({p \in Rows : pairings[p].device = d})
    /\ pairings' # pairings
    /\ UNCHANGED <<devices, minted, approvals, tv, call, starts, polls>>

\* requireTvDevice: a call that is accepted ends the approved pairings of the device.
CallServed ==
    /\ call.pc = "asked"
    /\ IF Accepted(call.id)
       THEN /\ call' = NoCall
            /\ pairings' = Without({p \in Rows : pairings[p].status = "approved"
                                                    /\ devices[pairings[p].device].token = call.id})
       ELSE /\ call' = [pc |-> "refused", id |-> 0]
            /\ pairings' = pairings
    /\ UNCHANGED <<devices, minted, approvals, tv, starts, polls>>

\* TV_CODE_TTL_MS have passed.
CodeExpires(p) ==
    /\ ~pairings[p].late
    /\ pairings' = [pairings EXCEPT ![p].late = TRUE]
    /\ UNCHANGED <<devices, minted, approvals, tv, call, starts, polls>>

-----------------------------------------------------------------------------
Init ==
    /\ pairings = <<>> /\ devices = <<>> /\ minted = 0
    /\ screen = "pairing" /\ token = NoToken
    /\ job = [pc |-> "starting", code |-> 0]
    /\ call = NoCall
    /\ starts = [s \in Slots |-> IF s = "own" THEN Asked ELSE Idle]
    /\ polls = [s \in Slots |-> Idle]
    /\ approvals = [p \in 1 .. MaxPairings |-> 0]

StartStep(s) == StartClears(s) \/ StartInserts(s)
PollStep(s) == PollReads(s) \/ PollLapses(s) \/ PollFinds(s) \/ PollIssues(s)
ApproveStep(p) == ApproveReads(p) \/ Claims(p)
RevokeStep(d) == Revoke(d) \/ RevokeClears(d)
Pairs == StartHeard \/ StartLost \/ PollSent \/ PollHeard \/ PollLost \/ CountdownEnds
User == Restarts \/ RetryPairing \/ OpenSettings \/ CloseSettings \/ Forget
Boot == BootAccepted \/ BootRefused
Library == CallSent \/ CallFails \/ CallRefused \/ CallServed

Next ==
    \/ \E s \in Slots : StartStep(s) \/ PollStep(s)
    \/ \E d \in Ids(devices) : RevokeStep(d)
    \/ \E p \in Ids(pairings) : ApproveStep(p) \/ CodeExpires(p)
    \/ User \/ Boot \/ Pairs \/ Library \/ OldFails

Spec == Init /\ [][Next]_pairVars

-----------------------------------------------------------------------------
(* Correctness *)

TypeOK ==
    /\ pairings \in Seq(Pairing)
    /\ devices \in Seq(Device)
    /\ minted \in 0 .. MaxTokens
    /\ screen \in {"loading", "pairing", "library", "settings"}
    /\ token \in [id : 0 .. minted, device : 0 .. Len(devices)]
    /\ job \in Job
    /\ call \in [pc : {"none", "asked", "refused"}, id : 0 .. minted]
    /\ starts \in [Slots -> Request]
    /\ polls \in [Slots -> Request]
    /\ approvals \in [1 .. MaxPairings -> 0 .. MaxApprovals]

\* A code makes one device, though two browsers approve it at once and requests of
\* the TV delete or expire it meanwhile (tvPairing.ts:209-212).
OneDevicePerCode ==
    Len(devices) = Cardinality({p \in Ids(pairings) : pairings[p].device # 0})

\* The token a TV keeps is the one its device has, unless the device was revoked or
\* a poll the TV had given up was served after it (tvPairing.ts:184-191): answers of
\* cancelled jobs, restarts and settings in between do not bring back an older one.
TokenIsCurrent ==
    token.id # 0 =>
        LET d == devices[token.device] IN d.revoked \/ d.unheard \/ d.token = token.id

\* A TV that a poll told to start a new code was not approved: the code it showed
\* has no device, or it expired meanwhile, or the device was revoked, or another
\* start of the same TV made a later row (AppViewModel.kt:242-261).
NotRefusedOnceApproved ==
    job.pc = "refused" =>
        LET p == pairings[job.code] IN
        p.device # 0 => p.late \/ p.device \notin Live \/ Len(pairings) > job.code
=============================================================================

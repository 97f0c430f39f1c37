---------------------------- MODULE MegaSessions ----------------------------
(***************************************************************************)
(* The MEGA session of a worker that has no credentials of its own.  The   *)
(* browser mints it and stores it in the worker's row; the worker reads    *)
(* it, signs in with it, and keeps one client for all its threads.  A      *)
(* session that MEGA refuses is cleared from the row and the dashboard is  *)
(* told to sign in again: two requests, either of which may fail or be     *)
(* applied after the worker has given it up.  Meanwhile the user may store *)
(* another session.                                                        *)
(***************************************************************************)
EXTENDS FiniteSets

CONSTANTS
    MegaLogins, \* logins of the browser to MEGA; each mints a session
    Uploaders,  \* threads of the worker that use the client: an upload, a share link
    NoLogin

ASSUME MegaAssumption == NoLogin \notin MegaLogins

VARIABLES
    issued,     \* sessions that have been minted
    alive,      \* sessions MEGA accepts
    stored,     \* megaSession of the row
    flagged,    \* megaNeedsRelink of the row
    client,     \* _mega_client: the session it is signed in with
    work,       \* what each thread does
    late,       \* requests the worker has given up that may be applied yet
    cut         \* an expiry was cut short, or its clear came late (history)

megaRowVars == <<issued, alive, stored, flagged>>
workerVars == <<client, work, late, cut>>
megaVars == <<issued, alive, stored, flagged, client, work, late, cut>>

MaybeLogin == MegaLogins \cup {NoLogin}
\* session: what it signs in with, or uploads through.  attempt: "only" of a stream that
\* cannot be opened again.
Work == [pc : {"idle", "loading", "login", "using", "clear", "report"}, session : MaybeLogin,
         attempt : {"first", "second", "only"}]
NoWork == [pc |-> "idle", session |-> NoLogin, attempt |-> "only"]

\* What follows on the expiry: the upload is tried again, once.
Expired(t) == IF work[t].attempt = "first" THEN [NoWork EXCEPT !.pc = "loading", !.attempt = "second"] ELSE NoWork

-----------------------------------------------------------------------------
(* Faulty variants: what the code would do with one line less or another.   *)

\* An error that MEGA has not named clears the session and says nothing.
SignInFailsQuietly(t) ==
    /\ work[t].pc = "login"
    /\ stored' = NoLogin /\ client' = NoLogin
    /\ work' = [work EXCEPT ![t] = NoWork]
    /\ UNCHANGED <<issued, alive, flagged, late, cut>>

-----------------------------------------------------------------------------
(* MEGA and the browser                                                     *)

SessionRevoked(s) ==
    /\ s \in alive
    /\ alive' = alive \ {s}
    /\ UNCHANGED <<issued, stored, flagged, workerVars>>

Mints(s) == s \notin issued /\ issued' = issued \cup {s} /\ alive' = alive \cup {s}

\* The dashboard's re-link clears the flag, an edit of the worker leaves it.
RelinkStored(s) ==
    /\ Mints(s)
    /\ stored' = s /\ flagged' = FALSE /\ cut' = FALSE
    /\ UNCHANGED <<client, work, late>>
EditStored(s) ==
    /\ Mints(s)
    /\ stored' = s /\ cut' = FALSE
    /\ UNCHANGED <<flagged, client, work, late>>

-----------------------------------------------------------------------------
(* A thread of the worker                                                   *)

WorkOnly == UNCHANGED <<megaRowVars, client, late, cut>>

\* A stream that can be opened again is uploaded in two attempts, others in one.
Begins(t, attempt) ==
    /\ work[t].pc = "idle"
    /\ work' = [work EXCEPT ![t] = [pc |-> "loading", session |-> NoLogin, attempt |-> attempt]]
    /\ WorkOnly

\* The client there is serves all; without one the session is read from the row.
HasClient(t) ==
    /\ work[t].pc = "loading" /\ client # NoLogin
    /\ work' = [work EXCEPT ![t].pc = "using", ![t].session = client]
    /\ WorkOnly
SessionLoaded(t) ==
    /\ work[t].pc = "loading" /\ client = NoLogin /\ stored # NoLogin
    /\ work' = [work EXCEPT ![t].pc = "login", ![t].session = stored]
    /\ WorkOnly
\* No session, or the backend did not answer.
NothingLoaded(t) ==
    /\ work[t].pc = "loading" /\ client = NoLogin
    /\ work' = [work EXCEPT ![t] = [NoWork EXCEPT !.pc = "report"]]
    /\ WorkOnly

SignedIn(t) ==
    /\ work[t].pc = "login" /\ work[t].session \in alive
    /\ client' = work[t].session
    /\ work' = [work EXCEPT ![t].pc = "using"]
    /\ UNCHANGED <<megaRowVars, late, cut>>

\* get_mega_client raises, inside the upload: whatever the reason, the session is
\* given up, and the upload with it.
SignInFails(t) ==
    /\ work[t].pc = "login"
    /\ client' = NoLogin
    /\ work' = [work EXCEPT ![t].pc = "clear", ![t].attempt = "second"]
    /\ UNCHANGED <<megaRowVars, late, cut>>

UploadEnds(t) ==
    /\ work[t].pc = "using"
    /\ work' = [work EXCEPT ![t] = NoWork]
    /\ WorkOnly
\* Any other error, and every error of the second attempt: the next upload signs in.
UploadBreaks(t) ==
    /\ work[t].pc = "using"
    /\ client' = NoLogin
    /\ work' = [work EXCEPT ![t] = NoWork]
    /\ UNCHANGED <<megaRowVars, late, cut>>
SessionRefused(t) ==
    /\ work[t].pc = "using" /\ work[t].attempt # "second" /\ work[t].session \notin alive
    /\ client' = NoLogin
    /\ work' = [work EXCEPT ![t].pc = "clear"]
    /\ UNCHANGED <<megaRowVars, late, cut>>

\* The backend clears the row, whatever it holds by now.
Cleared(t) ==
    /\ work[t].pc = "clear"
    /\ stored' = NoLogin
    /\ work' = [work EXCEPT ![t].pc = "report"]
    /\ UNCHANGED <<issued, alive, flagged, client, late, cut>>
ClearGivenUp(t) ==
    /\ work[t].pc = "clear"
    /\ late' \in {late, late \cup {"clear"}}
    /\ work' = [work EXCEPT ![t].pc = "report"]
    /\ UNCHANGED <<megaRowVars, client, cut>>

Flagged(t) ==
    /\ work[t].pc = "report"
    /\ flagged' = TRUE
    /\ work' = [work EXCEPT ![t] = Expired(t)]
    /\ UNCHANGED <<issued, alive, stored, client, late, cut>>
ReportGivenUp(t) ==
    /\ work[t].pc = "report"
    /\ late' \in {late, late \cup {"report"}}
    /\ cut' = TRUE
    /\ work' = [work EXCEPT ![t] = Expired(t)]
    /\ UNCHANGED <<megaRowVars, client>>

LateClear ==
    /\ "clear" \in late
    /\ late' = late \ {"clear"} /\ stored' = NoLogin /\ cut' = TRUE
    /\ UNCHANGED <<issued, alive, flagged, client, work>>
LateReport ==
    /\ "report" \in late
    /\ late' = late \ {"report"} /\ flagged' = TRUE
    /\ UNCHANGED <<issued, alive, stored, client, work, cut>>

\* The process ends and is started again.
WorkerRestarts ==
    /\ client' = NoLogin
    /\ work' = [t \in Uploaders |-> NoWork]
    /\ cut' = (cut \/ \E t \in Uploaders : work[t].pc = "report")
    /\ UNCHANGED <<megaRowVars, late>>

-----------------------------------------------------------------------------
\* A worker is created with a session.
MegaInit ==
    /\ \E s \in MegaLogins : issued = {s} /\ stored = s
    /\ alive = issued /\ flagged = FALSE
    /\ client = NoLogin /\ work = [t \in Uploaders |-> NoWork] /\ late = {} /\ cut = FALSE

UploaderStep(t) ==
    \/ (\E attempt \in {"first", "only"} : Begins(t, attempt))
    \/ HasClient(t) \/ SessionLoaded(t) \/ NothingLoaded(t)
    \/ SignedIn(t) \/ SignInFails(t) \/ UploadEnds(t) \/ UploadBreaks(t) \/ SessionRefused(t)
    \/ Cleared(t) \/ ClearGivenUp(t) \/ Flagged(t) \/ ReportGivenUp(t)

MegaNext ==
    \/ \E s \in MegaLogins : SessionRevoked(s) \/ RelinkStored(s) \/ EditStored(s)
    \/ \E t \in Uploaders : UploaderStep(t)
    \/ LateClear \/ LateReport \/ WorkerRestarts
MegaSpec == MegaInit /\ [][MegaNext]_megaVars

-----------------------------------------------------------------------------
MegaTypeOK ==
    /\ issued \in SUBSET MegaLogins /\ alive \in SUBSET issued
    /\ stored \in issued \cup {NoLogin} /\ flagged \in BOOLEAN
    /\ client \in issued \cup {NoLogin} /\ work \in [Uploaders -> Work]
    /\ late \in SUBSET {"clear", "report"} /\ cut \in BOOLEAN

\* A worker whose row holds no session asks to be linked again ("clears it and signals the
\* dashboard", mega.py _expire_session), however the threads, the re-links and the edits
\* overlap, unless the report failed, the worker ended before it or a clear came late.
UnlinkedIsFlagged ==
    stored = NoLogin => flagged \/ cut \/ \E t \in Uploaders : work[t].pc = "report"

\* "Purge any stale session": what a thread clears is the session it was refused with, or
\* nothing.  Violated when the user has signed in again meanwhile: the fresh session goes.
FreshIsKept ==
    [][\A t \in Uploaders : Cleared(t) => stored \in {work[t].session, NoLogin}]_megaVars

\* The flag goes with the session that is linked again ("clearing the needs re-link flag").
\* Violated: a thread that found no session, or was not answered, reports it after.
FlagIsOfStored == flagged => stored \notin alive
=============================================================================

---------------------------- MODULE WorkersPage ----------------------------
(***************************************************************************)
(* The workers page: the panel that shows one worker live, and the dialogs *)
(* that create a worker, edit one and sign in to MEGA for one again.       *)
(*                                                                         *)
(* The panel follows the selection through effects: a status stream of the *)
(* selected worker, and a poll of the worker itself that a change of       *)
(* worker or of its being online abandons.  A login to MEGA takes its time *)
(* in the browser; the two large dialogs stay mounted and outlive their    *)
(* being closed.  A session stands for the account it was made for.        *)
(***************************************************************************)
EXTENDS Naturals

CONSTANTS
    Machines,   \* workers, some of which are yet to be created
    MegaEmails,     \* MEGA accounts
    MaxLinks,   \* bound on the logins of the re-link dialog under way
    Unset      \* no worker, no account

ASSUME PageAssumption == Unset \notin Machines \cup MegaEmails /\ MaxLinks \in Nat

VARIABLES
    selected,   \* selectedId
    status,     \* useWorkerStatus, with (history) the worker whose stream said it
    listed,     \* online, of each row of the page's list
    panel,      \* worker and online, as the polling effect last ran with
    live,       \* the worker whose answer liveData is
    poll,       \* the worker that is being polled
    abandoned,  \* workers whose polls were abandoned and may still answer
    forms,      \* AddWorkerModal and EditWorkerModal
    saves,      \* createWorker and updateWorker
    relink,     \* ReLinkMegaDialog
    links,      \* its logins and requests, by number
    records     \* megaEmail and megaSession of the workers table

panelVars == <<selected, status, listed, panel, live, poll, abandoned>>
dialogVars == <<forms, saves, relink, links>>
machineVars == <<selected, status, listed, panel, live, poll, abandoned, forms, saves, relink, links, records>>

MaybeMachine == Machines \cup {Unset}
MaybeEmail == MegaEmails \cup {Unset}
Dialogs == {"add", "edit"}
Jobs == 1 .. MaxLinks

Status == [of : MaybeMachine, online : BOOLEAN]
NoStatus == [of |-> Unset, online |-> FALSE]
\* login: the address a login under way was started with.
FormState == [open : BOOLEAN, of : MaybeMachine, mega : BOOLEAN, email : MaybeEmail,
              session : MaybeEmail, login : MaybeEmail]
EmptyForm == [open |-> FALSE, of |-> Unset, mega |-> FALSE, email |-> Unset, session |-> Unset, login |-> Unset]
Save == [busy : BOOLEAN, of : MaybeMachine, mega : BOOLEAN, email : MaybeEmail, session : MaybeEmail]
NoSave == [busy |-> FALSE, of |-> Unset, mega |-> FALSE, email |-> Unset, session |-> Unset]
\* busy: loggingIn and submitting, which a reopened dialog forgets.
Relink == [open : BOOLEAN, of : MaybeMachine, email : MaybeEmail, busy : SUBSET {"login", "saving"}]
NoRelink == [open |-> FALSE, of |-> Unset, email |-> Unset, busy |-> {}]
Link == [pc : {"none", "login", "saving"}, of : MaybeMachine, email : MaybeEmail]
NoLink == [pc |-> "none", of |-> Unset, email |-> Unset]
\* edited: an edit has stored an address without a login (history).
Record == [there : BOOLEAN, mega : BOOLEAN, email : MaybeEmail, session : MaybeEmail, edited : BOOLEAN]

-----------------------------------------------------------------------------
(* Faulty variants: what the code would do with one line less.              *)

\* An abandoned poll does not look at its flag.
AbandonedAnswersShown(w) ==
    /\ w \in abandoned
    /\ abandoned' = abandoned \ {w} /\ live' = w
    /\ UNCHANGED <<selected, status, listed, panel, poll, dialogVars, records>>

\* The login leaves the address as it is by now.
LoggedInKeepingEmail(d) ==
    /\ forms[d].login # Unset
    /\ forms' = [forms EXCEPT ![d].session = forms[d].login, ![d].login = Unset]
    /\ UNCHANGED <<panelVars, saves, relink, links, records>>

-----------------------------------------------------------------------------
(* The panel                                                                *)

\* What the panel of worker w takes for online: the stream's last word, else the list's.
Online(w, st, list) == w # Unset /\ IF st = NoStatus THEN list[w] ELSE st.online

\* The polling effect, after a change: it runs again if the worker or its being online
\* is another, forgets what is shown, abandons its poll and starts one.
Rendered(w, st, list) ==
    LET new == [of |-> w, online |-> Online(w, st, list)]
    IN  /\ selected' = w /\ status' = st /\ listed' = list /\ panel' = new
        /\ IF new = panel THEN UNCHANGED <<live, poll, abandoned>>
           ELSE /\ live' = Unset
                /\ poll' = IF new.online THEN w ELSE Unset
                /\ abandoned' = IF poll = Unset THEN abandoned ELSE abandoned \cup {poll}
        /\ UNCHANGED <<dialogVars, records>>

\* The effect that patches the list with the status runs on every change of the selection:
\* the status is still that of the worker before.
Patched(w, st) == IF st = NoStatus THEN listed ELSE [listed EXCEPT ![w] = st.online]

Selects(w) ==
    /\ w # selected /\ records[w].there
    /\ Rendered(w, status, Patched(w, status))
Deselects ==
    /\ selected # Unset
    /\ Rendered(Unset, NoStatus, listed)
StatusArrives(on) ==
    /\ selected # Unset
    /\ LET st == [of |-> selected, online |-> on]
       IN  Rendered(selected, st, Patched(selected, st))

\* The list is synced: the copy in the browser replaces it, patches and all.
ListSynced(w, on) ==
    /\ listed[w] # on
    /\ Rendered(selected, status, [listed EXCEPT ![w] = on])

\* Every 15 s, one poll at a time, and when the page is shown again.
PollAgain ==
    /\ panel.online /\ poll = Unset
    /\ poll' = panel.of
    /\ UNCHANGED <<selected, status, listed, panel, live, abandoned, dialogVars, records>>
PollAnswered ==
    /\ poll # Unset
    /\ live' = poll /\ poll' = Unset
    /\ UNCHANGED <<selected, status, listed, panel, abandoned, dialogVars, records>>
\* An error or ten seconds: what was shown stays.
PollFails ==
    /\ poll # Unset
    /\ poll' = Unset
    /\ UNCHANGED <<selected, status, listed, panel, live, abandoned, dialogVars, records>>
AbandonedAnswers(w) ==
    /\ w \in abandoned
    /\ abandoned' = abandoned \ {w}
    /\ UNCHANGED <<selected, status, listed, panel, live, poll, dialogVars, records>>

-----------------------------------------------------------------------------
(* The dialogs that create and edit                                         *)

FormsOnly == UNCHANGED <<panelVars, saves, relink, links, records>>

AddOpens ==
    /\ ~forms["add"].open /\ ~forms["edit"].open /\ ~relink.open
    /\ forms' = [forms EXCEPT !["add"].open = TRUE]
    /\ FormsOnly
\* The editor starts from the page's copy of the row, whose address may be an older one; a
\* login under way goes on.
EditorOpens(w, e) ==
    /\ ~forms["add"].open /\ ~forms["edit"].open /\ ~relink.open /\ records[w].there
    /\ forms' = [forms EXCEPT !["edit"] =
           [open |-> TRUE, of |-> w, mega |-> records[w].mega, email |-> e,
            session |-> Unset, login |-> forms["edit"].login]]
    /\ FormsOnly
\* Cancel, or a discard that is confirmed: only the first dialog empties its form.
FormCloses(d) ==
    /\ forms[d].open
    /\ forms' = [forms EXCEPT ![d] =
           IF d = "add" THEN [EmptyForm EXCEPT !.login = forms[d].login] ELSE [@ EXCEPT !.open = FALSE, !.of = Unset]]
    /\ FormsOnly

PlaceChanges(d) ==
    /\ forms[d].open
    /\ forms' = [forms EXCEPT ![d].mega = ~@,
                              ![d].session = IF d = "add" /\ forms[d].mega THEN Unset ELSE @]
    /\ FormsOnly
\* The fields are replaced by the account once there is a session.
EmailTyped(d, e) ==
    /\ forms[d].open /\ forms[d].mega /\ forms[d].session = Unset /\ e # forms[d].email
    /\ forms' = [forms EXCEPT ![d].email = e]
    /\ FormsOnly
LoginClicked(d) ==
    /\ forms[d].open /\ forms[d].mega /\ forms[d].session = Unset
    /\ forms[d].email # Unset /\ forms[d].login = Unset
    /\ forms' = [forms EXCEPT ![d].login = forms[d].email]
    /\ FormsOnly

\* The answer lands in the form as it is by now, with the address it was asked for.
LoggedIn(d) ==
    /\ forms[d].login # Unset
    /\ forms' = [forms EXCEPT ![d].email = forms[d].login, ![d].session = forms[d].login, ![d].login = Unset]
    /\ FormsOnly
LoginFails(d) ==
    /\ forms[d].login # Unset
    /\ forms' = [forms EXCEPT ![d].login = Unset]
    /\ FormsOnly
ChangeAccount(d) ==
    /\ forms[d].open /\ forms[d].mega /\ forms[d].session # Unset
    /\ forms' = [forms EXCEPT ![d].session = Unset]
    /\ FormsOnly

\* To create a MEGA worker takes a session; to edit one, the address goes along anyhow.
FormSubmitted(d) ==
    /\ forms[d].open /\ ~saves[d].busy /\ forms[d].login = Unset
    /\ d = "add" => ~forms[d].mega \/ forms[d].session # Unset
    /\ saves' = [saves EXCEPT ![d] =
           [busy |-> TRUE, of |-> forms[d].of, mega |-> forms[d].mega,
            email |-> IF forms[d].mega THEN forms[d].email ELSE Unset,
            session |-> IF forms[d].mega THEN forms[d].session ELSE Unset]]
    /\ UNCHANGED <<panelVars, forms, relink, links, records>>

\* Success closes the dialog, whichever worker it shows by now; the first keeps its fields.
Closed(d) == [forms EXCEPT ![d] = [@ EXCEPT !.open = FALSE, !.of = Unset]]
Created(w) ==
    /\ saves["add"].busy /\ ~records[w].there
    /\ records' = [records EXCEPT ![w] =
           [there |-> TRUE, mega |-> saves["add"].mega, email |-> saves["add"].email, session |-> saves["add"].session, edited |-> FALSE]]
    /\ saves' = [saves EXCEPT !["add"] = NoSave]
    /\ forms' = Closed("add")
    /\ UNCHANGED <<panelVars, relink, links>>
\* A local worker keeps its account; without a login the session stays what it was.
Updated ==
    /\ saves["edit"].busy
    /\ LET s == saves["edit"]
           r == records[s.of]
       IN  records' = [records EXCEPT ![s.of] =
               [r EXCEPT !.mega = s.mega,
                         !.email = IF s.mega THEN s.email ELSE r.email,
                         !.session = IF s.session # Unset THEN s.session ELSE r.session,
                         !.edited = s.session = Unset /\ (r.edited \/ (s.mega /\ s.email # r.email))]]
    /\ saves' = [saves EXCEPT !["edit"] = NoSave]
    /\ forms' = Closed("edit")
    /\ UNCHANGED <<panelVars, relink, links>>
SaveFails(d) ==
    /\ saves[d].busy
    /\ saves' = [saves EXCEPT ![d] = NoSave]
    /\ UNCHANGED <<panelVars, forms, relink, links, records>>

-----------------------------------------------------------------------------
(* The dialog that signs in again                                           *)

RelinkOnly == UNCHANGED <<panelVars, forms, saves, records>>

RelinkOpens ==
    /\ selected # Unset /\ ~relink.open /\ ~forms["add"].open /\ ~forms["edit"].open
    /\ relink' = [open |-> TRUE, of |-> selected, email |-> records[selected].email, busy |-> {}]
    /\ UNCHANGED links /\ RelinkOnly
RelinkCloses ==
    /\ relink.open /\ "saving" \notin relink.busy
    /\ relink' = NoRelink
    /\ UNCHANGED links /\ RelinkOnly
RelinkTyped(e) ==
    /\ relink.open /\ e # relink.email
    /\ relink' = [relink EXCEPT !.email = e]
    /\ UNCHANGED links /\ RelinkOnly
\* The worker and the address are those of the click.
RelinkClicked(j) ==
    /\ relink.open /\ relink.busy = {} /\ relink.email # Unset /\ links[j].pc = "none"
    /\ links' = [links EXCEPT ![j] = [pc |-> "login", of |-> relink.of, email |-> relink.email]]
    /\ relink' = [relink EXCEPT !.busy = {"login"}]
    /\ RelinkOnly
\* The flags are those of the dialog, whichever login it shows by now.
RelinkLoggedIn(j) ==
    /\ links[j].pc = "login"
    /\ links' = [links EXCEPT ![j].pc = "saving"]
    /\ relink' = [relink EXCEPT !.busy = IF relink.open THEN (@ \ {"login"}) \cup {"saving"} ELSE @]
    /\ RelinkOnly
RelinkFails(j) ==
    /\ links[j].pc # "none"
    /\ links' = [links EXCEPT ![j] = NoLink]
    /\ relink' = [relink EXCEPT !.busy = @ \ {links[j].pc}]
    /\ RelinkOnly
\* PATCH mega-session: address and session in one statement; the dialog closes.
Relinked(j) ==
    /\ links[j].pc = "saving"
    /\ records' = [records EXCEPT ![links[j].of] =
           [@ EXCEPT !.email = links[j].email, !.session = links[j].email, !.edited = FALSE]]
    /\ links' = [links EXCEPT ![j] = NoLink]
    /\ relink' = NoRelink
    /\ UNCHANGED <<panelVars, forms, saves>>

-----------------------------------------------------------------------------
MachinesInit(there) ==
    /\ selected = Unset /\ status = NoStatus /\ listed = [w \in Machines |-> FALSE]
    /\ panel = NoStatus /\ live = Unset /\ poll = Unset /\ abandoned = {}
    /\ forms = [d \in Dialogs |-> EmptyForm] /\ saves = [d \in Dialogs |-> NoSave]
    /\ relink = NoRelink /\ links = [j \in Jobs |-> NoLink]
    /\ records = [w \in Machines |-> [there |-> w \in there, mega |-> FALSE, email |-> Unset, session |-> Unset, edited |-> FALSE]]

PanelStep ==
    \/ (\E w \in Machines : Selects(w)) \/ Deselects
    \/ (\E on \in BOOLEAN : StatusArrives(on)) \/ (\E w \in Machines, on \in BOOLEAN : ListSynced(w, on))
    \/ PollAgain \/ PollAnswered \/ PollFails \/ \E w \in Machines : AbandonedAnswers(w)
FormStep(d) ==
    \/ FormCloses(d) \/ PlaceChanges(d) \/ (\E e \in MegaEmails : EmailTyped(d, e))
    \/ LoginClicked(d) \/ LoggedIn(d) \/ LoginFails(d) \/ ChangeAccount(d)
    \/ FormSubmitted(d) \/ SaveFails(d)
DialogStep ==
    \/ AddOpens \/ (\E w \in Machines, e \in MaybeEmail : EditorOpens(w, e)) \/ (\E d \in Dialogs : FormStep(d))
    \/ (\E w \in Machines : Created(w)) \/ Updated
RelinkStep ==
    \/ RelinkOpens \/ RelinkCloses \/ (\E e \in MegaEmails : RelinkTyped(e))
    \/ \E j \in Jobs : RelinkClicked(j) \/ RelinkLoggedIn(j) \/ RelinkFails(j) \/ Relinked(j)
MachinesNext == PanelStep \/ DialogStep \/ RelinkStep
MachinesSpec == (\E there \in SUBSET Machines : MachinesInit(there)) /\ [][MachinesNext]_machineVars

-----------------------------------------------------------------------------
MachinesTypeOK ==
    /\ selected \in MaybeMachine /\ status \in Status /\ listed \in [Machines -> BOOLEAN]
    /\ panel \in Status /\ live \in MaybeMachine /\ poll \in MaybeMachine /\ abandoned \in SUBSET Machines
    /\ forms \in [Dialogs -> FormState] /\ saves \in [Dialogs -> Save]
    /\ relink \in Relink /\ links \in [Jobs -> Link] /\ records \in [Machines -> Record]

\* "Never show the previous worker's live values" (WorkerDetails.tsx:222): what the panel
\* shows of metrics, task and logs is an answer of the worker that is selected, and online,
\* though a poll may answer long after the selection has moved on.
LiveIsOfWorker == live # Unset => live = selected /\ panel.online

\* The address that is stored beside a session is the one the session was made for, though
\* it may be changed while the login is under way, the dialog closed, and opened for another
\* worker; unless the editor has stored an address without a login.
SessionIsOfEmail ==
    \A w \in Machines : records[w].session # Unset =>
        records[w].email = records[w].session \/ records[w].edited

\* "Patch selected worker with live status from SSE" (workers/page.tsx:52).  Violated: until
\* its stream has said something, the worker is shown and patched with the status of the
\* one that was selected before.
StatusIsOfWorker == status # NoStatus => status.of = selected
=============================================================================

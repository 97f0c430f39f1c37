---------------------------- MODULE AddDownload ----------------------------
(***************************************************************************)
(* The download page adds, edits and deletes rows, and the workers page    *)
(* deletes a worker: the dialog with its three forms, the page's handlers  *)
(* and the server actions they call.                                       *)
(*                                                                         *)
(* A form is state of a mounted component: closing the dialog or changing  *)
(* the tab drops it, and what it waited for comes to nothing.  A server    *)
(* action is several SQL statements, each a step; what a worker or a       *)
(* backend does to the row meanwhile is a step as well.  The page's list   *)
(* of workers may lag behind the table: any worker may be offered.         *)
(***************************************************************************)
EXTENDS Naturals

CONSTANTS
    Links,      \* URLs and magnet links; a link also stands for what it points to
    Hosts,      \* workers
    MaxAdds,    \* bound on the downloads that are added
    Nothing

ASSUME AddsAssumption == Nothing \notin Hosts \cup Links /\ MaxAdds \in Nat

VARIABLES
    dialog,     \* isModalOpen and the tab of AddUnifiedModal
    form,       \* the state of the mounted form
    busy,       \* loading, which all dialogs of the page share
    awaiting,   \* the call whose answer the mounted form waits for, 0: none
    adds,       \* createDownload and createTorrentDownload, in the order of the clicks
    entries,    \* the rows they insert
    editor,     \* editingFile, and updateDownload
    hosts,      \* rows of the workers table
    removal     \* deleteWorker of each worker

pageVars == <<dialog, form, busy, awaiting>>
addVars == <<dialog, form, busy, awaiting, adds, entries, editor, hosts, removal>>

AddIds == 1 .. MaxAdds
Tabs == {"http", "hls", "torrent"}
Places == {"cloud", "any"} \cup Hosts

\* asked: the link whose details are being fetched.  info: what the details step
\* shows.  crossed: the link was changed after it was asked about (history).
Form == [step : {"source", "details"}, text : Links \cup {Nothing}, place : Places \cup {Nothing},
         asked : Links \cup {Nothing}, info : Links \cup {Nothing}, parsing : BOOLEAN, crossed : BOOLEAN]
Blank(t) == [step |-> "source", text |-> Nothing, place |-> IF t = "hls" THEN Nothing ELSE "cloud",
             asked |-> Nothing, info |-> Nothing, parsing |-> FALSE, crossed |-> FALSE]

\* waiting: the page has not given the answer up.
Add == [pc : {"none", "sent", "resolved", "inserted", "refused"}, tab : Tabs, link : Links \cup {Nothing},
        info : Links \cup {Nothing}, place : Places \cup {Nothing}, crossed : BOOLEAN, waiting : BOOLEAN,
        worker : Hosts \cup {Nothing}]
NoAdd == [pc |-> "none", tab |-> "http", link |-> Nothing, info |-> Nothing, place |-> Nothing,
          crossed |-> FALSE, waiting |-> FALSE, worker |-> Nothing]

\* assigned: the worker it was given first (history).  overtook: it became active
\* after a deletion of that worker had passed it (history).
Entry == [status : {"none", "pending", "downloading", "uploading", "ended", "gone"},
          link : Links \cup {Nothing}, worker : Hosts \cup {Nothing}, assigned : Hosts \cup {Nothing},
          overtook : BOOLEAN, deleting : BOOLEAN]
NoEntry == [status |-> "none", link |-> Nothing, worker |-> Nothing, assigned |-> Nothing,
            overtook |-> FALSE, deleting |-> FALSE]

Editor == [file : 0 .. MaxAdds, pc : {"none", "sent", "tested", "written", "refused"},
           of : 0 .. MaxAdds, link : Links \cup {Nothing}]

Shown == dialog.open
Source == Shown /\ form.step = "source"
Details == Shown /\ form.step = "details"
Listed(a) == entries[a].status \notin {"none", "gone"}
Tested(w) == w # Nothing /\ removal[w] = "tested"
\* A deletion of its worker has seen the row, or detached it, when it did not count.
Passed(a) == Tested(entries[a].assigned) \/ entries[a].worker # entries[a].assigned

-----------------------------------------------------------------------------
(* Faulty variants: what the code would do with one test less.              *)

\* The text field of the URL stays enabled while the details are fetched.
TypeAnytime(l) ==
    /\ Source
    /\ form' = [form EXCEPT !.text = l]
    /\ UNCHANGED <<dialog, busy, awaiting, adds, entries, editor, hosts, removal>>

\* deleteWorker looks for downloading rows only.
RemovalTestsDownloading(w) ==
    /\ removal[w] = "none" /\ w \in hosts
    /\ ~\E a \in AddIds : entries[a].worker = w /\ entries[a].status = "downloading"
    /\ removal' = [removal EXCEPT ![w] = "tested"]
    /\ UNCHANGED <<pageVars, adds, entries, editor, hosts>>

-----------------------------------------------------------------------------
(* The dialog                                                               *)

OpenDialog ==
    /\ ~Shown /\ editor.file = 0
    /\ dialog' = [dialog EXCEPT !.open = TRUE]
    /\ UNCHANGED <<form, busy, awaiting, adds, entries, editor, hosts, removal>>

\* Escape, the cross or a form's Cancel: the form is gone.
CloseDialog ==
    /\ Shown
    /\ dialog' = [dialog EXCEPT !.open = FALSE]
    /\ form' = Blank(dialog.tab) /\ awaiting' = 0
    /\ UNCHANGED <<busy, adds, entries, editor, hosts, removal>>

PickTab(t) ==
    /\ Shown /\ t # dialog.tab
    /\ dialog' = [dialog EXCEPT !.tab = t]
    /\ form' = Blank(t) /\ awaiting' = 0
    /\ UNCHANGED <<busy, adds, entries, editor, hosts, removal>>

\* Something of the mounted form alone changes.
FormChanges == UNCHANGED <<dialog, busy, awaiting, adds, entries, editor, hosts, removal>>

\* The two URL fields are disabled while the details are fetched, the magnet's is not.
Type(l) ==
    /\ Source /\ form.text # l
    /\ dialog.tab = "torrent" \/ form.asked = Nothing
    /\ form' = [form EXCEPT !.text = l, !.crossed = form.asked # Nothing]
    /\ FormChanges

PickPlace(p) ==
    /\ Source /\ p # form.place
    /\ p \in Hosts \/ dialog.tab # "hls"
    /\ form' = [form EXCEPT !.place = p]
    /\ FormChanges

\* A .torrent file is chosen; parsed, it takes the place of what was typed.
Browse ==
    /\ Source /\ dialog.tab = "torrent" /\ ~form.parsing
    /\ form' = [form EXCEPT !.parsing = TRUE]
    /\ FormChanges
Parsed(l) ==
    /\ Shown /\ form.parsing
    /\ form' = [form EXCEPT !.text = l, !.parsing = FALSE,
                            !.crossed = @ \/ (l # form.text /\ (form.asked # Nothing \/ Details))]
    /\ FormChanges
ParseFails ==
    /\ Shown /\ form.parsing
    /\ form' = [form EXCEPT !.parsing = FALSE]
    /\ FormChanges

\* Enter in a URL field asks the page nothing; the torrent's button does.
AskDetails ==
    /\ Source /\ form.text # Nothing /\ form.asked = Nothing
    /\ dialog.tab = "torrent" => ~form.parsing /\ ~busy
    /\ form' = [form EXCEPT !.asked = form.text]
    /\ FormChanges

\* The worker or the server says what is behind the link that was asked about.
DetailsArrive ==
    /\ Shown /\ form.asked # Nothing
    /\ form' = [form EXCEPT !.info = form.asked, !.asked = Nothing, !.step = "details"]
    /\ FormChanges
DetailsFail ==
    /\ Shown /\ form.asked # Nothing
    /\ form' = [form EXCEPT !.asked = Nothing, !.crossed = FALSE]
    /\ FormChanges

Back ==
    /\ Details /\ ~busy
    /\ form' = [form EXCEPT !.step = "source", !.info = Nothing, !.crossed = FALSE]
    /\ FormChanges

-----------------------------------------------------------------------------
(* A download is added                                                      *)

\* The next call, to be answered by the server.
SendsAdd(a, p) ==
    /\ adds[a].pc = "none" /\ \A b \in 1 .. a - 1 : adds[b].pc # "none"
    /\ adds' = [adds EXCEPT ![a] =
           [pc |-> "sent", tab |-> dialog.tab, link |-> form.text, info |-> form.info, place |-> p,
            crossed |-> form.crossed, waiting |-> TRUE, worker |-> Nothing]]
    /\ busy' = TRUE

\* A stream that was placed nowhere goes to a worker that is listed as online.
Submit(a, p) ==
    /\ Details /\ ~busy
    /\ IF dialog.tab = "hls" /\ form.place = Nothing THEN p \in Hosts ELSE p = form.place
    /\ SendsAdd(a, p)
    /\ IF dialog.tab = "torrent"
       THEN /\ dialog' = [dialog EXCEPT !.open = FALSE]
            /\ form' = Blank("torrent") /\ awaiting' = 0
       ELSE awaiting' = a /\ UNCHANGED <<dialog, form>>
    /\ UNCHANGED <<entries, editor, hosts, removal>>

\* resolveWorkerAssignment, resolveWorkerForTorrent: that a worker exists is tested
\* for files and streams; "any" takes one that is online, or none.
Resolved(a, w) ==
    /\ adds[a].pc = "sent"
    /\ \/ adds[a].place = "any" /\ w \in hosts \cup {Nothing}
       \/ adds[a].place = "cloud" /\ w = Nothing
       \/ adds[a].place = w /\ (adds[a].tab = "torrent" \/ w \in hosts)
    /\ adds' = [adds EXCEPT ![a].pc = "resolved", ![a].worker = w]
    /\ UNCHANGED <<pageVars, entries, editor, hosts, removal>>
WorkerNotFound(a) ==
    /\ adds[a].pc = "sent" /\ adds[a].tab # "torrent" /\ adds[a].place \in Hosts \ hosts
    /\ adds' = [adds EXCEPT ![a].pc = "refused"]
    /\ UNCHANGED <<pageVars, entries, editor, hosts, removal>>

\* The foreign key refuses a worker that is gone.
Inserted(a) ==
    /\ adds[a].pc = "resolved" /\ adds[a].worker \in hosts \cup {Nothing}
    /\ adds' = [adds EXCEPT ![a].pc = "inserted"]
    /\ entries' = [entries EXCEPT ![a] =
           [status |-> "pending", link |-> adds[a].link, worker |-> adds[a].worker, assigned |-> adds[a].worker,
            overtook |-> Tested(adds[a].worker), deleting |-> FALSE]]
    /\ UNCHANGED <<pageVars, editor, hosts, removal>>
InsertRefused(a) ==
    /\ adds[a].pc = "resolved" /\ adds[a].worker \notin hosts \cup {Nothing}
    /\ adds' = [adds EXCEPT ![a].pc = "refused"]
    /\ UNCHANGED <<pageVars, entries, editor, hosts, removal>>

\* Success closes the dialog, whatever it shows by now.
Added(a) ==
    /\ adds[a].waiting /\ adds[a].pc = "inserted"
    /\ adds' = [adds EXCEPT ![a].waiting = FALSE]
    /\ busy' = FALSE /\ awaiting' = 0
    /\ dialog' = [dialog EXCEPT !.open = FALSE] /\ form' = Blank(dialog.tab)
    /\ UNCHANGED <<entries, editor, hosts, removal>>

\* After an error, or an answer that is lost while the server goes on, a form that
\* waited is emptied.
NotAdded(a) ==
    /\ adds[a].waiting
    /\ adds' = [adds EXCEPT ![a].waiting = FALSE]
    /\ busy' = FALSE /\ awaiting' = 0
    /\ form' = IF awaiting = a THEN Blank(dialog.tab) ELSE form
    /\ UNCHANGED <<dialog, entries, editor, hosts, removal>>

-----------------------------------------------------------------------------
(* A row is edited, runs, and is deleted                                    *)

EditOpens(a) ==
    /\ ~Shown /\ editor.file = 0 /\ Listed(a)
    /\ editor' = [editor EXCEPT !.file = a]
    /\ UNCHANGED <<pageVars, adds, entries, hosts, removal>>
EditCloses ==
    /\ editor.file # 0
    /\ editor' = [editor EXCEPT !.file = 0]
    /\ UNCHANGED <<pageVars, adds, entries, hosts, removal>>
EditSaves(l) ==
    /\ editor.file # 0 /\ ~busy
    /\ editor' = [editor EXCEPT !.pc = "sent", !.of = editor.file, !.link = l]
    /\ busy' = TRUE
    /\ UNCHANGED <<dialog, form, awaiting, adds, entries, hosts, removal>>

\* updateDownload reads the row, then writes it.
EditTested ==
    /\ editor.pc = "sent"
    /\ editor' = [editor EXCEPT !.pc = IF entries[editor.of].status = "pending" THEN "tested" ELSE "refused"]
    /\ UNCHANGED <<pageVars, adds, entries, hosts, removal>>
EditWritten ==
    /\ editor.pc = "tested"
    /\ editor' = [editor EXCEPT !.pc = "written"]
    /\ entries' = IF Listed(editor.of) THEN [entries EXCEPT ![editor.of].link = editor.link] ELSE entries
    /\ UNCHANGED <<pageVars, adds, hosts, removal>>

\* Success closes the editor, whichever row it shows by now.
EditAnswered ==
    /\ editor.pc \in {"written", "refused"}
    /\ editor' = [editor EXCEPT !.pc = "none", !.of = 0, !.link = Nothing,
                                !.file = IF editor.pc = "written" THEN 0 ELSE @]
    /\ busy' = FALSE
    /\ UNCHANGED <<dialog, form, awaiting, adds, entries, hosts, removal>>

\* A claim, a report or an end; the report of a row that was given up may come late.
Moves == {<<"pending", "downloading">>, <<"downloading", "pending">>, <<"downloading", "uploading">>,
          <<"pending", "ended">>, <<"downloading", "ended">>, <<"uploading", "ended">>, <<"ended", "downloading">>}
EntryMoves(a, m) ==
    /\ entries[a].status = m[1] /\ entries[a].assigned \in hosts \cup {Nothing}
    /\ entries' = [entries EXCEPT ![a].status = m[2],
                                  ![a].overtook = @ \/ (m[1] = "ended" /\ Passed(a))]
    /\ UNCHANGED <<pageVars, adds, editor, hosts, removal>>

\* deleteDownload, deleteDownloads: the row is read, then deleted.
DeleteTested(a) ==
    /\ Listed(a) /\ entries[a].status # "downloading" /\ ~entries[a].deleting
    /\ entries' = [entries EXCEPT ![a].deleting = TRUE]
    /\ UNCHANGED <<pageVars, adds, editor, hosts, removal>>
EntryDeleted(a) ==
    /\ entries[a].deleting
    /\ entries' = [entries EXCEPT ![a] = [NoEntry EXCEPT !.status = "gone"]]
    /\ UNCHANGED <<pageVars, adds, editor, hosts, removal>>

-----------------------------------------------------------------------------
(* A worker is deleted                                                      *)

RemovalTested(w) ==
    /\ removal[w] = "none" /\ w \in hosts
    /\ ~\E a \in AddIds : entries[a].worker = w /\ entries[a].status \in {"pending", "downloading"}
    /\ removal' = [removal EXCEPT ![w] = "tested"]
    /\ UNCHANGED <<pageVars, adds, entries, editor, hosts>>

\* The rows are detached whatever they do by now.
Detached(w) ==
    /\ removal[w] = "tested"
    /\ removal' = [removal EXCEPT ![w] = "detached"]
    /\ entries' = [a \in AddIds |-> IF entries[a].worker = w THEN [entries[a] EXCEPT !.worker = Nothing] ELSE entries[a]]
    /\ UNCHANGED <<pageVars, adds, editor, hosts>>

\* The foreign key keeps a worker that a row has been given since.
Removed(w) ==
    /\ removal[w] = "detached"
    /\ removal' = [removal EXCEPT ![w] = "none"]
    /\ hosts' = IF \E a \in AddIds : entries[a].worker = w THEN hosts ELSE hosts \ {w}
    /\ UNCHANGED <<pageVars, adds, entries, editor>>

-----------------------------------------------------------------------------
AddsInit ==
    /\ dialog = [open |-> FALSE, tab |-> "http"] /\ form = Blank("http")
    /\ busy = FALSE /\ awaiting = 0
    /\ adds = [a \in AddIds |-> NoAdd] /\ entries = [a \in AddIds |-> NoEntry]
    /\ editor = [file |-> 0, pc |-> "none", of |-> 0, link |-> Nothing]
    /\ hosts = Hosts /\ removal = [w \in Hosts |-> "none"]

PageStep ==
    \/ OpenDialog \/ CloseDialog \/ (\E t \in Tabs : PickTab(t))
    \/ (\E l \in Links : Type(l)) \/ (\E p \in Places : PickPlace(p))
    \/ Browse \/ (\E l \in Links : Parsed(l)) \/ ParseFails
    \/ AskDetails \/ DetailsArrive \/ DetailsFail \/ Back
    \/ \E a \in AddIds : \E p \in Places : Submit(a, p)
AddStep(a) ==
    \/ \E w \in Hosts \cup {Nothing} : Resolved(a, w)
    \/ WorkerNotFound(a) \/ Inserted(a) \/ InsertRefused(a) \/ Added(a) \/ NotAdded(a)
EntryStep(a) ==
    \/ EditOpens(a) \/ DeleteTested(a) \/ EntryDeleted(a)
    \/ \E m \in Moves : EntryMoves(a, m)
EditStep == EditCloses \/ (\E l \in Links : EditSaves(l)) \/ EditTested \/ EditWritten \/ EditAnswered
RemovalStep(w) == RemovalTested(w) \/ Detached(w) \/ Removed(w)

AddsNext ==
    \/ PageStep \/ EditStep
    \/ \E a \in AddIds : AddStep(a) \/ EntryStep(a)
    \/ \E w \in Hosts : RemovalStep(w)
AddsSpec == AddsInit /\ [][AddsNext]_addVars

-----------------------------------------------------------------------------
AddsTypeOK ==
    /\ dialog \in [open : BOOLEAN, tab : Tabs] /\ form \in Form
    /\ busy \in BOOLEAN /\ awaiting \in 0 .. MaxAdds
    /\ adds \in [AddIds -> Add] /\ entries \in [AddIds -> Entry]
    /\ editor \in Editor
    /\ hosts \in SUBSET Hosts /\ removal \in [Hosts -> {"none", "tested", "detached"}]

\* A download is added with the name, size and type of what its own link points to, though
\* fetching them, the tab and the dialog overlap: handleCreate of the two URL forms sends
\* the URL that is in the field with the details that were fetched last.  Only a magnet
\* link may be changed meanwhile.
InfoIsOfSource ==
    \A a \in AddIds : adds[a].pc # "none" =>
        adds[a].info = adds[a].link \/ (adds[a].tab = "torrent" /\ adds[a].crossed)

\* deleteWorker ("Cannot delete a worker with active downloads") leaves every row that waits
\* or downloads its worker, except one that was inserted or reported active again after
\* the test.
ActiveHasWorker ==
    \A a \in AddIds : entries[a].status \in {"pending", "downloading"} =>
        entries[a].worker = entries[a].assigned \/ entries[a].overtook

\* The same of all rows that a worker works on: dispatch/route.ts counts "uploading" among
\* the active ones.  Violated: deleteWorker does not look for it.
WorkingHasWorker ==
    \A a \in AddIds : entries[a].status \in {"pending", "downloading", "uploading"} =>
        entries[a].worker = entries[a].assigned \/ entries[a].overtook

\* "Cannot edit a download that is no longer pending", "Cannot delete a downloading file":
\* both are tested before the row is written.  Violated when it starts in between.
RunningIsLeftAlone ==
    [][\A a \in AddIds : entries[a].status = "downloading" =>
           entries'[a].status # "gone" /\ entries'[a].link = entries[a].link]_addVars
=============================================================================

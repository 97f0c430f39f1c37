-------------------------------- MODULE MCWeb -------------------------------
(* One instance for what people do in the web pages and beside them: how a  *)
(* browser and a television are let in, how downloads are added and workers *)
(* are looked after, how a tab calls workers, and the MEGA session of a     *)
(* worker.  A behaviour is of one of them, the variables of the others stay *)
(* as they start.                                                           *)
EXTENDS MCIdentity, AddDownload, WorkersPage, MegaSessions, TabCalls, Feeds

CONSTANTS l1, l2, h1, m1, m2, a1, a2, s1, s2, t1, t2, w1, w2, c1, c2, f1, f2, v1, v2

PageKinds == {"form", "rows", "panel", "add", "edit", "relink", "session", "calls", "progress", "status"}

-----------------------------------------------------------------------------
\* A call of the dialog on its way to the server.
Call(t, p) == [pc |-> "sent", tab |-> t, link |-> l1, info |-> l1, place |-> p,
               crossed |-> FALSE, waiting |-> TRUE, worker |-> Nothing]
GivenUpCall(t, p) == [Call(t, p) EXCEPT !.waiting = FALSE]
Calls == {Call(t, p) : t \in {"http", "torrent"}, p \in Places} \cup {Call("hls", w) : w \in Hosts}

\* One file is being added from the form, which shows its details.
FormStarts ==
    /\ dialog = [open |-> TRUE, tab |-> "http"]
    /\ form = [Blank("http") EXCEPT !.step = "details", !.text = l1, !.info = l1]
    /\ busy = TRUE /\ awaiting = 1
    /\ adds = [a \in AddIds |-> IF a = 1 THEN Call("http", "cloud") ELSE NoAdd]
\* A torrent whose answer was lost, and another download after it.
RowsStart ==
    /\ dialog = [open |-> FALSE, tab |-> "http"] /\ form = Blank("http")
    /\ busy = TRUE /\ awaiting = 0
    /\ \E w \in Hosts, c \in Calls : adds = [a \in AddIds |-> IF a = 1 THEN GivenUpCall("torrent", w) ELSE c]
NoRows ==
    /\ entries = [a \in AddIds |-> NoEntry]
    /\ editor = [file |-> 0, pc |-> "none", of |-> 0, link |-> Nothing]
    /\ hosts = Hosts /\ removal = [w \in Hosts |-> "none"]

\* The dialogs alone: rows are inserted and edited, and rest.  The rows alone: no dialog opens.
FormOnly ==
    /\ \A a \in AddIds : entries'[a].status \in {"none", "pending"} /\ ~entries'[a].deleting
    /\ UNCHANGED removal
RowsOnly == ~dialog'.open /\ editor'.file = 0

-----------------------------------------------------------------------------
InitWeb ==
    /\ AccountsInit /\ Init
    /\ kind \in {"browser", "tv"} \cup PageKinds
    /\ CASE kind = "form" -> FormStarts /\ NoRows
         [] kind = "rows" -> RowsStart /\ NoRows
         [] OTHER -> AddsInit
    /\ MachinesInit(IF kind = "add" THEN {} ELSE Machines)
    /\ MegaInit /\ stored = s1
    /\ CallsInit /\ FeedsInit

NextWeb ==
    /\ UNCHANGED kind
    /\ \/ /\ kind \in {"browser", "tv"} /\ NextIdentity
          /\ UNCHANGED <<addVars, machineVars, megaVars, tabVars, feedVars>>
       \/ /\ kind \in {"form", "rows"} /\ AddsNext
          /\ kind = "form" => FormOnly
          /\ kind = "rows" => RowsOnly
          /\ UNCHANGED <<pairVars, acctVars, machineVars, megaVars, tabVars, feedVars>>
       \/ /\ kind \in {"panel", "add", "edit", "relink"}
          /\ \/ kind = "panel" /\ PanelStep
             \/ kind \in {"add", "edit"} /\ DialogStep /\ \A d \in Dialogs : d # kind => ~forms'[d].open
             \/ kind = "relink" /\ (RelinkStep \/ \E w \in Machines : Selects(w))
          /\ UNCHANGED <<pairVars, acctVars, addVars, megaVars, tabVars, feedVars>>
       \/ kind = "session" /\ MegaNext /\ UNCHANGED <<pairVars, acctVars, addVars, machineVars, tabVars, feedVars>>
       \/ kind = "calls" /\ CallsNext /\ UNCHANGED <<pairVars, acctVars, addVars, machineVars, megaVars, feedVars>>
       \/ /\ \/ kind = "progress" /\ ProgressStep
             \/ kind = "status" /\ StatusStep
          /\ UNCHANGED <<pairVars, acctVars, addVars, machineVars, megaVars, tabVars>>
=============================================================================

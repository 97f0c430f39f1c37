------------------------------- MODULE MCMedia ------------------------------
(* One instance for the two encoders of a worker: the streaming session of  *)
(* a quality, and the queue of renders.  A behaviour is of one of them, the *)
(* variables of the other stay as they start.                               *)
EXTENDS Playback, Renders

VARIABLE kind

allVars == <<kind, vars, renderVars>>

MediaInit ==
    /\ Init /\ RendersInit
    /\ \/ kind = "session"
       \/ kind = "renders" /\ ~copy /\ broken = {} /\ left = 2
MediaNext ==
    \/ kind = "session" /\ Next /\ UNCHANGED <<kind, renderVars>>
    \/ kind = "renders" /\ RendersNext /\ UNCHANGED <<kind, vars>>

\* The dispatcher owes nothing where no render was asked for.
MediaSpec == MediaInit /\ [][MediaNext]_allVars /\ WF_renderVars(Dispatcher \/ Fails)
=============================================================================

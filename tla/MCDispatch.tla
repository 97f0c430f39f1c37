----------------------------- MODULE MCDispatch -----------------------------
(* Two instances of Dispatch in one: two rows whose reports arrive or are   *)
(* lost, and one row, beside a finished one, with a report that arrives     *)
(* after its sender stopped waiting.                                        *)
EXTENDS Dispatch

CONSTANT w1

OneWorker == {w1}
AllToOne == [d \in Downloads |-> w1]

VARIABLE late

DispatchInit ==
    /\ late \in BOOLEAN
    /\ row = [d \in Downloads |-> IF late /\ d \notin LateRows THEN "completed" ELSE "pending"]
    /\ old = {} /\ online = Workers /\ up = Workers
    /\ run = [d \in Downloads |-> "idle"] /\ stray = {}
    /\ triggers = [d \in Downloads |-> 0] /\ disp = [b \in Dispatchers |-> Idle]
DispatchNext == Next /\ UNCHANGED late /\ (late \/ stray' = {})
DispatchSpec == DispatchInit /\ [][DispatchNext]_<<late, vars>> /\ Fairness
=============================================================================

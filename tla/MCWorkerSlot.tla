---------------------------- MODULE MCWorkerSlot ----------------------------
(* Model-checking instance of WorkerSlot for a worker that uploads to MEGA. *)
(* Thread names are interchangeable.  A behaviour is about two ids whose    *)
(* reports are answered in time, or about one id whose row is also written  *)
(* late: ids share the slot and the threads, rows are not shared.           *)
EXTENDS WorkerSlot, TLC

VARIABLE scope

Scopes == {[ids |-> Downloads, late |-> FALSE]} \cup [ids : {{d} : d \in Downloads}, late : {TRUE}]

ThreadSymmetry == Permutations(Threads)

MegaInit == Init /\ scope \in Scopes
MegaNext ==
    /\ Location = "mega" /\ Next /\ UNCHANGED scope
    /\ \A t \in Threads : thread'[t].id \in scope.ids \cup {None}
    /\ scope.late \/ writes' = {}

MegaSpec == MegaInit /\ [][MegaNext]_<<vars, scope>>
=============================================================================

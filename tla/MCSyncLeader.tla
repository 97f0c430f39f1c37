---------------------------- MODULE MCSyncLeader ----------------------------
(* Model-checking instances of SyncLeader: the circumstances of each run. *)
EXTENDS SyncLeader

EveryOtherWay == {{"fail", "restart"}, {"reset"}}
EveryFallback == {{"throttled", "fail"}, {"quiet", "fail"}}
=============================================================================

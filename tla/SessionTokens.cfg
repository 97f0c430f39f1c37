\* One worker, the dispatcher and one other route that rotate, one thread that registers.
SPECIFICATION
 FairSpec
CONSTANTS
 w1 = w1
 None = None
 Workers = {w1}
 Uses = {"dispatch", "refresh"}
 Handlers = {"start"}
 Tokens = {1, 2, 3, 4, 5}
INVARIANTS
 AgreeUnlessTorn
PROPERTIES
 DispatchGetsThrough
CHECK_DEADLOCK FALSE

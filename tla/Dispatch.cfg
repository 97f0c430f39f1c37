\* Two rows of one worker, or one whose report may be late; the worker crashes and returns.
SPECIFICATION
 DispatchSpec
CONSTANTS
 w1 = w1
 b1 = b1
 Rows = 2
 Workers <- OneWorker
 Assigned <- AllToOne
 Dispatchers = {b1}
 Limit = 2
 MaxTriggers = 1
 LateRows = {1}
PROPERTIES
 PendingStarts
 OrphanIsMarked

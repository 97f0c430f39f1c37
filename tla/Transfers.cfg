SPECIFICATION FairTransfers
CONSTANTS
    p1 = p1
    p2 = p2
    Parts = {p1, p2}
    Chunks <- Uneven
    MaxAttempts = 2
    MaxRestarts = 2
    MaxClicks = 1
    MaxAborts = 1
    MaxRefreshes = 1
    MaxQueued = 2
CHECK_DEADLOCK FALSE
INVARIANTS
    FilesAreWhole
PROPERTIES
    TransfersSettle

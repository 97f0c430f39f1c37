\* Two ids, one of each kind, two threads, payloads uploaded to MEGA; two writes of a row under way.
SPECIFICATION MegaSpec
CONSTANTS
    d1 = d1
    d2 = d2
    t1 = t1
    t2 = t2
    None = None
    Downloads = {d1, d2}
    Threads = {t1, t2}
    Torrents = {d2}
    Location = "mega"
    MaxWrites = 2
SYMMETRY ThreadSymmetry
INVARIANTS
    StagingIsOwn
    SlotHasOwner
PROPERTIES
    ImplementsRuns

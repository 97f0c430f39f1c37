\* Two requests of a browser at a time, two accounts, two workspaces, three sessions; two codes,
\* devices and tokens of one television.
INIT InitIdentity
NEXT NextIdentity
CONSTANTS
    r1 = r1
    r2 = r2
    e1 = e1
    e2 = e2
    Requests = {r1, r2}
    Emails = {e1, e2}
    Nobody = Nobody
    MaxSpaces = 2
    MaxSessions = 3
    MaxApprovals = 2
    Limit = 2
    MaxPairings = 2
    MaxTokens = 2
CHECK_DEADLOCK FALSE
INVARIANTS PermanentStays

\* Two requests of a browser at a time, two accounts, two workspaces, three sessions; two codes,
\* devices and tokens of one television; two adds of two links, one worker to delete; two workers
\* and MEGA accounts in the dialogs, two logins; two MEGA sessions and two threads of a worker;
\* two calls of a tab to two workers; two tabs that follow two downloads or watch two workers.
INIT InitWeb
NEXT NextWeb
CONSTANTS
    r1 = r1
    r2 = r2
    e1 = e1
    e2 = e2
    Requests = {r1, r2}
    Emails = {e1, e2}
    Nobody = Nobody
    MaxSpaces = 2
    MaxSessions = 3
    MaxApprovals = 2
    Limit = 2
    MaxPairings = 2
    MaxTokens = 2
    l1 = l1
    l2 = l2
    h1 = h1
    Links = {l1, l2}
    Hosts = {h1}
    MaxAdds = 2
    Nothing = Nothing
    m1 = m1
    m2 = m2
    a1 = a1
    a2 = a2
    Machines = {m1, m2}
    MegaEmails = {a1, a2}
    MaxLinks = 2
    Unset = Unset
    s1 = s1
    s2 = s2
    t1 = t1
    t2 = t2
    MegaLogins = {s1, s2}
    Uploaders = {t1, t2}
    NoLogin = NoLogin
    w1 = w1
    w2 = w2
    c1 = c1
    c2 = c2
    Called = {w1, w2}
    Callers = {c1, c2}
    Absent = Absent
    f1 = f1
    f2 = f2
    v1 = v1
    v2 = v2
    Followed = {f1, f2}
    Viewers = {v1, v2}
    Watchable = {w1, w2}
    MaxAnswers = 1
    Nil = Nil
CHECK_DEADLOCK FALSE
INVARIANTS
    OneWorkspacePerAccount
    SignedInUnlessCrossed
    TokenIsCurrent
    NotRefusedOnceApproved
    FeedsAreKept
    ActiveHasWorker
    LiveIsOfWorker
    SessionIsOfEmail
    UnlinkedIsFlagged
    OnlyRetriesStray

\* One row, two tabs; reconciliation at the first and then every other sync;
\* browsers with and without a SharedWorker.
SPECIFICATION FairBrowserSpec
CONSTANTS
    Rows = {1}
    Tabs = {t1, t2}
    Gone = gone
    RECONCILE_EVERY = 2
    MaxTime = 2
    MaxVersion = 2
    MaxFetches = 1
    MaxInbox = 2
    Envs <- EveryOtherWay
    FallbackEnvs <- EveryFallback
INVARIANTS
    NothingBehindCursorMissed
PROPERTIES
    Converges
    OneLeaderInTheEnd
CHECK_DEADLOCK FALSE

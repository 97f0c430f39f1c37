\* A file of three stretches, one thing the viewer does and one retry; two cloud items,
\* four runs of their dialog and one stop of the service worker; the jobs of the three
\* backends, claimed by two tabs, under no fault, restarts, all, or all but lost answers.
SPECIFICATION
 PageSpec
CONSTANTS
 Last = 3
 MaxActs = 1
 MaxRetries = 1
 Items = {a, b}
 MaxRuns = 4
 MaxWorkerStops = 1
 Tabs = {t1, t2}
 MaxStarts = 2
 Jobs <- AllJobs
 Envs <- AnyFaults
INVARIANTS
 HeldIsSilent
 PlayedIsRegistered
 NothingLeft
 OneRunIfAnswered
PROPERTIES
 PlaysOn
 StuckOnlyBy
CHECK_DEADLOCK FALSE

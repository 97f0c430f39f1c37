\* One request at a time against pre-roll, prefetch, switch and reaper; renders of two
\* qualities with one delete open at a time.  Files of two segments.
SPECIFICATION
 MediaSpec
CONSTANTS
 Requests = {r1}
 Last = 1
 BatchLength = 2
 Slots = {0, 1, 2}
 MaxAttempts = 2
 BackoffAfter = 1
 Qualities = {q1, q2}
 Deleters = {d1}
 LastRendered = 1
 MaxJobs = 2
INVARIANTS
 SlotsConserved
 PublishedIsWhole
 ReadyIsWhole
PROPERTIES
 NotUnderAReader
 JobEnds

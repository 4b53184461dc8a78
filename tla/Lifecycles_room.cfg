\* Specification, capture, verification and acceptance of a room; jobs of the legacy
\* controller whose service, supervisor, executor or machine dies.
SPECIFICATION MCSpec
CONSTANTS
    MaxRev = 2
    MaxTree = 1
    MaxReq = 4
    MaxCheck = 2
    MaxCrashes = 1
    MaxBlinks = 1
    Gates = 2
    Restore = FALSE
    t0 = t0  t1 = t1
    Contents = {t0, t1}
    Start = t0
    MaxJobs = 2
    MaxEdits = 1
    MaxFaults = 2
    None = None
INVARIANTS AcceptanceChain GatesRanOnCandidate QuietWhenIdle LaunchTruthful
CHECK_DEADLOCK FALSE

SPECIFICATION Spec
CONSTANTS
    s1 = s1
    s2 = s2
    c = c
    nightly = nightly
    reminder = reminder
    Jobs <- BothJobs
    Kind <- BothKinds
    KeepAfterRun <- NoJobKept
    Services = {s1}
    Callers = {c}
    MaxConcurrentRuns = 1
    MaxMissedJobsPerRestart = 1
    MaxRequests = 1
    MaxCrashes = 1
CHECK_DEADLOCK FALSE
INVARIANTS
    TypeOK
    NotTwiceAtOnce
    MarkerHasOwner
    SchedulerArmed
PROPERTIES
    DueIsKept

SPECIFICATION FairSpec
CONSTANTS
    s1 = s1
    s2 = s2
    c = c
    nightly = nightly
    reminder = reminder
    Jobs <- NightlyOnly
    Kind <- NightlyKind
    KeepAfterRun <- NoJobKept
    Services = {s1, s2}
    Callers = {c}
    MaxConcurrentRuns = 1
    MaxMissedJobsPerRestart = 1
    MaxRequests = 1
    MaxCrashes = 0
CHECK_DEADLOCK FALSE
PROPERTIES
    DueIsServed

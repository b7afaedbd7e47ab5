SPECIFICATION Spec
CONSTANTS MaxPolls = 2 Addresses = 3
INVARIANTS TypeOK PlannedExitFreesLock OneCleanServer RequestIsAhead
PROPERTIES RestartIsServed StopEnds
CHECK_DEADLOCK FALSE

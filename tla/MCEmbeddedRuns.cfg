SPECIFICATION RunsSpec
CONSTANTS
  Runs <- MCRuns
  SessionKey <- MCSessionKey
  RequestedLane <- MCRequestedLane
  Lanes <- RunLanes
  Commands <- RunCommands
  LaneOf <- RunLaneOf
  Child <- RunChild
  NoCommand <- NoRun
  SyncParents <- SessionTasks
  RacedTasks <- CronTasks
  MaxLimit = 2
  MaxResets = 1
INVARIANTS OneRunPerSession OuterOutlivesInner SomeoneCanMove
PROPERTIES EveryRunEnds
CHECK_DEADLOCK FALSE

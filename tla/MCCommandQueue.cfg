SPECIFICATION Spec
CONSTANTS
  Lanes = {"main"}
  Commands <- MCCommands
  LaneOf <- MCLaneOf
  Child <- MCChild
  NoCommand = "none"
  SyncParents <- MCSyncParents
  RacedTasks = {"p"}
  MaxLimit = 2
  MaxResets = 1
INVARIANTS TypeOK SlotAccounting Quiescent DrainedIsTrue
CHECK_DEADLOCK FALSE

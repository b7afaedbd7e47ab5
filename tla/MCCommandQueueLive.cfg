SPECIFICATION Spec
CONSTANTS
  Lanes = {"session", "main"}
  Commands <- MCCommands
  LaneOf <- MCLaneOf
  Child <- MCChild
  NoCommand = "none"
  SyncParents <- MCSyncParents
  RacedTasks = {}
  MaxLimit = 2
  MaxResets = 1

PROPERTIES NoneStarves StartsAsPromised KeepsContract
CHECK_DEADLOCK FALSE

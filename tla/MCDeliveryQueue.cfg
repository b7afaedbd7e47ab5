SPECIFICATION Spec
CONSTANTS
  Msgs = {"answer"}
  Recoveries = {"r1", "r2"}
  NPayloads = 2
  MaxRetries = 2
  BestEffort = {}
  OnError = {}
  Notices = {}
  MaxAttempts = 2
  NoEntry = NoEntry
  Torn = Torn
  MaxCrashes = 1
INVARIANTS TypeOK NothingLost
PROPERTIES GoneForGood
CHECK_DEADLOCK FALSE

SPECIFICATION Spec
CONSTANTS
  Msgs = {"reply", "notice"}
  Recoveries = {"r1"}
  NPayloads = 1
  MaxRetries = 1
  BestEffort = {"reply"}
  OnError = {"reply"}
  Notices = {"notice"}
  MaxAttempts = 2
  NoEntry = NoEntry
  Torn = Torn
  MaxCrashes = 0
PROPERTIES QueueDrains
CHECK_DEADLOCK FALSE

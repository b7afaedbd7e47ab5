SPECIFICATION FairSpec
CONSTANTS
  b1 = b1
  b2 = b2
  c1 = c1
  Boots = {b1, b2}
  NoBoot = NoBoot
  Callers = {c1}
  Monitor = Monitor
  HasStopHook = TRUE
  MaxRestartAttempts = 1
INVARIANTS TypeOK OneTaskPerAccount NoEntryLeftBehind LiveIsReachable NoneWaitsInVain
PROPERTIES StoppedStaysDown NothingHangs
CHECK_DEADLOCK FALSE

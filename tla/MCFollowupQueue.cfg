SPECIFICATION FairSpec
CONSTANTS
  q1 = q1
  q2 = q2
  a = a
  b = b
  c = c
  Msgs = {a, b, c}
  Dest <- TwoDests
  Queues = {q1, q2}
  NoQueue = NoQueue
  Cap = 2
  Settings <- Summarizing
  MaxUpsets = 2
INVARIANTS TypeOK NothingVanishes ServedOnce NoneStranded
PROPERTIES QueueEmpties KeepsOrder
CHECK_DEADLOCK FALSE

CONSTANTS
  a = a
  b = b
  c = c
  Timer = {a, b, c}
  Anchor = head
  Nobody = nobody
  Period = 2
  Waits = {0, 1}
  TaskCancels = {a}
  FunctionCancels = {b, c}
  MaxCalls = 2
  MaxQueues = 2
SPECIFICATION FairSpec
INVARIANTS Sorted OnTime
PROPERTIES NoneSkipped NoGhost TickEnds
\* The system comes to rest once its last queue is cancelled.
CHECK_DEADLOCK FALSE

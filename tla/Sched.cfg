CONSTANTS
  t1 = t1
  t2 = t2
  t3 = t3
  idle = idle
  Task <- MCTask
  Idle = idle
  LowestTaskPriority = 1
  HomePriority <- MCHomePriority
  MaxDelay = 2
  MaxNesting = 2
SPECIFICATION Spec
INVARIANTS Consistent RunsHighest NoneOverdue
PROPERTIES NoOvertaking

CONSTANTS
  t1 = t1
  t2 = t2
  t3 = t3
  idle = idle
  Task <- MCTask
  Idle = idle
  LowestTaskPriority = 1
  HomePriority <- MCHomePriority
  AutoQueues <- MCAutoQueues
  Children <- MCChildren
  Policies = {"FIFO", "PRIORITY"}
  Timeouts = {1}
  MaxValue = 1
  MaxQueues = 2
  MaxNesting = 1
  Careful = FALSE
SPECIFICATION Spec
INVARIANTS ReadyIsOffAux

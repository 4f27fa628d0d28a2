CONSTANTS
  t1 = t1
  t2 = t2
  t3 = t3
  idle = idle
  m1 = m1
  m2 = m2
  Task <- MCTask
  Idle = idle
  LowestTaskPriority = 2
  HomePriority <- MCHomePriority
  AutoQueues <- MCAutoQueues
  MutexId = {m1, m2}
  Nobody = nobody
  Attributes <- MCPairs
  NewCeilings = {0}
  Destroyers = {t2}
  MaxNesting = 1
SPECIFICATION Spec
INVARIANTS WaitersAgree HoldersOwn

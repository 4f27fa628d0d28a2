CONSTANTS
  t1 = t1
  t2 = t2
  t3 = t3
  idle = idle
  m1 = m1
  m2 = m2
  Task <- MCTask
  Idle = idle
  LowestTaskPriority = 1
  HomePriority <- MCHomePriority
  AutoQueues <- MCAutoQueues
  Reader = {t1, t2}
  Writer = {t1, t3}
  Message = {m1, m2}
  Capacity = 2
  Ticks = {1}
  MaxElapsed = 2
  MaxCreations = 1
  MaxNesting = 1
SPECIFICATION Spec
INVARIANTS WaitersAgree NoLostWake
PROPERTIES ImplementsChannel

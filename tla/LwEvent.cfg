CONSTANTS
  t1 = t1
  t2 = t2
  t3 = t3
  idle = idle
  b1 = b1
  b2 = b2
  Task <- MCTask
  Idle = idle
  LowestTaskPriority = 1
  HomePriority <- MCHomePriority
  AutoQueues <- MCAutoQueues
  Bit = {b1, b2}
  Wishes <- MCWishes
  SetMask <- MCSetMask
  Timeouts = {1}
  MaxCreations = 1
  MaxNesting = 1
SPECIFICATION Spec
INVARIANTS WaitersAgree NoneMissed
PROPERTIES ImplementsEventGroup

CONSTANTS
  t1 = t1
  t2 = t2
  t3 = t3
  idle = idle
  Task <- MCTask
  Idle = idle
  LowestTaskPriority = 1
  HomePriority <- MCHomePriority
  AutoQueues <- MCAutoQueues
  InitialValues <- MCInitialValues
  MaxValue = 1
  Timeouts = {0, 1}
  Delays = {0}
  MaxCreations = 1
  MaxNesting = 1
SPECIFICATION FairSpec
INVARIANTS WaitersAgree NoIdleToken
PROPERTIES ImplementsSemaphore TimedWaitsEnd WokenReturns

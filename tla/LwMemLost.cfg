CONSTANTS
  t1 = t1
  t2 = t2
  t3 = t3
  Task <- MCTask
  Priority <- MCPriority
  System = system
  PoolSize = 8
  Header = 1
  MinBlock = 2
  Sizes = {1, 2}
  Places = {3, 5}
  MayDo <- MCMayDo
  Hopeless = {t2}
SPECIFICATION PoolSpec
INVARIANTS FreeListExact

\* Two or three threads on a stack, a queue, a value pool or a wait-free queue.
SPECIFICATION MCSpec
CONSTANTS
  t1 = t1  t2 = t2  t3 = t3
  Threads = {t1, t2, t3}
  Setups <- AllSetups
  PoolSetups <- AllPoolSetups
  SpscSetups <- AllSpscSetups
  Values <- TheValues
  Nothing = Nothing
  NULL = NULL
  Producer = t1
  Consumer = t2
  IndexMod = 8
INVARIANTS SafeAccess NodesAccounted SharedOut PromiseKept TreeCounts
PROPERTY ImplementsContainer
CHECK_DEADLOCK FALSE

\* Three threads on a pool of two ids: exhaustion, wrap-around and contention.
SPECIFICATION Spec
CONSTANTS
  Threads = {t1, t2, t3}
  Capacity = 2
SYMMETRY Symmetry
INVARIANTS
  TypeOK
  NoIdLost
  NoIdShared
PROPERTIES
  FailsOnlyWhenExhausted
  FetchesAnId

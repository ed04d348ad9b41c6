\* Every start may fail.  A shutdown after a failed start may be stuck.
SPECIFICATION FairSpec
CONSTANTS
  NumWorkers = 3
  MayFail = TRUE
INVARIANTS SearchesLiveQueues ReleasedTogether
PROPERTIES InitializeDecides FinalizeReturns
CHECK_DEADLOCK FALSE

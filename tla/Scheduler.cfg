SPECIFICATION FairSpec
CONSTANTS
  n1 = n1
  n2 = n2
  Invocations = {n1, n2}
  MaxTime = 3
  MaxTimeout = 1
  RetryLimit = 1
  MaxFailures = 2
  MaxRestarts = 1
  StorageIsSorted = TRUE
INVARIANTS
  NotLate
  OneAtATime
  TriedBeforeForgotten
PROPERTIES
  DeferredSpec
  PendingIsExecuted
CHECK_DEADLOCK FALSE

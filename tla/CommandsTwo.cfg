SPECIFICATION Spec
CONSTANTS
  c1 = c1
  c2 = c2
  None = None
  Commands = {c1, c2}
  Version <- SameVersion
  InitialLogs <- NewOrUsed
  Releases = {0, 1}
  MaxBatch = 2
  EventCount = 1
  Duration = FALSE
  BigintSurvives = TRUE
  NotFoundHandlers = FALSE
SYMMETRY Symmetric
PROPERTY AtomicSpec
INVARIANTS
  SnapshotIsFold
  DecidedOnCurrentState
  RefusedLeavesNothing
  SuccessIsComplete
  DeletionErasesNothingNew
CHECK_DEADLOCK FALSE

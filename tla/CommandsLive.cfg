SPECIFICATION FairSpec
CONSTANTS
  c1 = c1
  c2 = c2
  None = None
  Commands = {c1, c2}
  Version <- OneUpgraded
  InitialLogs <- Used
  Releases = {0}
  MaxBatch = 1
  EventCount = 2
  Duration = FALSE
  BigintSurvives = TRUE
  NotFoundHandlers = TRUE
PROPERTY StartedCallEnds
CHECK_DEADLOCK FALSE

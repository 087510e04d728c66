SPECIFICATION Spec
CONSTANTS
  i1 = i1
  i2 = i2
  None = None
  Inits = {i1}
  MaxEvents = 3
  MaxRestarts = 1
  Erasable = {}
  PositionSurvives = TRUE
INVARIANTS
  LiveMeansReplayed
CHECK_DEADLOCK FALSE

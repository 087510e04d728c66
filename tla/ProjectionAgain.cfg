SPECIFICATION FairSpec
CONSTANTS
  i1 = i1
  i2 = i2
  None = None
  Inits = {i1, i2}
  MaxEvents = 2
  MaxRestarts = 0
  Erasable = {}
  PositionSurvives = TRUE
PROPERTIES
  EventuallyProjected
CHECK_DEADLOCK FALSE

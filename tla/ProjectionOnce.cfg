SPECIFICATION FairSpec
CONSTANTS
  i1 = i1
  i2 = i2
  None = None
  Inits = {i1}
  MaxEvents = 3
  MaxRestarts = 2
  Erasable = {0, 1, 2}
  PositionSurvives = TRUE
INVARIANTS
  EffectsAtMostOnce
  NothingSkipped
  RepeatsOnePerRestart
PROPERTIES
  ReplayHasNoEffects
  EventuallyProjected
  ReplayEnds
CHECK_DEADLOCK FALSE

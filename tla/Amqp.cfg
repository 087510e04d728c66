SPECIFICATION FairSpec
CONSTANTS
  p1 = p1
  p2 = p2
  c1 = c1
  Processes = {p1, p2}
  Commands = {c1}
  MaxStarts = 2
  MaxFaults = 1
CONSTRAINT TroubledPublishesOnce
INVARIANTS
  OnceUnlessFault
  CalmServesOnce
PROPERTIES
  DeferredSpec
  DueIsExecuted
CHECK_DEADLOCK FALSE

SPECIFICATION FairSpec
CONSTANTS
  e1 = e1
  e2 = e2
  g1 = g1
  g2 = g2
  Effects = {e1}
  Groups = {g1, g2}
  MaxTries = 2
  PublishFails = TRUE
  MaxCrashes = 1
INVARIANTS
  NothingForgotten
  ResolvedOnce
  ReportedAfterAllTries
PROPERTIES
  EventuallyResolved
CHECK_DEADLOCK FALSE

SPECIFICATION RowSpec
CONSTANTS
  f1 = f1
  f2 = f2
  Fields = {f1, f2}
  MaxLength = 3
  MaxCrashes = 2
INVARIANTS
  RerunConverges
  SomeOrder
CHECK_DEADLOCK FALSE

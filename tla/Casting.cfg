SPECIFICATION Spec
CONSTANTS
  Keys <- KeyOrder
  Versions = {1, 2, 3}
  Histories <- AllHistories
  MaxSize = 2
  MaxItems = 1
INVARIANTS
  UpcastIsValid
  RoundTrip
PROPERTIES
  StepsAsSpecified
CHECK_DEADLOCK FALSE

SPECIFICATION Spec
CONSTANTS
  v1 = v1
  v2 = v2
  a1 = a1
  a2 = a2
  None = None
  Callers = {a1}
  Versions = {v1, v2}
  MaxInstances = 3
  MaxCalls = 4
  MaxRestarts = 1
INVARIANTS
  StartsAgain
  ActiveIsThere
  QueriesSeeActive
PROPERTIES
  AcknowledgedIsDurable
CHECK_DEADLOCK FALSE

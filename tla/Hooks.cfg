SPECIFICATION Spec
CONSTANTS
  None = None
  PluginCount = 2
INVARIANTS
  ObjectionHolds
  HandlerSeesValidInput
  QuietPluginsChangeNothing
  FailuresAreNotSwallowed
CHECK_DEADLOCK FALSE

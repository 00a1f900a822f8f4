SPECIFICATION Spec
CONSTANTS
  child = child
  q = q
  Learned = {q}
  OwnPrefix = OwnPrefix
  Paths <- MCPaths
  NoRoute = NoRoute
  Listeners = {child}
  Children = {child}
  MaxBackoff = 2
  MaxEpoch = 2
  MaxFaults = 1
  MaxUnderway = 2
INVARIANTS NoWithdrawnRoutes
CHECK_DEADLOCK FALSE

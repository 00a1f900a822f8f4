SPECIFICATION FairSpec
CONSTANTS
  child = child
  q = q
  Learned = {q}
  OwnPrefix = OwnPrefix
  Paths <- MCPaths
  NoRoute = NoRoute
  Listeners = {child}
  Children = {child}
  MaxBackoff = 2
  MaxEpoch = 2
  MaxFaults = 1
  MaxUnderway = 2
INVARIANTS TypeOK NoMissingRoutes NoWithdrawnRoutesInOneTable
PROPERTIES EventuallyInSync
CHECK_DEADLOCK FALSE

SPECIFICATION Spec
CONSTANTS
  r1 = r1
  r2 = r2
  r3 = r3
  k1 = k1
  k2 = k2
  NoKey = NoKey
  None = None
  Requests = {r1, r2, r3}
  Keys = {k1, k2}
  Amounts = {3}
  Scales = {0, 2, 3}
  asset_scale = 1
  Base = 2
  FinestScale = 3
  TextHashes <- MCTextHashes
  MaxFaults = 1
  MaxDrops = 1
SYMMETRY Symmetry
INVARIANTS TypeOK SettledInFull AcknowledgedIsCredited RetryCostsAtMostTheLoss
CHECK_DEADLOCK FALSE

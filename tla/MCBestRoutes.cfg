SPECIFICATION Spec
CONSTANTS
  peer1 = peer1
  peer2 = peer2
  pA = pA
  pAB = pAB
  pX = pX
  pY = pY
  t1 = t1
  t2 = t2
  Accounts = {peer1, peer2}
  relation <- MCRelation
  id_order <- MCIdOrder
  address <- MCAddress
  Destinations = {pA, pAB, pX, pY}
  Above <- MCAbove
  length <- MCLength
  Offered = {pA, pAB}
  StaticRoutes <- MCStaticRoutes
  Lengths <- MCLengths
  Advertisable = {pA, pAB, pX}
  operator = operator
  poller = poller
  Tasks = {t1, t2}
  Callers = {t1, t2, operator, poller}
  None = None
  MaxUpdates = 2
  MaxDisturbances = 1
SYMMETRY Symmetry
INVARIANTS TypeOK ForwardsAsRouted AnnouncedIsRouted BestInUse RouterHasTable
CHECK_DEADLOCK FALSE

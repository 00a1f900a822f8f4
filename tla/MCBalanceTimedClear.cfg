SPECIFICATION FairSpec
CONSTANTS
  alice = alice
  bob = bob
  p1 = p1
  p2 = p2
  p3 = p3
  s1 = s1
  k1 = k1
  q1 = q1
  q2 = q2
  None = None
  Accounts = {alice, bob}
  QueueKeys = {q1, q2}
  ChannelCapacity = 3
  Packets = {p1, p2, p3}
  Slots = {s1}
  IncomingKeys = {}
  Amounts = {2}
  min_balance <- MCNoLimit
  settle_threshold <- MCClearThreshold
  settle_to <- MCClearSettleTo
  has_engine <- MCBobsEngine
  Edited = {}
  TimeBased = TRUE
  MaxRetries = 0
  MaxStoreFaults = 0
  MaxTimeouts = 0
  MaxDrops = 0
  MaxCrashes = 0
PROPERTIES PeersAreSettled
CHECK_DEADLOCK FALSE

SPECIFICATION Spec
CONSTANTS
  alice = alice
  bob = bob
  p1 = p1
  p2 = p2
  p3 = p3
  s1 = s1
  k1 = k1
  q1 = q1
  q2 = q2
  None = None
  Accounts = {alice, bob}
  QueueKeys = {q1, q2}
  ChannelCapacity = 1
  Packets = {p1, p2}
  Slots = {s1}
  IncomingKeys = {}
  Amounts = {0, 2}
  min_balance <- MCMinBalance
  settle_threshold <- MCThreshold
  settle_to <- MCSettleTo
  has_engine <- MCEngine
  Edited = {}
  TimeBased = FALSE
  MaxRetries = 1
  MaxStoreFaults = 0
  MaxTimeouts = 1
  MaxDrops = 0
  MaxCrashes = 0
INVARIANTS SettlesOnce
CHECK_DEADLOCK FALSE

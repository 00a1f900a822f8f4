SPECIFICATION Spec
CONSTANTS
  A = A
  B = B
  r1 = r1
  r2 = r2
  r3 = r3
  Nodes = {A, B}
  Requests = {r1, r2, r3}
  Origin <- MCOrigin
  Draws <- MCDraws
  Relayed = {r1, r2}
  RequestIds = {1, 2}
  Conns = {1}
  None = None
  RacingTimeouts = FALSE
  MaxDisruptions = 0
PROPERTIES ResponsesAreSent
CHECK_DEADLOCK FALSE

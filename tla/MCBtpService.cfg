SPECIFICATION Spec
CONSTANTS
  A = A
  B = B
  r1 = r1
  r2 = r2
  r3 = r3
  Nodes = {A, B}
  Requests = {r1, r2, r3}
  Origin <- MCOrigin
  Draws <- MCDraws
  Relayed = {r1, r2}
  RequestIds = {1, 2}
  Conns = {1, 2}
  None = None
  RacingTimeouts = TRUE
  MaxDisruptions = 1
INVARIANTS TypeOK  AnswersAreOwn
CHECK_DEADLOCK FALSE

SPECIFICATION FairSpec
CONSTANTS
  a = a
  b = b
  c = c
  r = r
  s = s
  None = None
  APs = {a, b, c}
  Requests = {r, s}
  Plans <- MCPlans
  Refusals <- MCRefusals
  MaxConRetries = 1
  MaxReads = 2
  MaxLoss = 1
INVARIANTS
  TypeOK
  AbortMeansMutual
PROPERTIES
  ImplementsSession
  RequestsServed
CHECK_DEADLOCK FALSE

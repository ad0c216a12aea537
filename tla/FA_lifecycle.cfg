SPECIFICATION Spec
CONSTANTS
  f1 = f1
  f2 = f2
  f3 = f3
  f4 = f4
  n1 = n1
  n2 = n2
  q1 = q1
  q2 = q2
  Flows = {f1, f2, f3}
  Neighbors = {n1, n2}
  QoSIds = {q1}
  NeighborOf <- OwnNeighbor
  QoSOf <- OneQoS
  Unfit <- ThirdUnfitAtI
  Malformed = {}
  Answers = {"accept", "refuse", "silent"}
  Nm1Init <- Fresh
  Nm1Outcomes = {"established", "refused"}
  EnrolledAtStart = FALSE
  Closers = {"I", "R"}
  MaxCloses = 1
  MaxLoss = 1
  AllocateRetry = "LimitedRetries"
  MaxCreateFlowRetries = 1
  HasRelay = FALSE
  MaxHopCount = 16
INVARIANTS
  TypeOK
  NoAbort
  OneAnswer
PROPERTIES
  ImplementsLifecycle
CHECK_DEADLOCK FALSE

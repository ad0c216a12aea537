SPECIFICATION FairSpec
CONSTANTS
  f1 = f1
  f2 = f2
  f3 = f3
  f4 = f4
  n1 = n1
  n2 = n2
  q1 = q1
  q2 = q2
  Flows = {f1, f2, f3, f4}
  Neighbors = {n1}
  QoSIds = {q1}
  NeighborOf <- OneNeighbor
  QoSOf <- OneQoS
  Unfit <- SecondUnfitAtR
  Malformed = {f4}
  Answers = {"accept", "refuse"}
  Nm1Init <- Fresh
  Nm1Outcomes = {"established"}
  EnrolledAtStart = FALSE
  Closers = {"I", "R"}
  MaxCloses = 1
  MaxLoss = 0
  AllocateRetry = "NoRetry"
  MaxCreateFlowRetries = 1
  HasRelay = TRUE
  MaxHopCount = 16
INVARIANTS
  QuietEndsAgree
PROPERTIES
  EveryRequestAnswered
  EventuallyReleased
CHECK_DEADLOCK FALSE

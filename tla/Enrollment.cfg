SPECIFICATION FairSpec
CONSTANTS
  a = a
  b = b
  c = c
  IPCPs = {a, b, c}
  Credentials <- Cases
  Asked <- Mutual
  FirstMembers = {a}
  Configured <- Known
  MaxConRetries = 1
  MaxAsk = 2
  MaxLoss = 1
INVARIANTS
  TypeOK
  QuietMeansSettled
  PostponedOnlyAtResponder
PROPERTIES
  ImplementsAdmission
  EnrollmentEnds
CHECK_DEADLOCK FALSE

SPECIFICATION FairSpec
CONSTANTS
  RxPresent = TRUE
  WinBased = TRUE
  ATime = TRUE
  MaxAllowGap = 0
  SndCredit = 1
  RcvCredit = 2
  MaxClosedWinQueLen = 1
  DataReXmitMax = 0
  UIntMax = 99
  Writers = {1}
  HonourBlock = TRUE
  DRFPduSafe = TRUE
  MaxWrite = 4
  MaxSdu = 4
  MaxEmpty = 1
  MaxLoss = 2
  MaxIdle = 0
INVARIANTS
  InOrderDelivery
  DropsOnlyDuplicates
PROPERTIES
  ImplementsReliableFlow
  EventuallyResolved
CHECK_DEADLOCK FALSE

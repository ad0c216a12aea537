SPECIFICATION Spec
CONSTANTS
  RxPresent = TRUE
  WinBased = TRUE
  ATime = FALSE
  MaxAllowGap = 0
  SndCredit = 2
  RcvCredit = 2
  MaxClosedWinQueLen = 1
  DataReXmitMax = 0
  UIntMax = 99
  Writers = {1}
  HonourBlock = TRUE
  DRFPduSafe = FALSE
  MaxWrite = 3
  MaxSdu = 3
  MaxEmpty = 0
  MaxLoss = 1
  MaxIdle = 0
INVARIANTS
  InOrderDelivery
CHECK_DEADLOCK FALSE

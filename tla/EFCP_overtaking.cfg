SPECIFICATION Spec
CONSTANTS
  RxPresent = FALSE
  WinBased = TRUE
  ATime = FALSE
  MaxAllowGap = 1
  SndCredit = 1
  RcvCredit = 2
  MaxClosedWinQueLen = 2
  DataReXmitMax = 0
  UIntMax = 99
  Writers = {1, 2}
  HonourBlock = TRUE
  DRFPduSafe = FALSE
  MaxWrite = 3
  MaxSdu = 4
  MaxEmpty = 1
  MaxLoss = 1
  MaxIdle = 0
INVARIANTS
  NoOvertaking
  GapRespected
CHECK_DEADLOCK FALSE

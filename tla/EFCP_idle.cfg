SPECIFICATION Spec
CONSTANTS
  RxPresent = TRUE
  WinBased = TRUE
  ATime = FALSE
  MaxAllowGap = 0
  SndCredit = 2
  RcvCredit = 2
  MaxClosedWinQueLen = 1
  DataReXmitMax = 0
  UIntMax = 99
  Writers = {1}
  HonourBlock = TRUE
  DRFPduSafe = TRUE
  MaxWrite = 4
  MaxSdu = 4
  MaxEmpty = 0
  MaxLoss = 1
  MaxIdle = 3
INVARIANTS
  NoSilentLoss
  TypeOK
  PortBlockedIffQueueFull
  ReassemblyBound
CHECK_DEADLOCK FALSE

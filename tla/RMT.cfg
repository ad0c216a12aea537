SPECIFICATION Spec
CONSTANTS
  west = west
  east = east
  through = through
  out = out
  in = in
  local = local
  both = both
  a = a
  b = b
  Ports = {west, east}
  Interface = east
  QueueIds <- Order
  Flows = {through, out, in, local, both}
  Source <- From
  Route <- To
  QueueId <- Queue
  Urgency <- Urgent
  Cherish <- Cherished
  Policies <- Cases
  MaxLength = 3
  ThreshLength = 2
  StopAt = 2
  RestartAt = 1
  Sends <- Amounts
  MaxSignals = 1
INVARIANTS
  TypeOK
  CountersAgree
  BlockedInputMeansBacklog
  ChannelIdle
  NoWakeUpLost
PROPERTIES
  BlockedPortSilent
  ImplementsRelaying
CHECK_DEADLOCK FALSE

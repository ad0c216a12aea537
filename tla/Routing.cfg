SPECIFICATION FairSpec
CONSTANTS
  Nodes = {1, 2, 3, 4}
  Links = {1, 2, 3, 4, 5}
  Ends <- Between
  InfMetric = 4
  Cases <- Instances
INVARIANTS
  TypeOK
  DVForwardsItsRoutes
  NoLoopWhileGrowing
  ConvergesWhileGrowing
  LSForwardsOnShortest
  FloodReaches
PROPERTIES
  Settles
CHECK_DEADLOCK FALSE

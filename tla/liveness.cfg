CONSTANTS
  Jobs = {1}
  Workers = {w1, w2}
  NumBatches <- MCNumBatches
  Nil = Nil
  Modes = {"global"}
  MaxCalls = 1
  MaxFaults <- AllLosses
  MaxFaultsInAll = 1
  CallbacksInOrder = TRUE
SPECIFICATION FairSpec
CHECK_DEADLOCK FALSE
PROPERTY NoBatchStranded
PROPERTY JobsDelivered

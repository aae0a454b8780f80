CONSTANTS
  Jobs = {1, 2}
  Workers = {w1}
  NumBatches <- OneBatch
  Nil = Nil
  Modes = {"global"}
  MaxCalls = 2
  MaxFaults <- NoFaults
  MaxFaultsInAll = 4
  CallbacksInOrder = FALSE
SPECIFICATION FairSpec
CHECK_DEADLOCK FALSE
PROPERTY MisassignmentRepaired

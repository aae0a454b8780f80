CONSTANTS
  Jobs = {1, 2}
  Workers = {w1}
  NumBatches <- MCNumBatches
  Nil = Nil
  Modes = {"global"}
  MaxCalls = 2
  MaxFaults <- NoFaults
  MaxFaultsInAll = 4
  CallbacksInOrder = FALSE
SPECIFICATION Spec
CHECK_DEADLOCK FALSE
INVARIANT NoPanic

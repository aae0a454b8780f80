CONSTANTS
  Jobs = {1}
  Workers = {w1, w2}
  NumBatches <- MCNumBatches
  Nil = Nil
  Modes = {"global"}
  MaxCalls = 1
  MaxFaults <- AnyWorkerFault
  MaxFaultsInAll = 2
  CallbacksInOrder = FALSE
SPECIFICATION Spec
CHECK_DEADLOCK FALSE
SYMMETRY WorkerSymmetry
INVARIANT TypeOK
INVARIANT ExclusiveHolder
INVARIANT AssignedWorkerServes

CONSTANTS
  Jobs = {1, 2}
  Workers = {w1}
  NumBatches <- MCNumBatches
  Nil = Nil
  Modes = {"global", "local"}
  MaxCalls = 1
  MaxFaults <- JobFaults
  MaxFaultsInAll = 2
  CallbacksInOrder = FALSE
SPECIFICATION Spec
CHECK_DEADLOCK FALSE
INVARIANT OutputProvenance
INVARIANT ResultsComplete
INVARIANT FlushedOnce
PROPERTY ImplementsService

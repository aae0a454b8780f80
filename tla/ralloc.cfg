CONSTANTS
  MaxJobs = 3
  MaxWorkers = 3
  MaxRate = 4
SPECIFICATION Spec
CHECK_DEADLOCK FALSE
INVARIANT UsesEveryWorker
INVARIANT WastesHalfAWorkerPerJob
INVARIANT FairForTwo

------------------------------ MODULE MCCluster ------------------------------
(* Instances of Cluster for TLC.  Job 1 has two batches, job 2 has one. *)
EXTENDS Cluster, TLC

OneBatch == [j \in Jobs |-> 1]
MCNumBatches == [j \in Jobs |-> IF j = 1 THEN 2 ELSE 1]

Once(K) == [k \in FaultKinds |-> IF k \in K THEN 1 ELSE 0]
NoFaults == Once({})
AnyWorkerFault == Once({"crash", "suspect", "deadline", "evaluate", "call"})
AllLosses == Once({"crash", "deadline", "evaluate", "call"})
JobFaults == Once({"deadline", "evaluate", "suspect", "leave", "flush", "load"})

WorkerSymmetry == Permutations(Workers)
=============================================================================

-------------------------------- MODULE Params --------------------------------
(***************************************************************************)
(* What the coordinator's and the workers' modules share.                  *)
(*                                                                         *)
(* A job is a natural number: the rank of its id in the sorted order that  *)
(* RefreshSchedule relies on.  A batch input or output is a record of the  *)
(* job it was cut from and its BatchId.  The code compares only BatchIds;  *)
(* the job is kept here to say what an output was computed from.           *)
(***************************************************************************)
EXTENDS Naturals

CONSTANTS
  Jobs,        \* ids of the jobs that may be submitted
  Workers,     \* addresses of the cluster's processes
  NumBatches,  \* NumBatches[j]: len(job.BatchStates), which is job.TotalQueries
  Nil          \* the nil pointer and the empty string

ASSUME JobsAssumption == Jobs \subseteq Nat
ASSUME NumBatchesAssumption == NumBatches \in [Jobs -> Nat \ {0}]
ASSUME NilAssumption == Nil \notin Jobs /\ Nil \notin [job : Jobs, id : Nat]

Batch == [job : Jobs, id : Nat]

(* A dataset is never empty, so neither is the list of its batches. *)
BatchesOf(j) == 0 .. NumBatches[j] - 1

(* out is the output of a batch of job j. *)
Genuine(j, out) == out \in Batch /\ out.job = j /\ out.id \in BatchesOf(j)
=============================================================================

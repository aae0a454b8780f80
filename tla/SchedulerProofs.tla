--------------------------- MODULE SchedulerProofs ---------------------------
(***************************************************************************)
(* What each method of the scheduler preserves, whoever calls it.          *)
(***************************************************************************)
EXTENDS Scheduler, FiniteSetTheorems, SequenceTheorems, WellFoundedInduction, TLAPS

-----------------------------------------------------------------------------
(* Facts about the operators *)

(* A non-empty set of natural numbers has a least element. *)
LEMMA LeastElement ==
  ASSUME NEW S \in SUBSET Nat, S # {}
  PROVE  \E x \in S : \A y \in S : x <= y
<1>1. \E x \in S : \A y \in S : ~(<<y, x>> \in OpToRel(<, Nat))
  BY NatLessThanWellFounded, WFMin
<1>2. \A x, y \in Nat : y < x => <<y, x>> \in OpToRel(<, Nat)
  BY DEF OpToRel
<1>3. PICK x \in S : \A y \in S : ~(<<y, x>> \in OpToRel(<, Nat))
  BY <1>1
<1>4. \A y \in S : ~(y < x)
  BY <1>2, <1>3
<1>. QED  BY <1>4

(* BatchesOf is a finite, non-empty interval of natural numbers. *)
LEMMA BatchesOfType ==
  ASSUME NEW j \in Jobs
  PROVE  /\ BatchesOf(j) \subseteq Nat
         /\ 0 \in BatchesOf(j)
         /\ IsFiniteSet(BatchesOf(j))
         /\ Cardinality(BatchesOf(j)) = NumBatches[j]
<1>1. NumBatches[j] \in Nat /\ NumBatches[j] > 0
  BY NumBatchesAssumption
<1> DEFINE n == NumBatches[j] - 1
<1>2. n \in Int /\ 0 \in Int /\ n >= 0 /\ n + 1 = NumBatches[j]
  BY <1>1
<1> HIDE DEF n
<1>3. IsFiniteSet(0 .. n) /\ Cardinality(0 .. n) = n - 0 + 1
  BY <1>2, FS_Interval
<1>. QED  BY <1>1, <1>2, <1>3 DEF BatchesOf, n

(* FetchBatchInput returns nil or an available batch of the job. *)
LEMMA FetchBatchInputType ==
  ASSUME NEW j \in Jobs, NEW stat, FetchBatchInput(j, stat) # Nil
  PROVE  LET b == FetchBatchInput(j, stat)
         IN /\ b \in Batch /\ b.job = j
            /\ b.id \in BatchesOf(j)
            /\ stat[j][b.id] = "Available"
<1> DEFINE avail == {c \in BatchesOf(j) : stat[j][c] = "Available"}
           least == CHOOSE c \in avail : \A d \in avail : c <= d
<1>1. avail # {} /\ FetchBatchInput(j, stat) = [job |-> j, id |-> least]
  BY DEF FetchBatchInput
<1>2. avail \in SUBSET Nat
  BY BatchesOfType
<1>3. \E c \in avail : \A d \in avail : c <= d
  BY <1>1, <1>2, LeastElement
<1>4. least \in avail
  BY <1>3
<1>5. least \in Nat /\ least \in BatchesOf(j) /\ stat[j][least] = "Available"
  BY <1>2, <1>4
<1> HIDE DEF least, avail
<1>6. [job |-> j, id |-> least] \in Batch
  BY <1>5 DEF Batch
<1>. QED  BY <1>1, <1>5, <1>6

(* A job whose completed batches are as many as its batches has completed  *)
(* all of them: what the comparison of CompletedQueries with TotalQueries  *)
(* is meant to say.                                                        *)
LEMMA AllReceivedMeansAll ==
  ASSUME NEW j \in Jobs, NEW S \in SUBSET BatchesOf(j), AllReceived(j, Cardinality(S))
  PROVE  S = BatchesOf(j)
<1>1. IsFiniteSet(BatchesOf(j)) /\ Cardinality(BatchesOf(j)) = NumBatches[j]
  BY BatchesOfType
<1>2. /\ Cardinality(S) <= Cardinality(BatchesOf(j))
      /\ Cardinality(BatchesOf(j)) = Cardinality(S) => BatchesOf(j) = S
      /\ IsFiniteSet(S)
  BY <1>1, FS_Subset
<1>3. Cardinality(S) \in Nat /\ Cardinality(BatchesOf(j)) \in Nat
  BY <1>1, <1>2, FS_CardinalityType
<1>. QED  BY <1>1, <1>2, <1>3 DEF AllReceived

(* The elements of a queue after Push and after Pop. *)
LEMMA RangeOfAppend ==
  ASSUME NEW S, NEW q \in Seq(S), NEW e \in S
  PROVE  Range(Append(q, e)) = Range(q) \cup {e}
<1>1. /\ DOMAIN q = 1 .. Len(q) /\ Len(q) \in Nat
      /\ DOMAIN Append(q, e) = 1 .. Len(q) + 1
      /\ \A i \in 1 .. Len(q) : Append(q, e)[i] = q[i]
      /\ Append(q, e)[Len(q) + 1] = e
  OBVIOUS
<1>2. \A i \in 1 .. Len(q) + 1 : i \in 1 .. Len(q) \/ i = Len(q) + 1
  BY <1>1
<1>3. 1 .. Len(q) \subseteq 1 .. Len(q) + 1 /\ Len(q) + 1 \in 1 .. Len(q) + 1
  BY <1>1
<1>. QED  BY <1>1, <1>2, <1>3, Zenon DEF Range

(* Popping a queue takes its first element out of its range. *)
LEMMA RangeOfTail ==
  ASSUME NEW S, NEW q \in Seq(S), q # <<>>
  PROVE  /\ Range(q) = {Head(q)} \cup Range(Tail(q))
         /\ Head(q) \in S
<1>1. Head(q) = q[1] /\ DOMAIN q = 1 .. Len(q) /\ Len(q) \in Nat \ {0} /\ Head(q) \in S
  OBVIOUS
<1>2. DOMAIN Tail(q) = 1 .. Len(q) - 1 /\ \A i \in 1 .. Len(q) - 1 : Tail(q)[i] = q[i + 1]
  OBVIOUS
<1>3. ASSUME NEW i \in 1 .. Len(q)
      PROVE  q[i] \in {Head(q)} \cup Range(Tail(q))
  <2>1. CASE i = 1
    BY <2>1, <1>1
  <2>2. CASE i # 1
    <3>1. i - 1 \in 1 .. Len(q) - 1 /\ (i - 1) + 1 = i
      BY <1>1, <2>2
    <3>2. Tail(q)[i - 1] = q[i]
      BY <3>1, <1>2
    <3>. QED  BY <3>1, <3>2, <1>2 DEF Range
  <2>. QED  BY <2>1, <2>2
<1>4. ASSUME NEW i \in 1 .. Len(q) - 1
      PROVE  Tail(q)[i] \in Range(q)
  <2>1. i + 1 \in 1 .. Len(q)
    BY <1>1
  <2>. QED  BY <2>1, <1>1, <1>2 DEF Range
<1>5. Head(q) \in Range(q)
  BY <1>1 DEF Range
<1>6. Range(q) \subseteq {Head(q)} \cup Range(Tail(q))
  BY <1>1, <1>3 DEF Range
<1>7. Range(Tail(q)) \subseteq Range(q)
  BY <1>2, <1>4 DEF Range
<1>. QED  BY <1>1, <1>5, <1>6, <1>7

-----------------------------------------------------------------------------
(* The methods preserve SchedulerInv *)

(* A scheduler just created has no outputs and nothing queued. *)
LEMMA NewSchedulerInv == NewScheduler => SchedulerInv
<1> SUFFICES ASSUME NewScheduler PROVE SchedulerInv
  OBVIOUS
<1> USE DEF NewScheduler
<1>1. SchedulerTypeOK
  <2>1. DOMAIN status = Jobs /\ \A j \in Jobs : status[j] \in [BatchesOf(j) -> Status]
    BY DEF FreshStatus, Status
  <2>2. DOMAIN output = Jobs /\ \A j \in Jobs : output[j] \in [BatchesOf(j) -> Batch \cup {Nil}]
    BY DEF NoOutput
  <2>3. pending \in Seq(Jobs)
    BY EmptySeq
  <2>4. counted \in [Jobs -> Nat]
    OBVIOUS
  <2>. QED  BY <2>1, <2>2, <2>3, <2>4 DEF SchedulerTypeOK
<1>2. OutputProvenance /\ CompletedHasOutput
  BY DEF OutputProvenance, CompletedHasOutput, Completed, NoOutput, FreshStatus
<1>3. Range(pending) = {}
  BY DEF Range
<1>4. FinishedIsAnswered
  BY <1>3 DEF FinishedIsAnswered
<1>5. FlushedOnce
  <2>1. 1 .. Len(pending) = {}
    OBVIOUS
  <2>2. completed \cap (active \cup Range(pending)) = {}
    OBVIOUS
  <2>. QED  BY <2>1, <2>2 DEF FlushedOnce
<1>. QED  BY <1>1, <1>2, <1>4, <1>5 DEF SchedulerInv

(* Steps of the workers and the network leave the scheduler alone. *)
LEMMA UnchangedInv == SchedulerInv /\ UNCHANGED schedulerVars => SchedulerInv'
BY DEF SchedulerInv, SchedulerTypeOK, OutputProvenance, CompletedHasOutput, FinishedIsAnswered,
       FlushedOnce, Completed, schedulerVars, jobVars, workerVars

(* Reset keeps the types of the Worker objects. *)
LEMMA ResetType ==
  ASSUME SchedulerTypeOK, NEW S, Reset(S)
  PROVE  assigned' \in [Workers -> Jobs \cup {Nil}] /\ holds' \in [Workers -> Batch \cup {Nil}]
BY DEF SchedulerTypeOK, Reset

(* A method that changes nothing but which workers there are and what they *)
(* do, and that opens some batches again, preserves the invariant: outputs *)
(* stay where they are.                                                    *)
LEMMA ReopeningInv ==
  ASSUME SchedulerInv,
         active' \subseteq active, UNCHANGED <<pending, completed, output, counted>>,
         DOMAIN status' = Jobs,
         \A j \in Jobs : status'[j] \in [BatchesOf(j) -> Status],
         \A j \in Jobs : \A b \in BatchesOf(j) : status'[j][b] \in {"Available", status[j][b]},
         members' \subseteq Workers,
         assigned' \in [Workers -> Jobs \cup {Nil}],
         holds' \in [Workers -> Batch \cup {Nil}],
         panicked' \in BOOLEAN
  PROVE  SchedulerInv'
<1>1. SchedulerTypeOK'
  BY DEF SchedulerInv, SchedulerTypeOK
<1>2. OutputProvenance' /\ FinishedIsAnswered'
  BY DEF SchedulerInv, OutputProvenance, FinishedIsAnswered
<1>3. CompletedHasOutput'
  BY DEF SchedulerInv, CompletedHasOutput, Completed
<1>4. FlushedOnce'
  BY DEF SchedulerInv, FlushedOnce
<1>. QED  BY <1>1, <1>2, <1>3, <1>4 DEF SchedulerInv

(* Resetting workers of inactive jobs touches no job. *)
LEMMA RefreshWorkerStatusInv == SchedulerInv /\ RefreshWorkerStatus => SchedulerInv'
<1> SUFFICES ASSUME SchedulerInv, RefreshWorkerStatus PROVE SchedulerInv'
  OBVIOUS
<1>1. SchedulerTypeOK
  BY DEF SchedulerInv
<1>2. assigned' \in [Workers -> Jobs \cup {Nil}] /\ holds' \in [Workers -> Batch \cup {Nil}]
  BY <1>1, ResetType DEF RefreshWorkerStatus
<1>. QED  BY <1>1, <1>2, ReopeningInv DEF RefreshWorkerStatus, jobVars, SchedulerTypeOK

(* Making orphaned batches available discards no output. *)
LEMMA RefreshBatchStatusInv == SchedulerInv /\ RefreshBatchStatus => SchedulerInv'
<1> SUFFICES ASSUME SchedulerInv, RefreshBatchStatus PROVE SchedulerInv'
  OBVIOUS
<1>1. SchedulerTypeOK
  BY DEF SchedulerInv
<1>2. /\ DOMAIN status' = Jobs
      /\ \A j \in Jobs : status'[j] \in [BatchesOf(j) -> Status]
      /\ \A j \in Jobs : \A b \in BatchesOf(j) : status'[j][b] \in {"Available", status[j][b]}
  BY <1>1 DEF RefreshBatchStatus, SchedulerTypeOK, Status
<1>. QED  BY <1>1, <1>2, ReopeningInv DEF RefreshBatchStatus, workerVars, SchedulerTypeOK

(* Releasing workers reopens their batches and discards no output. *)
LEMMA RefreshScheduleInv ==
  ASSUME SchedulerInv, NEW released, RefreshSchedule(released)
  PROVE  SchedulerInv'
<1>1. SchedulerTypeOK
  BY DEF SchedulerInv
<1>2. /\ DOMAIN status' = Jobs
      /\ \A j \in Jobs : status'[j] \in [BatchesOf(j) -> Status]
      /\ \A j \in Jobs : \A b \in BatchesOf(j) : status'[j][b] \in {"Available", status[j][b]}
  BY <1>1 DEF RefreshSchedule, SchedulerTypeOK, Status
<1>3. assigned' \in [Workers -> Jobs \cup {Nil}] /\ holds' \in [Workers -> Batch \cup {Nil}]
  BY <1>1, ResetType DEF RefreshSchedule
<1>4. panicked' \in BOOLEAN
  BY DEF RefreshSchedule
<1>. QED  BY <1>1, <1>2, <1>3, <1>4, ReopeningInv DEF RefreshSchedule, SchedulerTypeOK

(* So does removing a worker, even if its batch was completed meanwhile. *)
LEMMA OnWorkerFailedInv ==
  ASSUME SchedulerInv, NEW w \in Workers, OnWorkerFailed(w)
  PROVE  SchedulerInv'
<1>1. SchedulerTypeOK
  BY DEF SchedulerInv
<1> DEFINE gives == w \in members /\ assigned[w] \in active /\ holds[w] # Nil
<1>2. /\ DOMAIN status' = Jobs
      /\ \A j \in Jobs : status'[j] \in [BatchesOf(j) -> Status]
      /\ \A j \in Jobs : \A b \in BatchesOf(j) : status'[j][b] \in {"Available", status[j][b]}
  <2>1. CASE gives /\ ~BadIndex(w)
    <3>1. status' = [status EXCEPT ![assigned[w]][holds[w].id] = "Available"]
      BY <2>1 DEF OnWorkerFailed
    <3>2. assigned[w] \in Jobs /\ holds[w].id \in BatchesOf(assigned[w])
      BY <1>1, <2>1 DEF SchedulerTypeOK, BadIndex
    <3>. QED  BY <1>1, <3>1, <3>2 DEF SchedulerTypeOK, Status
  <2>2. CASE ~(gives /\ ~BadIndex(w))
    <3>1. status' = status
      BY <2>2 DEF OnWorkerFailed
    <3>. QED  BY <1>1, <3>1 DEF SchedulerTypeOK
  <2>. QED  BY <2>1, <2>2
<1>3. assigned' \in [Workers -> Jobs \cup {Nil}] /\ holds' \in [Workers -> Batch \cup {Nil}]
  BY <1>1, ResetType DEF OnWorkerFailed
<1>4. panicked' \in BOOLEAN
  BY DEF OnWorkerFailed
<1>5. members' \subseteq Workers /\ UNCHANGED <<active, pending, completed, output, counted>>
  BY <1>1 DEF OnWorkerFailed, SchedulerTypeOK
<1>. QED  BY <1>1, <1>2, <1>3, <1>4, <1>5, ReopeningInv

(* A worker that joins is idle and holds nothing. *)
LEMMA OnWorkerJoinedInv ==
  ASSUME SchedulerInv, NEW w \in Workers, OnWorkerJoined(w)
  PROVE  SchedulerInv'
<1>1. SchedulerTypeOK
  BY DEF SchedulerInv
<1>2. assigned' \in [Workers -> Jobs \cup {Nil}] /\ holds' \in [Workers -> Batch \cup {Nil}]
  BY <1>1, ResetType DEF OnWorkerJoined
<1>. QED  BY <1>1, <1>2, ReopeningInv DEF OnWorkerJoined, jobVars, SchedulerTypeOK

(* A leaving coordinator keeps the pending jobs, complete as they are. *)
LEMMA OnWorkerLeavedInv == SchedulerInv /\ OnWorkerLeaved => SchedulerInv'
<1> SUFFICES ASSUME SchedulerInv, OnWorkerLeaved PROVE SchedulerInv'
  OBVIOUS
<1>1. SchedulerTypeOK
  BY DEF SchedulerInv
<1>2. assigned' \in [Workers -> Jobs \cup {Nil}] /\ holds' \in [Workers -> Batch \cup {Nil}]
  BY <1>1, ResetType DEF OnWorkerLeaved
<1>. QED  BY <1>1, <1>2, ReopeningInv DEF OnWorkerLeaved, SchedulerTypeOK

(* A job that was not flushed may become active. *)
LEMMA AddJobInv ==
  ASSUME SchedulerInv, NEW j \in Jobs, j \notin completed, AddJob(j)
  PROVE  SchedulerInv'
<1>1. SchedulerTypeOK'
  BY DEF SchedulerInv, SchedulerTypeOK, AddJob, workerVars
<1>2. OutputProvenance' /\ FinishedIsAnswered' /\ CompletedHasOutput'
  BY DEF SchedulerInv, OutputProvenance, FinishedIsAnswered, CompletedHasOutput, Completed, AddJob
<1>3. FlushedOnce'
  BY DEF SchedulerInv, FlushedOnce, AddJob
<1>. QED  BY <1>1, <1>2, <1>3 DEF SchedulerInv

(* A request that carries no output, or a genuine one, preserves the       *)
(* invariant, however late it is handled.                                  *)
LEMMA QueryDataInv ==
  ASSUME SchedulerInv, NEW w \in Workers, NEW j, NEW out, out # Nil => Genuine(j, out),
         QueryData(w, j, out)
  PROVE  SchedulerInv'
<1> DEFINE stat == StatusAfterReport(w, j, out)
           reply == Reply(w, j, out)
           count == Cardinality({b \in BatchesOf(j) : stat[j][b] = "Completed"})
<1>1. SchedulerTypeOK
  BY DEF SchedulerInv
<1>2. UNCHANGED <<active, completed, members, assigned, panicked>>
  BY DEF QueryData
<1>3. CASE ~Known(w, j)
  <2>1. ~Reports(w, j, out) /\ reply = Nil /\ stat = status
    BY <1>3 DEF Reports, Reply, StatusAfterReport
  <2>2. UNCHANGED <<output, counted, pending, status, holds>>
    BY <1>3, <2>1 DEF QueryData, RecordOutput, HoldsAfter
  <2>. QED  BY <1>2, <2>2, UnchangedInv DEF schedulerVars, jobVars, workerVars
<1>4. CASE Known(w, j)
  <2>1. j \in Jobs /\ j \in active
    BY <1>1, <1>4 DEF Known, SchedulerTypeOK
  (* after OnReceiveBatchOutput *)
  <2>2. /\ DOMAIN stat = Jobs
        /\ \A k \in Jobs : stat[k] \in [BatchesOf(k) -> Status]
        /\ \A k \in Jobs : \A b \in BatchesOf(k) :
             stat[k][b] = IF out # Nil /\ k = j /\ b = out.id THEN "Completed" ELSE status[k][b]
    BY <1>1, <1>4, <2>1 DEF StatusAfterReport, Reports, SchedulerTypeOK, Status, Genuine
  <2>3. /\ DOMAIN output' = Jobs
        /\ \A k \in Jobs : output'[k] \in [BatchesOf(k) -> Batch \cup {Nil}]
        /\ \A k \in Jobs : \A b \in BatchesOf(k) :
             output'[k][b] = IF out # Nil /\ k = j /\ b = out.id THEN out ELSE output[k][b]
    <3>1. CASE out = Nil
      <4>1. output' = output
        BY <3>1 DEF QueryData, RecordOutput, Reports
      <4>. QED  BY <1>1, <3>1, <4>1 DEF SchedulerTypeOK
    <3>2. CASE out # Nil
      <4>1. output' = [output EXCEPT ![j][out.id] = out]
        BY <1>4, <3>2 DEF QueryData, RecordOutput, Reports
      <4>2. out \in Batch /\ out.id \in BatchesOf(j)
        BY <3>2 DEF Genuine
      <4>. QED  BY <1>1, <2>1, <3>2, <4>1, <4>2 DEF SchedulerTypeOK
    <3>. QED  BY <3>1, <3>2
  <2>4. count \in Nat
    <3>1. IsFiniteSet(BatchesOf(j)) /\ {b \in BatchesOf(j) : stat[j][b] = "Completed"} \in SUBSET BatchesOf(j)
      BY <2>1, BatchesOfType
    <3>. QED  BY <3>1, FS_Subset, FS_CardinalityType
  <2>5. counted' \in [Jobs -> Nat]
    BY <1>1, <2>1, <2>4 DEF QueryData, RecordOutput, SchedulerTypeOK
  <2>6. \/ pending' = pending
        \/ /\ pending' = Append(pending, j)
           /\ j \notin Range(pending)
           /\ AllReceived(j, count)
    BY DEF QueryData, RecordOutput, IsPending
  <2>7. pending' \in Seq(Jobs)
    <3>1. pending \in Seq(Jobs) /\ Append(pending, j) \in Seq(Jobs)
      BY <1>1, <2>1, AppendProperties DEF SchedulerTypeOK
    <3>. QED  BY <3>1, <2>6
  (* after FetchBatchInput *)
  <2>8. reply # Nil => /\ reply \in Batch /\ reply.job = j /\ reply.id \in BatchesOf(j)
                       /\ stat[j][reply.id] = "Available"
    BY <2>1, FetchBatchInputType DEF Reply
  <2>9. /\ DOMAIN status' = Jobs
        /\ \A k \in Jobs : status'[k] \in [BatchesOf(k) -> Status]
        /\ \A k \in Jobs : \A b \in BatchesOf(k) : status'[k][b] \in {stat[k][b], "InProgress"}
    <3>1. CASE reply = Nil
      <4>1. status' = stat
        BY <3>1 DEF QueryData
      <4> HIDE DEF stat
      <4>. QED  BY <4>1, <2>2
    <3>2. CASE reply # Nil
      <4>1. status' = [stat EXCEPT ![j][reply.id] = "InProgress"]
        BY <3>2 DEF QueryData
      <4>2. reply.id \in BatchesOf(j)
        BY <3>2, <2>8
      <4> HIDE DEF stat, reply
      <4>. QED  BY <4>1, <4>2, <2>1, <2>2 DEF Status
    <3>. QED  BY <3>1, <3>2
  <2>10. holds' \in [Workers -> Batch \cup {Nil}]
    BY <1>1, <2>8 DEF QueryData, HoldsAfter, SchedulerTypeOK
  <2> HIDE DEF stat, reply, count
  <2>11. SchedulerTypeOK'
    BY <1>1, <1>2, <2>3, <2>5, <2>7, <2>9, <2>10 DEF SchedulerTypeOK
  <2>12. OutputProvenance'
    <3>1. out # Nil => out = [job |-> j, id |-> out.id]
      BY DEF Genuine, Batch
    <3>. QED  BY <2>3, <3>1 DEF SchedulerInv, OutputProvenance
  <2>13. CompletedHasOutput'
    BY <2>2, <2>3, <2>9 DEF SchedulerInv, CompletedHasOutput, Completed
  <2>14. \A k \in Jobs : \A b \in BatchesOf(k) : stat[k][b] = "Completed" => output'[k][b] # Nil
    BY <2>2, <2>3 DEF SchedulerInv, CompletedHasOutput, Completed
  <2>15. Range(pending') = Range(pending) \/
           /\ Range(pending') = Range(pending) \cup {j}
           /\ \A b \in BatchesOf(j) : stat[j][b] = "Completed"
    <3>1. CASE pending' = pending
      BY <3>1
    <3>2. CASE pending' = Append(pending, j) /\ AllReceived(j, count)
      <4>1. Range(pending') = Range(pending) \cup {j}
        BY <1>1, <2>1, <3>2, RangeOfAppend DEF SchedulerTypeOK
      <4>2. {b \in BatchesOf(j) : stat[j][b] = "Completed"} = BatchesOf(j)
        BY <2>1, <3>2, AllReceivedMeansAll DEF count
      <4>. QED  BY <4>1, <4>2
    <3>. QED  BY <2>6, <3>1, <3>2
  <2>16. FinishedIsAnswered'
    <3>1. \A k \in completed \cup Range(pending) : k \in Jobs
      BY <1>1 DEF SchedulerTypeOK, Range
    <3>2. \A k \in completed \cup Range(pending) : \A b \in BatchesOf(k) : output'[k][b] # Nil
      BY <3>1, <2>3 DEF SchedulerInv, FinishedIsAnswered
    <3>. QED  BY <3>2, <1>2, <2>1, <2>14, <2>15 DEF FinishedIsAnswered
  <2>17. FlushedOnce'
    <3>1. j \notin completed
      BY <2>1 DEF SchedulerInv, FlushedOnce
    <3>2. completed' \cap (active' \cup Range(pending')) = {}
      BY <3>1, <1>2, <2>15 DEF SchedulerInv, FlushedOnce
    <3>3. \A m, n \in 1 .. Len(pending') : pending'[m] = pending'[n] => m = n
      <4>1. CASE pending' = pending
        BY <4>1 DEF SchedulerInv, FlushedOnce
      <4>2. CASE pending' = Append(pending, j) /\ j \notin Range(pending)
        <5>1. \A m \in 1 .. Len(pending) : pending[m] # j
          BY <4>2, <1>1 DEF Range, SchedulerTypeOK
        <5>2. \A m, n \in 1 .. Len(pending) : pending[m] = pending[n] => m = n
          BY DEF SchedulerInv, FlushedOnce
        <5>3. /\ Len(pending') = Len(pending) + 1 /\ Len(pending) \in Nat
              /\ \A m \in 1 .. Len(pending) : pending'[m] = pending[m]
              /\ pending'[Len(pending) + 1] = j
          BY <4>2, <1>1, <2>1 DEF SchedulerTypeOK
        <5>. QED  BY <5>1, <5>2, <5>3
      <4>. QED  BY <2>6, <4>1, <4>2
    <3>. QED  BY <3>2, <3>3 DEF FlushedOnce
  <2>. QED  BY <2>11, <2>12, <2>13, <2>16, <2>17 DEF SchedulerInv
<1>. QED  BY <1>3, <1>4
=============================================================================

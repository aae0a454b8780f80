---------------------------- MODULE ServiceProofs ----------------------------
(***************************************************************************)
(* The coordinator and its workers implement JobService: every step of     *)
(* Cluster, seen through the refinement mapping of Cluster, is a step of   *)
(* the service a client is promised or changes nothing a client can see.   *)
(***************************************************************************)
EXTENDS ClusterProofs

-----------------------------------------------------------------------------
(* The mapping *)

(* Where a job is tells its phase. *)
PhasesApart ==
  \A j \in Jobs :
    /\ j \in completed => PhaseOf(j) = "delivered"
    /\ j \in Range(pending) => PhaseOf(j) = "finished"
    /\ j \in active /\ j \notin Range(pending) => PhaseOf(j) = "running"
    /\ j \in fresh => PhaseOf(j) = "new"
    /\ j \in Range(tasks) \/ j = loading => PhaseOf(j) = "accepted"

(* JobsApart and FlushedOnce make the cases of PhaseOf exclude each other. *)
LEMMA PhaseIs == ClusterInv => PhasesApart
<1> SUFFICES ASSUME ClusterInv PROVE PhasesApart
  OBVIOUS
<1>1. JobsApart /\ FlushedOnce
  BY DEF ClusterInv, SchedulerInv
<1>2. completed \cap (active \cup Range(pending)) = {}
  BY <1>1 DEF FlushedOnce
<1>3. /\ fresh \cap (Range(tasks) \cup active \cup completed \cup Range(pending)) = {}
      /\ Range(tasks) \cap (active \cup completed \cup Range(pending)) = {}
      /\ loading \notin fresh \cup Range(tasks) \cup active \cup completed \cup Range(pending)
  BY <1>1 DEF JobsApart, Scheduled
<1>. QED  BY <1>2, <1>3 DEF PhaseOf, PhasesApart

(* The same after a step. *)
LEMMA PhaseBecomes == ClusterInv' => PhasesApart'
BY PhaseIs, PTL

(* The phase of a job is a matter of where it is: it is the same before    *)
(* and after a step that leaves the job where it was.  Whether a job that  *)
(* waits for its flush is still in ActiveJobs does not matter.             *)
LEMMA PhaseSame ==
  ASSUME NEW j,
         j \in completed' <=> j \in completed,
         j \in Range(pending') <=> j \in Range(pending),
         j \in Range(pending) \/ j \in completed \/ (j \in active' <=> j \in active),
         j \in fresh' <=> j \in fresh,
         (j \in Range(tasks') \/ j = loading') <=> (j \in Range(tasks) \/ j = loading)
  PROVE  PhaseOf(j)' = PhaseOf(j)
BY DEF PhaseOf

(* What a client sees does not change in a step that moves no job and      *)
(* touches neither an output nor a result file.                            *)
LEMMA Unseen ==
  ASSUME \A j \in Jobs : PhaseOf(j)' = PhaseOf(j),
         UNCHANGED <<output, file>>
  PROVE  UNCHANGED Service!serviceVars
BY DEF Service!serviceVars, Answered

(* In particular not in a step that leaves all these structures alone. *)
LEMMA Elsewhere ==
  ASSUME UNCHANGED <<active, pending, completed, fresh, tasks, loading, output, file>>
  PROVE  UNCHANGED Service!serviceVars
<1>1. \A j \in Jobs : PhaseOf(j)' = PhaseOf(j)
  BY PhaseSame
<1>. QED  BY <1>1, Unseen

(* A client has an answer to every batch of a job whose output is waiting  *)
(* for its flush.                                                          *)
LEMMA FinishedAnswers ==
  ASSUME FinishedIsAnswered, NEW j \in completed \cup Range(pending)
  PROVE  Answered(j) = BatchesOf(j)
BY DEF FinishedIsAnswered, Answered

-----------------------------------------------------------------------------
(* The steps a client sees *)

(* The Inference service queues the task: the job is accepted. *)
LEMMA SubmitJobAccepts ==
  ASSUME ClusterInv, ClusterInv', NEW j \in Jobs, SubmitJob(j)
  PROVE  Service!Accept(j)
<1>1. UNCHANGED <<active, pending, completed, output, file, loading>>
  BY DEF SubmitJob, schedulerVars, jobVars
<1>2. Range(tasks') = Range(tasks) \cup {j} /\ fresh' = fresh \ {j} /\ j \in fresh
  BY RangeOfAppend DEF SubmitJob, ClusterInv, TypeOK
<1>3. PhaseOf(j) = "new"
  BY <1>2, PhaseIs DEF PhasesApart
<1>4. PhaseOf(j)' = "accepted"
  BY <1>2, PhaseBecomes DEF PhasesApart
<1>5. \A k \in Jobs \ {j} : PhaseOf(k)' = PhaseOf(k)
  BY <1>1, <1>2, PhaseSame
<1>. QED  BY <1>1, <1>3, <1>4, <1>5 DEF Service!Accept, Answered

(* ProcessQueuedJob takes the task out of the queue: still accepted. *)
LEMMA ProcessQueuedJobUnseen ==
  ASSUME ClusterInv, ProcessQueuedJob
  PROVE  UNCHANGED Service!serviceVars
<1>1. UNCHANGED <<active, pending, completed, output, file, fresh>>
  BY DEF ProcessQueuedJob, schedulerVars, jobVars
<1>2. /\ Range(tasks) = {loading'} \cup Range(tasks')
      /\ loading \notin Jobs
  BY RangeOfTail, NilAssumption DEF ProcessQueuedJob, ClusterInv, TypeOK
<1>3. \A k \in Jobs : PhaseOf(k)' = PhaseOf(k)
  BY <1>1, <1>2, PhaseSame
<1>. QED  BY <1>1, <1>3, Unseen

(* The job is loaded and handed to the scheduler: it starts. *)
LEMMA JobLoadedStarts ==
  ASSUME ClusterInv, ClusterInv', JobLoaded
  PROVE  \E j \in Jobs : Service!Start(j)
<1>1. PICK j \in Jobs : j = loading
  BY DEF JobLoaded, ClusterInv, TypeOK
<1>2. /\ UNCHANGED <<pending, completed, output, file, fresh, tasks>>
      /\ active' = active \cup {j} /\ loading' = Nil
  BY <1>1 DEF JobLoaded, AddJob
<1>3. PhaseOf(j) = "accepted"
  BY <1>1, PhaseIs DEF PhasesApart
<1>4. j \notin Range(pending)
  BY <1>1 DEF ClusterInv, JobsApart, Scheduled
<1>5. PhaseOf(j)' = "running"
  BY <1>2, <1>4, PhaseBecomes DEF PhasesApart
<1>6. \A k \in Jobs \ {j} : PhaseOf(k)' = PhaseOf(k)
  BY <1>1, <1>2, NilAssumption, PhaseSame
<1>7. Service!Start(j)
  BY <1>2, <1>3, <1>5, <1>6 DEF Service!Start, Answered
<1>. QED  BY <1>7

(* The dataset cannot be read: the job is dropped. *)
LEMMA LoadFailsDrops ==
  ASSUME ClusterInv, ClusterInv', LoadFails
  PROVE  \E S \in SUBSET Jobs : Service!Drop(S)
<1>1. PICK j \in Jobs : j = loading
  BY DEF LoadFails, ClusterInv, TypeOK
<1>2. UNCHANGED <<active, pending, completed, output, file, fresh, tasks>> /\ loading' = Nil
  BY DEF LoadFails, schedulerVars, jobVars
<1>3. PhaseOf(j) = "accepted"
  BY <1>1, PhaseIs DEF PhasesApart
<1>4. PhaseOf(j)' = "dropped"
  <2>1. /\ j \notin completed' /\ j \notin Range(pending') /\ j \notin active'
        /\ j \notin fresh' /\ j \notin Range(tasks') /\ j # loading'
    BY <1>1, <1>2, NilAssumption DEF ClusterInv, JobsApart, Scheduled
  <2>. QED  BY <2>1 DEF PhaseOf
<1>5. \A k \in Jobs \ {j} : PhaseOf(k)' = PhaseOf(k)
  BY <1>1, <1>2, NilAssumption, PhaseSame
<1>6. Service!Drop({j})
  BY <1>2, <1>3, <1>4, <1>5 DEF Service!Drop, Answered
<1>. QED  BY <1>6

(* The coordinator leaves and forgets its active jobs, except those that   *)
(* wait for their flush: the jobs that were running are dropped.           *)
LEMMA CoordinatorLeavesDrops ==
  ASSUME ClusterInv, ClusterInv', CoordinatorLeaves
  PROVE  \E S \in SUBSET Jobs : Service!Drop(S)
<1> DEFINE S == {j \in Jobs : j \in active /\ j \notin Range(pending)}
<1>1. /\ UNCHANGED <<pending, completed, output, file, fresh, tasks, loading>>
      /\ active' = {}
  BY DEF CoordinatorLeaves, OnWorkerLeaved
<1>2. \A j \in S : PhaseOf(j) = "running"
  BY PhaseIs DEF PhasesApart
<1>3. ASSUME NEW j \in S
      PROVE  PhaseOf(j)' = "dropped"
  <2>1. /\ j \notin completed' /\ j \notin Range(pending') /\ j \notin active'
        /\ j \notin fresh' /\ j \notin Range(tasks') /\ j # loading'
    BY <1>1 DEF ClusterInv, SchedulerInv, FlushedOnce, JobsApart, Scheduled
  <2>. QED  BY <2>1 DEF PhaseOf
<1>4. \A j \in Jobs \ S : PhaseOf(j)' = PhaseOf(j)
  BY <1>1, PhaseSame
<1>5. Service!Drop(S)
  <2>1. UNCHANGED <<[j \in Jobs |-> Answered(j)], file>>
    BY <1>1 DEF Answered
  <2>2. S \subseteq Jobs
    OBVIOUS
  <2> HIDE DEF S
  <2>. QED  BY <1>2, <1>3, <1>4, <2>1, <2>2 DEF Service!Drop
<1>. QED  BY <1>5

(* QueryData, on time or late: a running job gets an answer and, with the  *)
(* last one, is finished; a job that waits for its flush has that answer   *)
(* already; for any other job the output is ignored.                       *)
LEMMA QueryDataAnswers ==
  ASSUME ClusterInv, ClusterInv', NEW w, NEW j, NEW out, out # Nil => Genuine(j, out),
         QueryData(w, j, out), UNCHANGED <<fresh, tasks, loading, file>>
  PROVE  \/ j \in Jobs /\ \E b \in BatchesOf(j) : Service!Answer(j, b)
         \/ UNCHANGED Service!serviceVars
<1>1. UNCHANGED <<active, completed>> /\ RecordOutput(w, j, out)
  BY DEF QueryData
<1>2. CASE ~Reports(w, j, out)
  BY <1>1, <1>2, Elsewhere DEF RecordOutput
<1>3. CASE Reports(w, j, out)
  <2>1. /\ j \in Jobs /\ j \in active /\ Genuine(j, out) /\ out # Nil
        /\ output' = [output EXCEPT ![j][out.id] = out]
        /\ pending' \in {pending, Append(pending, j)}
        /\ SchedulerTypeOK /\ FinishedIsAnswered /\ FinishedIsAnswered'
    BY <1>1, <1>3 DEF Reports, Known, RecordOutput, ClusterInv, SchedulerInv, SchedulerTypeOK
  <2>2. /\ out.id \in BatchesOf(j) /\ DOMAIN output = Jobs
        /\ \A k \in Jobs : output[k] \in [BatchesOf(k) -> Batch \cup {Nil}]
        /\ pending \in Seq(Jobs)
    BY <2>1 DEF Genuine, SchedulerTypeOK
  <2>3. /\ Answered(j)' = Answered(j) \cup {out.id}
        /\ \A k \in Jobs \ {j} : Answered(k)' = Answered(k)
    BY <2>1, <2>2 DEF Answered
  <2>4. Range(pending') \in {Range(pending), Range(pending) \cup {j}}
    <3>1. Range(Append(pending, j)) = Range(pending) \cup {j}
      BY <2>1, <2>2, RangeOfAppend
    <3>. QED  BY <2>1, <3>1
  <2>5. \A k \in Jobs \ {j} : PhaseOf(k)' = PhaseOf(k)
    BY <1>1, <2>4, PhaseSame
  <2>6. CASE j \in Range(pending)
    <3>1. PhaseOf(j)' = PhaseOf(j)
      BY <1>1, <2>4, <2>6, PhaseSame
    <3>2. Answered(j)' = Answered(j)
      BY <2>1, <2>2, <2>3, <2>6, FinishedAnswers
    <3>. QED  BY <2>3, <2>5, <3>1, <3>2 DEF Service!serviceVars
  <2>7. CASE j \notin Range(pending)
    <3>1. PhaseOf(j) = "running"
      BY <2>1, <2>7, PhaseIs DEF PhasesApart
    <3>2. [k \in Jobs |-> Answered(k)]'
            = [[k \in Jobs |-> Answered(k)] EXCEPT ![j] = @ \cup {out.id}]
      BY <2>1, <2>3
    <3>3. \/ [k \in Jobs |-> PhaseOf(k)]' = [k \in Jobs |-> PhaseOf(k)]
          \/ /\ Answered(j)' = BatchesOf(j)
             /\ [k \in Jobs |-> PhaseOf(k)]' = [[k \in Jobs |-> PhaseOf(k)] EXCEPT ![j] = "finished"]
      <4>1. CASE j \in Range(pending')
        <5>1. PhaseOf(j)' = "finished"
          BY <2>1, <4>1, PhaseBecomes DEF PhasesApart
        <5>2. Answered(j)' = BatchesOf(j)
          BY <2>1, <4>1 DEF FinishedIsAnswered, Answered
        <5>. QED  BY <2>5, <5>1, <5>2
      <4>2. CASE j \notin Range(pending')
        <5>1. PhaseOf(j)' = PhaseOf(j)
          BY <1>1, <2>7, <4>2, PhaseSame
        <5>. QED  BY <2>5, <5>1
      <4>. QED  BY <4>1, <4>2
    <3>4. Service!Answer(j, out.id)
      BY <2>1, <3>1, <3>2, <3>3 DEF Service!Answer, Service!BatchesOf, BatchesOf
    <3>. QED  BY <2>1, <2>2, <3>4
  <2>. QED  BY <2>6, <2>7
<1>. QED  BY <1>2, <1>3

(* FlushPendingJobs stores what the client has answers to, which is all;   *)
(* if the Put succeeds the job is delivered.                               *)
LEMMA FlushStores ==
  ASSUME ClusterInv, ClusterInv', FlushPendingJobs \/ FlushFails
  PROVE  (\E j \in Jobs : Service!Store(j)) \/ UNCHANGED Service!serviceVars
<1>1. /\ pending \in Seq(Jobs) /\ DOMAIN file = Jobs /\ FinishedIsAnswered
      /\ completed \cap Range(pending) = {}
  BY DEF ClusterInv, TypeOK, SchedulerInv, SchedulerTypeOK, FlushedOnce
<1>2. pending # <<>>
  BY DEF FlushPendingJobs, FlushFails
<1>3. PICK j \in Jobs : j = Head(pending) /\ j \in Range(pending)
  BY <1>1, <1>2, RangeOfTail
<1>4. /\ UNCHANGED <<fresh, tasks, loading, output>> /\ active' = active \ {j}
      /\ file' = file \/ file' = [file EXCEPT ![j] = Answered(j)]
  BY <1>3 DEF FlushPendingJobs, FlushFails, FinishJob
<1>5. Answered(j) = BatchesOf(j)
  BY <1>1, <1>3, FinishedAnswers
<1>6. PhaseOf(j) = "finished"
  BY <1>3, PhaseIs DEF PhasesApart
<1>7. CASE FlushPendingJobs
  <2>1. /\ pending' = Tail(pending) /\ completed' = completed \cup {j}
        /\ file' = [file EXCEPT ![j] = Answered(j)]
    BY <1>3, <1>7 DEF FlushPendingJobs
  <2>2. Range(pending) = {j} \cup Range(pending')
    BY <1>1, <1>2, <1>3, <2>1, RangeOfTail
  <2>3. \A k \in Jobs \ {j} : PhaseOf(k)' = PhaseOf(k)
    BY <1>4, <2>1, <2>2, PhaseSame
  <2>4. PhaseOf(j)' = "delivered"
    BY <2>1, PhaseBecomes DEF PhasesApart
  <2>5. Service!Store(j)
    BY <1>4, <1>5, <1>6, <2>1, <2>3, <2>4 DEF Service!Store, Answered, Service!BatchesOf, BatchesOf
  <2>. QED  BY <2>5
<1>8. CASE FlushFails
  <2>1. UNCHANGED <<pending, completed>>
    BY <1>8 DEF FlushFails
  <2>2. \A k \in Jobs : PhaseOf(k)' = PhaseOf(k)
    BY <1>3, <1>4, <2>1, PhaseSame
  <2>3. CASE file' = file
    BY <1>4, <2>2, <2>3, Unseen
  <2>4. CASE file' = [file EXCEPT ![j] = Answered(j)]
    <3>1. Service!Store(j)
      BY <1>4, <1>5, <1>6, <2>2, <2>4 DEF Service!Store, Answered, Service!BatchesOf, BatchesOf
    <3>. QED  BY <3>1
  <2>. QED  BY <1>4, <2>3, <2>4
<1>. QED  BY <1>7, <1>8

-----------------------------------------------------------------------------
(* The refinement *)

(* Before the first job the client sees an idle service. *)
LEMMA InitRefines == Init => Service!ServiceInit
<1> SUFFICES ASSUME Init PROVE Service!ServiceInit
  OBVIOUS
<1>1. ClusterInv
  BY InitInv
<1>2. fresh = Jobs /\ file = [j \in Jobs |-> {}]
  BY DEF Init
<1>3. \A j \in Jobs : PhaseOf(j) = "new"
  BY <1>1, <1>2, PhaseIs DEF PhasesApart
<1>4. \A j \in Jobs : Answered(j) = {}
  BY DEF Init, NewScheduler, NoOutput, Answered
<1>. QED  BY <1>2, <1>3, <1>4 DEF Service!ServiceInit

(* Every step of the cluster is a step of the service, or a stutter. *)
LEMMA StepRefines ==
  ClusterInv /\ ClusterInv' /\ [Next]_vars => [Service!ServiceNext]_(Service!serviceVars)
<1> SUFFICES ASSUME ClusterInv, ClusterInv', [Next]_vars
             PROVE  Service!ServiceNext \/ UNCHANGED Service!serviceVars
  OBVIOUS
<1> USE DEF Service!ServiceNext
<1>1. ASSUME NEW j \in Jobs, SubmitJob(j)
      PROVE  Service!ServiceNext
  BY <1>1, SubmitJobAccepts
<1>2. CASE ProcessQueuedJob
  BY <1>2, ProcessQueuedJobUnseen
<1>3. CASE JobLoaded
  BY <1>3, JobLoadedStarts
<1>4. CASE LoadFails
  BY <1>4, LoadFailsDrops
<1>5. CASE FlushPendingJobs \/ FlushFails
  BY <1>5, FlushStores
<1>6. CASE CoordinatorLeaves
  BY <1>6, CoordinatorLeavesDrops
<1>7. ASSUME NEW w \in Workers, QueryHandled(w)
      PROVE  Service!ServiceNext \/ UNCHANGED Service!serviceVars
  <2>1. /\ step[w].at = "waiting" /\ QueryData(w, step[w].job, step[w].batch)
        /\ UNCHANGED <<fresh, tasks, loading, file>>
    BY <1>7 DEF QueryHandled, ReceiveReply
  <2>2. step[w].batch # Nil => Genuine(step[w].job, step[w].batch)
    BY <2>1 DEF Ready, ClusterInv, WorkerInv, StepOrigin
  <2>. QED  BY <2>1, <2>2, QueryDataAnswers DEF Service!BatchesOf, BatchesOf
<1>8. ASSUME NEW w \in Workers, NEW r \in late[w], LateQueryHandled(w, r)
      PROVE  Service!ServiceNext \/ UNCHANGED Service!serviceVars
  <2>1. QueryData(w, r.job, r.out) /\ UNCHANGED <<fresh, tasks, loading, file>>
    BY <1>8 DEF LateQueryHandled
  <2>2. r.out # Nil => Genuine(r.job, r.out)
    BY DEF ClusterInv, LateOrigin
  <2>. QED  BY <2>1, <2>2, QueryDataAnswers DEF Service!BatchesOf, BatchesOf
<1>9. CASE RescheduleJobs \/ BatchRepair \/ WorkerRepair
  <2>1. UNCHANGED <<active, pending, completed, fresh, tasks, loading, output, file>>
    BY <1>9 DEF RescheduleJobs, RefreshSchedule, BatchRepair, RefreshBatchStatus,
         WorkerRepair, RefreshWorkerStatus, jobVars
  <2>. QED  BY <2>1, Elsewhere
<1>10. ASSUME NEW w \in Workers, NEW i, OnMemberUpdate(w, i)
       PROVE  UNCHANGED Service!serviceVars
  <2>1. UNCHANGED <<active, pending, completed, fresh, tasks, loading, output, file>>
    BY <1>10 DEF OnMemberUpdate, OnWorkerJoined, OnWorkerFailed, jobVars
  <2>. QED  BY <2>1, Elsewhere
<1>11. ASSUME \/ \E w \in Workers :
                   \/ WorkerQueries(w) \/ DeadlinePasses(w) \/ Evaluated(w) \/ EvaluateFails(w)
                   \/ Crash(w) \/ Suspect(w) \/ CallNext(w)
              \/ UNCHANGED vars
       PROVE  UNCHANGED Service!serviceVars
  <2>1. UNCHANGED <<active, pending, completed, fresh, tasks, loading, output, file>>
    BY <1>11 DEF WorkerQueries, DeadlinePasses, Evaluated, EvaluateFails, Crash, Suspect, CallNext,
         SendInference, DeliverInference, CallReturns, CallFails, ResetRuns, vars, schedulerVars,
         jobVars
  <2>. QED  BY <2>1, Elsewhere
<1>. QED
  BY <1>1, <1>2, <1>3, <1>4, <1>5, <1>6, <1>7, <1>8, <1>9, <1>10, <1>11
  DEF Next, CoordinatorNext, QueryNext, MemberNext

(* For any number of jobs, workers and faults, the coordinator and its     *)
(* workers implement the service: a job that finishes is never dropped,    *)
(* what is stored is complete, and a delivered job never changes again.    *)
THEOREM Refinement == Spec => ImplementsService
BY InitRefines, StepRefines, Inductive, PTL DEF Spec, ImplementsService, Service!ServiceSpec
=============================================================================

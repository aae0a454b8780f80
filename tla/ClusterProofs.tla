---------------------------- MODULE ClusterProofs ----------------------------
(***************************************************************************)
(* ClusterInv is an inductive invariant of Cluster, for every number of    *)
(* jobs, batches, workers, calls in flight and faults.  There is one lemma *)
(* for each part of the state; each goes through the actions that touch it.*)
(***************************************************************************)
EXTENDS Cluster, SchedulerProofs

-----------------------------------------------------------------------------
(* The scheduler's part *)

(* FlushPendingJobs takes the first pending job out of ActiveJobs and, if  *)
(* Put succeeds, moves it to CompletedJobs.                                *)
LEMMA FlushInv ==
  ASSUME SchedulerInv, pending # <<>>, NEW S, FinishJob(Head(pending), S),
         \/ UNCHANGED <<pending, completed>>
         \/ pending' = Tail(pending) /\ completed' = completed \cup {Head(pending)}
  PROVE  SchedulerInv'
<1> DEFINE j == Head(pending)
<1>1. SchedulerTypeOK
  BY DEF SchedulerInv
<1>2. /\ active' = active \ {j}
      /\ UNCHANGED <<status, output, counted, members, assigned, holds, panicked>>
  BY DEF FinishJob, workerVars
<1>3. assigned' \in [Workers -> Jobs \cup {Nil}] /\ holds' \in [Workers -> Batch \cup {Nil}]
  BY <1>1, <1>2 DEF SchedulerTypeOK
<1>4. CASE UNCHANGED <<pending, completed>>
  BY <1>1, <1>2, <1>3, <1>4, ReopeningInv DEF SchedulerTypeOK
<1>5. CASE pending' = Tail(pending) /\ completed' = completed \cup {j}
  <2>1. pending \in Seq(Jobs)
    BY <1>1 DEF SchedulerTypeOK
  <2>2. j \in Jobs /\ Range(pending) = {j} \cup Range(pending')
    BY <1>5, <2>1, RangeOfTail
  <2>3. /\ pending' \in Seq(Jobs) /\ Len(pending') = Len(pending) - 1
        /\ Len(pending) \in Nat \ {0}
        /\ \A i \in 1 .. Len(pending) - 1 : pending'[i] = pending[i + 1]
        /\ pending[1] = j
        /\ DOMAIN pending' = 1 .. Len(pending')
    BY <1>5, <2>1
  <2>4. \A m, n \in 1 .. Len(pending) : pending[m] = pending[n] => m = n
    BY DEF SchedulerInv, FlushedOnce
  <2>5. \A m, n \in 1 .. Len(pending') : pending'[m] = pending'[n] => m = n
    BY <2>3, <2>4
  <2>6. j \notin Range(pending')
    <3>1. ASSUME NEW i \in 1 .. Len(pending')
          PROVE  pending'[i] # j
      BY <2>3, <2>4
    <3>. QED  BY <3>1, <2>3 DEF Range
  <2>7. SchedulerTypeOK'
    BY <1>1, <1>2, <1>3, <1>5, <2>2, <2>3 DEF SchedulerTypeOK
  <2>8. OutputProvenance' /\ CompletedHasOutput'
    BY <1>2 DEF SchedulerInv, OutputProvenance, CompletedHasOutput, Completed
  <2>9. FinishedIsAnswered'
    BY <1>2, <1>5, <2>2 DEF SchedulerInv, FinishedIsAnswered
  <2>10. completed' \cap (active' \cup Range(pending')) = {}
    BY <1>2, <1>5, <2>2, <2>6 DEF SchedulerInv, FlushedOnce
  <2>11. FlushedOnce'
    BY <2>5, <2>10 DEF FlushedOnce
  <2>. QED  BY <2>7, <2>8, <2>9, <2>11 DEF SchedulerInv
<1>. QED  BY <1>4, <1>5

(* Every step of the cluster preserves the scheduler's invariant: handlers *)
(* by the lemmas above, given that the outputs they are sent are genuine.  *)
LEMMA SchedulerStep ==
  ASSUME ClusterInv, [Next]_vars
  PROVE  SchedulerInv'
<1> USE DEF ClusterInv
<1>1. SchedulerTypeOK /\ SchedulerInv
  BY DEF SchedulerInv
<1>2. CASE UNCHANGED schedulerVars
  BY <1>1, <1>2, UnchangedInv
<1>3. CASE JobLoaded
  <2>1. loading \in Jobs /\ loading \notin completed
    BY <1>3 DEF JobLoaded, TypeOK, JobsApart, Scheduled
  <2>. QED  BY <1>3, <2>1, AddJobInv DEF JobLoaded
<1>4. CASE FlushPendingJobs
  BY <1>1, <1>4, FlushInv DEF FlushPendingJobs
<1>5. CASE FlushFails
  BY <1>1, <1>5, FlushInv DEF FlushFails
<1>6. CASE RescheduleJobs
  BY <1>1, <1>6, RefreshScheduleInv DEF RescheduleJobs
<1>7. CASE BatchRepair
  BY <1>1, <1>7, RefreshBatchStatusInv DEF BatchRepair
<1>8. CASE WorkerRepair
  BY <1>1, <1>8, RefreshWorkerStatusInv DEF WorkerRepair
<1>9. CASE CoordinatorLeaves
  BY <1>1, <1>9, OnWorkerLeavedInv DEF CoordinatorLeaves
<1>10. ASSUME NEW w \in Workers, NEW s \in Slots, SendInference(w, s)
       PROVE  SchedulerInv'
  <2>1. UNCHANGED <<jobVars, workerVars>> /\ panicked' \in BOOLEAN
    BY <1>10 DEF SendInference
  <2>. QED  BY <1>1, <2>1, ReopeningInv DEF jobVars, workerVars, SchedulerTypeOK
<1>11. ASSUME NEW w \in Workers, NEW s \in Slots, CallReturns(w, s)
       PROVE  SchedulerInv'
  <2>1. UNCHANGED <<jobVars, members, holds, panicked>>
    BY <1>11 DEF CallReturns
  <2>2. calls[w][s].job \in Jobs
    BY <1>11 DEF CallReturns, TypeOK, Call, NoCall
  <2>3. assigned' \in [Workers -> Jobs \cup {Nil}]
    BY <1>1, <1>11, <2>2 DEF CallReturns, SchedulerTypeOK
  <2>. QED  BY <1>1, <2>1, <2>3, ReopeningInv DEF jobVars, SchedulerTypeOK
<1>12. ASSUME NEW w \in Workers, QueryHandled(w)
       PROVE  SchedulerInv'
  <2>1. step[w].at = "waiting" /\ QueryData(w, step[w].job, step[w].batch)
    BY <1>12 DEF QueryHandled, ReceiveReply
  <2>2. step[w] # Ready
    BY <2>1 DEF Ready
  <2>3. step[w].batch # Nil => Genuine(step[w].job, step[w].batch)
    BY <2>2 DEF WorkerInv, StepOrigin
  <2>. QED  BY <1>1, <2>1, <2>3, QueryDataInv
<1>13. ASSUME NEW w \in Workers, NEW r \in late[w], LateQueryHandled(w, r)
       PROVE  SchedulerInv'
  <2>1. r.out # Nil => Genuine(r.job, r.out)
    BY DEF LateOrigin
  <2>. QED  BY <1>1, <1>13, <2>1, QueryDataInv DEF LateQueryHandled
<1>14. ASSUME NEW w \in Workers, NEW i, OnMemberUpdate(w, i)
       PROVE  SchedulerInv'
  BY <1>1, <1>14, OnWorkerJoinedInv, OnWorkerFailedInv DEF OnMemberUpdate
<1>15. ASSUME \/ \E j \in Jobs : SubmitJob(j)
              \/ ProcessQueuedJob \/ LoadFails
              \/ \E w \in Workers : \/ WorkerQueries(w) \/ DeadlinePasses(w) \/ Evaluated(w)
                                    \/ EvaluateFails(w) \/ Crash(w) \/ Suspect(w)
                                    \/ \E s \in Slots : DeliverInference(w, s) \/ CallFails(w, s)
              \/ UNCHANGED vars
       PROVE  UNCHANGED schedulerVars
  BY <1>15 DEF SubmitJob, ProcessQueuedJob, LoadFails, WorkerQueries, DeadlinePasses, Evaluated,
       EvaluateFails, Crash, Suspect, DeliverInference, CallFails, vars
<1>16. ASSUME NEW w \in Workers, ResetRuns(w)
       PROVE  SchedulerInv'
  <2>1. UNCHANGED <<jobVars, members, panicked>> /\ Reset({w})
    BY <1>16 DEF ResetRuns
  <2>2. assigned' \in [Workers -> Jobs \cup {Nil}] /\ holds' \in [Workers -> Batch \cup {Nil}]
    BY <1>1, <2>1, ResetType
  <2>. QED  BY <1>1, <2>1, <2>2, ReopeningInv DEF jobVars, SchedulerTypeOK
<1>. QED
  BY <1>2, <1>3, <1>4, <1>5, <1>6, <1>7, <1>8, <1>9, <1>10, <1>11, <1>12, <1>13, <1>14, <1>15,
     <1>16 DEF Next, CoordinatorNext, CallNext, QueryNext, MemberNext

-----------------------------------------------------------------------------
(* The workers' part *)

(* A batch in a reply is a batch of the job the request named. *)
LEMMA ReplyIsGenuine ==
  ASSUME SchedulerTypeOK, NEW w, NEW j, NEW out, Reply(w, j, out) # Nil
  PROVE  Genuine(j, Reply(w, j, out)) /\ j \in Jobs
<1>1. j \in Jobs /\ Reply(w, j, out) = FetchBatchInput(j, StatusAfterReport(w, j, out))
  BY DEF Reply, Known, SchedulerTypeOK
<1>. QED  BY <1>1, FetchBatchInputType DEF Genuine

(* The initial state of a worker's query cycle has its type. *)
LEMMA ReadyIsAStep == Ready \in Step
BY DEF Step

(* Every step preserves the workers' invariant: whatever FinishInference,  *)
(* deadlines and restarts do, the output a worker keeps is of its job.     *)
LEMMA WorkerStep ==
  ASSUME ClusterInv, [Next]_vars
  PROVE  WorkerInv'
<1>1. WorkerTypeOK /\ ResultOrigin /\ StepOrigin /\ SchedulerTypeOK
  BY DEF ClusterInv, WorkerInv, SchedulerInv
<1>2. CASE UNCHANGED machineVars
  BY <1>1, <1>2 DEF WorkerInv, WorkerTypeOK, ResultOrigin, StepOrigin, machineVars
<1>3. ASSUME NEW S, FinishInference(S)
      PROVE  WorkerInv'
  BY <1>1, <1>3 DEF FinishInference, WorkerInv, WorkerTypeOK, ResultOrigin, StepOrigin
<1>4. ASSUME NEW w \in Workers, NEW s \in Slots, DeliverInference(w, s)
      PROVE  WorkerInv'
  <2>1. calls[w][s].job \in Jobs
    BY <1>4 DEF DeliverInference, ClusterInv, TypeOK, Call, NoCall
  <2>2. Inference(w, calls[w][s].job)
    BY <1>4 DEF DeliverInference
  <2>. QED  BY <1>1, <2>1, <2>2 DEF Inference, WorkerInv, WorkerTypeOK, ResultOrigin, StepOrigin
<1>5. ASSUME NEW w \in Workers, WorkerQueries(w)
      PROVE  WorkerInv'
  <2>1. /\ serving[w] # Nil
        /\ step' = [step EXCEPT ![w] = Waiting(serving[w], result[w])]
        /\ UNCHANGED <<serving, result>>
    BY <1>5 DEF WorkerQueries, SendQuery
  <2>2. /\ serving[w] \in Jobs /\ result[w] \in Batch \cup {Nil}
        /\ result[w] # Nil => Genuine(serving[w], result[w])
    BY <1>1, <2>1 DEF WorkerTypeOK, ResultOrigin
  <2>3. Waiting(serving[w], result[w]) \in Step
    BY <2>2 DEF Waiting, Step
  <2>4. WorkerTypeOK'
    BY <1>1, <2>1, <2>3 DEF WorkerTypeOK
  <2>5. StepOrigin'
    BY <1>1, <2>1, <2>2 DEF StepOrigin, WorkerTypeOK, Waiting
  <2>6. ResultOrigin'
    BY <1>1, <2>1 DEF ResultOrigin
  <2>. QED  BY <2>4, <2>5, <2>6 DEF WorkerInv
<1>6. ASSUME NEW w \in Workers, QueryHandled(w)
      PROVE  WorkerInv'
  <2> DEFINE j == step[w].job
             reply == Reply(w, step[w].job, step[w].batch)
  <2>1. /\ step[w].at = "waiting"
        /\ step' = [step EXCEPT ![w] = IF reply = Nil THEN Ready ELSE Running(j, reply)]
        /\ UNCHANGED <<serving, result>>
    BY <1>6 DEF QueryHandled, ReceiveReply
  <2>2. step[w] # Ready
    BY <2>1 DEF Ready
  <2>3. serving[w] \in {Nil, j}
    BY <1>1, <2>2 DEF StepOrigin
  <2>4. reply # Nil => Genuine(j, reply) /\ j \in Jobs
    BY <1>1, ReplyIsGenuine
  <2> HIDE DEF reply, j
  <2>5. reply # Nil => Running(j, reply) \in Step
    BY <2>4 DEF Running, Step, Genuine
  <2>6. WorkerTypeOK'
    BY <1>1, <2>1, <2>5, ReadyIsAStep DEF WorkerTypeOK
  <2>7. StepOrigin'
    BY <1>1, <2>1, <2>3, <2>4 DEF StepOrigin, WorkerTypeOK, Running
  <2>8. ResultOrigin'
    BY <1>1, <2>1 DEF ResultOrigin
  <2>. QED  BY <2>6, <2>7, <2>8 DEF WorkerInv
<1>7. ASSUME NEW w \in Workers, AbandonRound(w)
      PROVE  WorkerInv'
  BY <1>1, <1>7, ReadyIsAStep DEF AbandonRound, WorkerInv, WorkerTypeOK, ResultOrigin, StepOrigin
<1>8. ASSUME NEW w \in Workers, FinishRound(w)
      PROVE  WorkerInv'
  <2>1. /\ step[w].at = "running"
        /\ result' = [result EXCEPT ![w] = step[w].batch]
        /\ step' = [step EXCEPT ![w] = Ready]
        /\ serving' = serving
    BY <1>8 DEF FinishRound
  <2>2. step[w] # Ready /\ step[w].batch \in Batch
    BY <1>1, <2>1 DEF WorkerTypeOK, Step, Ready
  <2>3. step[w].batch # Nil
    BY <2>2, NilAssumption DEF Batch
  <2>4. Genuine(step[w].job, step[w].batch) /\ serving[w] \in {Nil, step[w].job}
    BY <1>1, <2>2, <2>3 DEF StepOrigin
  <2>5. step[w].batch.job = step[w].job
    BY <2>4 DEF Genuine
  <2>6. WorkerTypeOK'
    BY <1>1, <2>1, <2>2, ReadyIsAStep DEF WorkerTypeOK
  <2>7. ResultOrigin'
    BY <1>1, <2>1, <2>4, <2>5 DEF ResultOrigin, WorkerTypeOK
  <2>8. StepOrigin'
    BY <1>1, <2>1 DEF StepOrigin, WorkerTypeOK
  <2>. QED  BY <2>6, <2>7, <2>8 DEF WorkerInv
<1>9. ASSUME NEW w \in Workers, Restart(w)
      PROVE  WorkerInv'
  BY <1>1, <1>9, ReadyIsAStep DEF Restart, WorkerInv, WorkerTypeOK, ResultOrigin, StepOrigin
<1>10. CASE FlushPendingJobs \/ FlushFails
  BY <1>3, <1>10 DEF FlushPendingJobs, FlushFails, FinishJob
<1>11. ASSUME \/ \E j \in Jobs : SubmitJob(j)
              \/ ProcessQueuedJob \/ JobLoaded \/ LoadFails \/ RescheduleJobs
              \/ BatchRepair \/ WorkerRepair \/ CoordinatorLeaves
              \/ \E w \in Workers :
                   \/ \E s \in Slots : SendInference(w, s) \/ CallReturns(w, s) \/ CallFails(w, s)
                   \/ \E r \in late[w] : LateQueryHandled(w, r)
                   \/ \E i \in 1 .. Len(updates[w]) : OnMemberUpdate(w, i)
                   \/ Suspect(w) \/ ResetRuns(w)
              \/ UNCHANGED vars
       PROVE  UNCHANGED machineVars
  BY <1>11 DEF SubmitJob, ProcessQueuedJob, JobLoaded, LoadFails, RescheduleJobs, BatchRepair,
       WorkerRepair, CoordinatorLeaves, SendInference, CallReturns, CallFails, LateQueryHandled,
       OnMemberUpdate, Suspect, ResetRuns, vars
<1>12. ASSUME NEW w \in Workers, DeadlinePasses(w) \/ EvaluateFails(w) \/ Evaluated(w) \/ Crash(w)
       PROVE  WorkerInv'
  BY <1>7, <1>8, <1>9, <1>12 DEF DeadlinePasses, EvaluateFails, Evaluated, Crash
<1>. QED
  BY <1>2, <1>4, <1>5, <1>6, <1>10, <1>11, <1>12
  DEF Next, CoordinatorNext, CallNext, QueryNext, MemberNext

-----------------------------------------------------------------------------
(* The requests left behind *)

(* A request a worker leaves behind is as genuine as when it was sent. *)
LEMMA LateStep ==
  ASSUME ClusterInv, [Next]_vars
  PROVE  late' \in [Workers -> SUBSET LateQuery] /\ LateOrigin'
<1>1. /\ late \in [Workers -> SUBSET LateQuery] /\ LateOrigin
      /\ WorkerTypeOK /\ StepOrigin /\ faults \in [FaultKinds -> Nat]
  BY DEF ClusterInv, TypeOK, WorkerInv
<1>2. CASE UNCHANGED late
  BY <1>1, <1>2 DEF LateOrigin
<1>3. ASSUME NEW w \in Workers, LeaveBehind(w)
      PROVE  late' \in [Workers -> SUBSET LateQuery] /\ LateOrigin'
  <2> DEFINE r == [job |-> step[w].job, out |-> step[w].batch,
                   nr |-> faults["deadline"] + faults["crash"]]
  <2>1. CASE step[w].at = "waiting"
    <3>1. late' = [late EXCEPT ![w] = @ \cup {r}]
      BY <1>3, <2>1 DEF LeaveBehind
    <3>2. step[w] # Ready /\ step[w].job \in Jobs /\ step[w].batch \in Batch \cup {Nil}
      BY <1>1, <2>1 DEF WorkerTypeOK, Step, Ready
    <3>3. faults["deadline"] + faults["crash"] \in Nat
      <4>1. faults["deadline"] \in Nat /\ faults["crash"] \in Nat
        BY <1>1 DEF FaultKinds
      <4>. QED  BY <4>1
    <3>4. r \in LateQuery
      BY <3>2, <3>3 DEF LateQuery
    <3>5. r.out # Nil => Genuine(r.job, r.out)
      BY <1>1, <3>2 DEF StepOrigin
    <3> HIDE DEF r
    <3>. QED  BY <1>1, <3>1, <3>4, <3>5 DEF LateOrigin
  <2>2. CASE step[w].at # "waiting"
    <3>1. late' = [late EXCEPT ![w] = @ \cup {}]
      BY <1>3, <2>2 DEF LeaveBehind
    <3>. QED  BY <1>1, <3>1 DEF LateOrigin
  <2>. QED  BY <2>1, <2>2
<1>4. ASSUME NEW w \in Workers, DeadlinePasses(w) \/ Crash(w)
      PROVE  late' \in [Workers -> SUBSET LateQuery] /\ LateOrigin'
  BY <1>3, <1>4 DEF DeadlinePasses, Crash
<1>5. ASSUME NEW w \in Workers, NEW r \in late[w], LateQueryHandled(w, r)
      PROVE  late' \in [Workers -> SUBSET LateQuery] /\ LateOrigin'
  BY <1>1, <1>5 DEF LateQueryHandled, LateOrigin
<1>6. ASSUME \/ CoordinatorNext
             \/ \E w \in Workers :
                  \/ CallNext(w) \/ Suspect(w)
                  \/ WorkerQueries(w) \/ QueryHandled(w) \/ Evaluated(w) \/ EvaluateFails(w)
                  \/ \E i \in 1 .. Len(updates[w]) : OnMemberUpdate(w, i)
             \/ UNCHANGED vars
      PROVE  UNCHANGED late
  BY <1>6 DEF CoordinatorNext, CallNext, SubmitJob, ProcessQueuedJob, JobLoaded, LoadFails,
       RescheduleJobs, FlushPendingJobs, FlushFails, BatchRepair, WorkerRepair, CoordinatorLeaves,
       SendInference, DeliverInference, CallReturns, CallFails, ResetRuns, Suspect, WorkerQueries,
       QueryHandled, Evaluated, EvaluateFails, OnMemberUpdate, vars
<1>. QED  BY <1>2, <1>4, <1>5, <1>6 DEF Next, QueryNext, MemberNext

-----------------------------------------------------------------------------
(* The way of a job from the client to the scheduler *)

(* A request may queue a job for its flush; it makes no job active. *)
LEMMA QueryDataSchedules ==
  ASSUME SchedulerTypeOK, NEW w, NEW j, NEW out, QueryData(w, j, out)
  PROVE  Scheduled' \subseteq Scheduled
<1>1. UNCHANGED <<active, completed>>
  BY DEF QueryData
<1>2. pending' = pending \/ (pending' = Append(pending, j) /\ j \in active)
  BY DEF QueryData, RecordOutput, Reports, Known
<1>3. j \in active => Range(Append(pending, j)) = Range(pending) \cup {j}
  BY RangeOfAppend DEF SchedulerTypeOK
<1>. QED  BY <1>1, <1>2, <1>3 DEF Scheduled

(* A job id is in one place on its way to the scheduler, and never returns.*)
LEMMA JobsStep ==
  ASSUME ClusterInv, [Next]_vars
  PROVE  /\ fresh' \subseteq Jobs /\ tasks' \in Seq(Jobs) /\ loading' \in Jobs \cup {Nil}
         /\ JobsApart'
<1> DEFINE Goal == /\ fresh' \subseteq Jobs /\ tasks' \in Seq(Jobs) /\ loading' \in Jobs \cup {Nil}
                   /\ JobsApart'
<1>1. /\ fresh \subseteq Jobs /\ tasks \in Seq(Jobs) /\ loading \in Jobs \cup {Nil}
      /\ JobsApart /\ SchedulerTypeOK
  BY DEF ClusterInv, TypeOK
<1>2. Scheduled \subseteq Jobs
  BY <1>1 DEF SchedulerTypeOK, Scheduled, Range
<1>3. ASSUME UNCHANGED <<fresh, tasks, loading>>, Scheduled' \subseteq Scheduled
      PROVE  Goal
  BY <1>1, <1>3 DEF JobsApart
<1>4. ASSUME NEW j \in Jobs, SubmitJob(j)
      PROVE  Goal
  <2>1. /\ j \in fresh /\ fresh' = fresh \ {j} /\ tasks' = Append(tasks, j)
        /\ loading' = loading /\ Scheduled' = Scheduled
    BY <1>4 DEF SubmitJob, schedulerVars, jobVars, Scheduled
  <2>2. Range(tasks') = Range(tasks) \cup {j}
    BY <1>1, <2>1, RangeOfAppend
  <2>3. j \notin Range(tasks) /\ j \notin Scheduled /\ j # loading
    BY <1>1, <2>1 DEF JobsApart
  <2>4. \A m, n \in 1 .. Len(tasks') : tasks'[m] = tasks'[n] => m = n
    <3>1. \A m \in 1 .. Len(tasks) : tasks[m] # j
      BY <1>1, <2>3 DEF Range
    <3>2. \A m, n \in 1 .. Len(tasks) : tasks[m] = tasks[n] => m = n
      BY <1>1 DEF JobsApart
    <3>3. /\ Len(tasks') = Len(tasks) + 1 /\ Len(tasks) \in Nat
          /\ \A m \in 1 .. Len(tasks) : tasks'[m] = tasks[m]
          /\ tasks'[Len(tasks) + 1] = j
      BY <1>1, <2>1
    <3>. QED  BY <3>1, <3>2, <3>3
  <2>5. tasks' \in Seq(Jobs)
    BY <1>1, <2>1, AppendProperties
  <2>6. /\ fresh' \cap (Range(tasks') \cup Scheduled') = {}
        /\ Range(tasks') \cap Scheduled' = {}
        /\ loading' \notin fresh' \cup Range(tasks') \cup Scheduled'
    BY <1>1, <2>1, <2>2, <2>3 DEF JobsApart
  <2>. QED  BY <1>1, <2>1, <2>4, <2>5, <2>6 DEF JobsApart
<1>5. CASE ProcessQueuedJob
  <2>1. /\ tasks # <<>> /\ loading' = Head(tasks) /\ tasks' = Tail(tasks)
        /\ fresh' = fresh /\ Scheduled' = Scheduled
    BY <1>5 DEF ProcessQueuedJob, schedulerVars, jobVars, Scheduled
  <2>2. Range(tasks) = {loading'} \cup Range(tasks') /\ loading' \in Jobs
    BY <1>1, <2>1, RangeOfTail
  <2>3. /\ tasks' \in Seq(Jobs) /\ Len(tasks') = Len(tasks) - 1
        /\ Len(tasks) \in Nat \ {0}
        /\ \A i \in 1 .. Len(tasks) - 1 : tasks'[i] = tasks[i + 1]
        /\ tasks[1] = loading'
        /\ DOMAIN tasks' = 1 .. Len(tasks')
    BY <1>1, <2>1
  <2>4. \A m, n \in 1 .. Len(tasks) : tasks[m] = tasks[n] => m = n
    BY <1>1 DEF JobsApart
  <2>5. \A m, n \in 1 .. Len(tasks') : tasks'[m] = tasks'[n] => m = n
    BY <2>3, <2>4
  <2>6. loading' \notin Range(tasks')
    <3>1. ASSUME NEW i \in 1 .. Len(tasks')
          PROVE  tasks'[i] # loading'
      BY <2>3, <2>4
    <3>. QED  BY <3>1, <2>3 DEF Range
  <2>7. /\ fresh' \cap (Range(tasks') \cup Scheduled') = {}
        /\ Range(tasks') \cap Scheduled' = {}
        /\ loading' \notin fresh' \cup Range(tasks') \cup Scheduled'
    BY <1>1, <2>1, <2>2, <2>6 DEF JobsApart
  <2>. QED  BY <1>1, <2>1, <2>2, <2>3, <2>5, <2>7 DEF JobsApart
<1>6. CASE JobLoaded
  <2>1. /\ loading # Nil /\ loading' = Nil /\ UNCHANGED <<fresh, tasks>>
        /\ Scheduled' = Scheduled \cup {loading}
    BY <1>6 DEF JobLoaded, AddJob, Scheduled
  <2>2. Nil \notin fresh \cup Range(tasks) \cup Scheduled \cup {loading}
    BY <1>1, <1>2, <2>1, NilAssumption DEF Range
  <2>. QED  BY <1>1, <2>1, <2>2 DEF JobsApart
<1>7. CASE LoadFails
  <2>1. loading' = Nil /\ UNCHANGED <<fresh, tasks>> /\ Scheduled' = Scheduled
    BY <1>7 DEF LoadFails, schedulerVars, jobVars, Scheduled
  <2>2. Nil \notin fresh \cup Range(tasks) \cup Scheduled
    BY <1>1, <1>2, NilAssumption DEF Range
  <2>. QED  BY <1>1, <2>1, <2>2 DEF JobsApart
<1>8. CASE FlushPendingJobs \/ FlushFails
  <2>1. /\ UNCHANGED <<fresh, tasks, loading>> /\ active' \subseteq active
        /\ pending # <<>>
        /\ \/ UNCHANGED <<pending, completed>>
           \/ pending' = Tail(pending) /\ completed' = completed \cup {Head(pending)}
    BY <1>8 DEF FlushPendingJobs, FlushFails, FinishJob
  <2>2. Range(pending) = {Head(pending)} \cup Range(Tail(pending))
    BY <1>1, <2>1, RangeOfTail DEF SchedulerTypeOK
  <2>3. Scheduled' \subseteq Scheduled
    BY <2>1, <2>2 DEF Scheduled
  <2>. QED  BY <1>3, <2>1, <2>3
<1>9. ASSUME NEW w \in Workers,
             QueryHandled(w) \/ \E r \in late[w] : LateQueryHandled(w, r)
      PROVE  Goal
  <2>1. UNCHANGED <<fresh, tasks, loading>> /\ \E j, out : QueryData(w, j, out)
    BY <1>9 DEF QueryHandled, LateQueryHandled
  <2>2. Scheduled' \subseteq Scheduled
    BY <1>1, <2>1, QueryDataSchedules
  <2>. QED  BY <1>3, <2>1, <2>2
<1>10. ASSUME \/ RescheduleJobs \/ BatchRepair \/ WorkerRepair \/ CoordinatorLeaves
              \/ \E w \in Workers :
                   \/ \E i \in 1 .. Len(updates[w]) : OnMemberUpdate(w, i)
                   \/ CallNext(w) \/ Suspect(w) \/ Crash(w)
                   \/ WorkerQueries(w) \/ Evaluated(w) \/ EvaluateFails(w) \/ DeadlinePasses(w)
              \/ UNCHANGED vars
       PROVE  /\ UNCHANGED <<fresh, tasks, loading>>
              /\ UNCHANGED <<completed, pending>> /\ active' \subseteq active
  BY <1>10 DEF RescheduleJobs, RefreshSchedule, BatchRepair, RefreshBatchStatus, WorkerRepair,
       RefreshWorkerStatus, CoordinatorLeaves, OnWorkerLeaved, OnMemberUpdate, OnWorkerJoined,
       OnWorkerFailed, CallNext, SendInference, DeliverInference, CallReturns, CallFails,
       ResetRuns, Suspect, Crash, WorkerQueries, Evaluated, EvaluateFails, DeadlinePasses, vars, schedulerVars, jobVars
<1>11. ASSUME UNCHANGED <<completed, pending>>, active' \subseteq active
       PROVE  Scheduled' \subseteq Scheduled
  BY <1>11 DEF Scheduled
<1>. QED
  BY <1>3, <1>4, <1>5, <1>6, <1>7, <1>8, <1>9, <1>10, <1>11
  DEF Next, CoordinatorNext, QueryNext, MemberNext

-----------------------------------------------------------------------------
(* The result files *)

(* Every action but a flush leaves the result files and CompletedJobs      *)
(* alone, and a flush stores the output of every batch.                    *)
LEMMA FilesStep ==
  ASSUME ClusterInv, [Next]_vars
  PROVE  /\ DOMAIN file' = Jobs /\ \A j \in Jobs : file'[j] \subseteq BatchesOf(j)
         /\ ResultsComplete'
<1> DEFINE first == Head(pending)
<1>1. /\ DOMAIN file = Jobs /\ \A j \in Jobs : file[j] \subseteq BatchesOf(j)
      /\ ResultsComplete /\ SchedulerTypeOK /\ FinishedIsAnswered
  BY DEF ClusterInv, TypeOK, SchedulerInv
<1>2. CASE UNCHANGED <<file, completed>>
  BY <1>1, <1>2 DEF ResultsComplete
<1>3. ASSUME pending # <<>>
      PROVE  first \in Jobs /\ Answered(first) = BatchesOf(first)
  <2>1. pending \in Seq(Jobs)
    BY <1>1 DEF SchedulerTypeOK
  <2>2. first \in Jobs /\ first \in Range(pending)
    BY <1>3, <2>1, RangeOfTail
  <2>. QED  BY <1>1, <2>2 DEF FinishedIsAnswered, Answered
<1>4. CASE FlushPendingJobs
  <2>1. /\ pending # <<>> /\ file' = [file EXCEPT ![first] = Answered(first)]
        /\ completed' = completed \cup {first}
    BY <1>4 DEF FlushPendingJobs
  <2>2. first \in Jobs /\ file' = [file EXCEPT ![first] = BatchesOf(first)]
    BY <1>3, <2>1
  <2> HIDE DEF first
  <2>3. DOMAIN file' = Jobs
    BY <1>1, <2>2
  <2>4. \A j \in Jobs : file'[j] = IF j = first THEN BatchesOf(j) ELSE file[j]
    BY <1>1, <2>2
  <2>. QED  BY <1>1, <2>1, <2>3, <2>4 DEF ResultsComplete
<1>5. CASE FlushFails
  <2>1. /\ pending # <<>> /\ file' \in {file, [file EXCEPT ![first] = Answered(first)]}
        /\ completed' = completed
    BY <1>5 DEF FlushFails
  <2>2. first \in Jobs /\ (file' = file \/ file' = [file EXCEPT ![first] = BatchesOf(first)])
    BY <1>3, <2>1
  <2> HIDE DEF first
  <2>3. DOMAIN file' = Jobs
    BY <1>1, <2>2
  <2>4. \A j \in Jobs : file'[j] \in {BatchesOf(j), file[j]}
    BY <1>1, <2>2
  <2>. QED  BY <1>1, <2>1, <2>3, <2>4 DEF ResultsComplete
<1>6. ASSUME \/ \E j \in Jobs : SubmitJob(j)
             \/ ProcessQueuedJob \/ JobLoaded \/ LoadFails \/ RescheduleJobs
             \/ BatchRepair \/ WorkerRepair \/ CoordinatorLeaves
             \/ \E w \in Workers : CallNext(w) \/ QueryNext(w) \/ MemberNext(w)
             \/ UNCHANGED vars
      PROVE  UNCHANGED file
  BY <1>6 DEF SubmitJob, ProcessQueuedJob, JobLoaded, LoadFails, RescheduleJobs, BatchRepair,
       WorkerRepair, CoordinatorLeaves, CallNext, SendInference, DeliverInference, CallReturns,
       CallFails, ResetRuns, QueryNext, WorkerQueries, QueryHandled, DeadlinePasses, Evaluated,
       EvaluateFails, LateQueryHandled, MemberNext, OnMemberUpdate, Crash, Suspect, vars
<1>7. ASSUME \/ \E j \in Jobs : SubmitJob(j)
             \/ ProcessQueuedJob \/ JobLoaded \/ LoadFails \/ RescheduleJobs
             \/ BatchRepair \/ WorkerRepair \/ CoordinatorLeaves
             \/ UNCHANGED vars
      PROVE  UNCHANGED completed
  BY <1>7 DEF SubmitJob, ProcessQueuedJob, JobLoaded, AddJob, LoadFails, RescheduleJobs,
       RefreshSchedule, BatchRepair, RefreshBatchStatus, WorkerRepair, RefreshWorkerStatus,
       CoordinatorLeaves, OnWorkerLeaved, vars, schedulerVars, jobVars
<1>8. ASSUME NEW w \in Workers, CallNext(w) \/ MemberNext(w)
      PROVE  UNCHANGED completed
  BY <1>8 DEF CallNext, SendInference, DeliverInference, CallReturns, CallFails, ResetRuns,
       MemberNext, OnMemberUpdate, OnWorkerJoined, OnWorkerFailed, Crash, Suspect,
       schedulerVars, jobVars
<1>9. ASSUME NEW w \in Workers, QueryNext(w)
      PROVE  UNCHANGED completed
  <2>1. \A j, out : QueryData(w, j, out) => UNCHANGED completed
    BY DEF QueryData
  <2>. QED  BY <1>9, <2>1 DEF QueryNext, WorkerQueries, QueryHandled, DeadlinePasses, Evaluated,
              EvaluateFails, LateQueryHandled, schedulerVars, jobVars
<1>. QED  BY <1>2, <1>4, <1>5, <1>6, <1>7, <1>8, <1>9 DEF Next, CoordinatorNext

-----------------------------------------------------------------------------
(* Calls, callbacks, resets and fault counters *)

(* A call in flight always names a job. *)
LEMMA CallsStep ==
  ASSUME ClusterInv, [Next]_vars
  PROVE  calls' \in [Workers -> [Slots -> Call \cup {NoCall}]]
<1> DEFINE Goal == calls' \in [Workers -> [Slots -> Call \cup {NoCall}]]
<1>1. calls \in [Workers -> [Slots -> Call \cup {NoCall}]] /\ SchedulerTypeOK
  BY DEF ClusterInv, TypeOK
<1>2. CASE UNCHANGED calls
  BY <1>1, <1>2
<1>3. ASSUME NEW w \in Workers, NEW s \in Slots, NEW c \in Call \cup {NoCall},
             calls' = [calls EXCEPT ![w][s] = c]
      PROVE  Goal
  BY <1>1, <1>3
<1>4. CASE RescheduleJobs
  <2>1. PICK schedule \in [Workers -> active \cup {Nil}] :
          /\ \A w \in Workers : schedule[w] # Nil => FreeSlot(w) # {}
          /\ calls' = [w \in Workers |->
                      IF schedule[w] = Nil THEN calls[w]
                      ELSE [calls[w] EXCEPT ![FirstFree(w)] =
                              [stage |-> "dialed", job |-> schedule[w], known |-> TRUE]]]
    BY <1>4 DEF RescheduleJobs
  <2>2. \A w \in Workers : schedule[w] # Nil => schedule[w] \in Jobs
    BY <1>1 DEF SchedulerTypeOK
  <2>3. \A w \in Workers : schedule[w] # Nil =>
          [stage |-> "dialed", job |-> schedule[w], known |-> TRUE] \in Call
    BY <2>2 DEF Call
  <2>. QED  BY <1>1, <2>1, <2>3
<1>5. ASSUME NEW w \in Workers, NEW s \in Slots,
             SendInference(w, s) \/ DeliverInference(w, s)
      PROVE  Goal
  <2>1. PICK st \in {"sent", "accepted"} : calls' = [calls EXCEPT ![w][s].stage = st]
    BY <1>5 DEF SendInference, DeliverInference
  <2>2. calls[w][s] \in Call
    BY <1>1, <1>5 DEF SendInference, DeliverInference, NoCall
  <2>3. [calls[w][s] EXCEPT !.stage = st] \in Call
    BY <2>2 DEF Call
  <2>. QED  BY <1>1, <2>1, <2>3
<1>6. ASSUME NEW w \in Workers, NEW s \in Slots, CallReturns(w, s) \/ CallFails(w, s)
      PROVE  Goal
  BY <1>3, <1>6 DEF CallReturns, CallFails
<1>7. ASSUME NEW S, Detach(S)
      PROVE  Goal
  <2>1. \A c \in Call : [c EXCEPT !.known = FALSE] \in Call
    BY DEF Call
  <2>. QED  BY <1>1, <1>7, <2>1 DEF Detach
<1>8. ASSUME NEW w \in Workers, Crash(w)
      PROVE  Goal
  BY <1>1, <1>8 DEF Crash
<1>9. ASSUME \/ CoordinatorLeaves
             \/ \E w \in Workers : \E i \in 1 .. Len(updates[w]) : OnMemberUpdate(w, i)
      PROVE  Goal
  BY <1>7, <1>9 DEF CoordinatorLeaves, OnMemberUpdate
<1>10. ASSUME \/ \E j \in Jobs : SubmitJob(j)
              \/ ProcessQueuedJob \/ JobLoaded \/ LoadFails \/ FlushPendingJobs \/ FlushFails
              \/ BatchRepair \/ WorkerRepair
              \/ \E w \in Workers : QueryNext(w) \/ Suspect(w) \/ ResetRuns(w)
              \/ UNCHANGED vars
       PROVE  UNCHANGED calls
  BY <1>10 DEF SubmitJob, ProcessQueuedJob, JobLoaded, LoadFails, FlushPendingJobs, FlushFails,
       BatchRepair, WorkerRepair, QueryNext, WorkerQueries, QueryHandled, DeadlinePasses,
       Evaluated, EvaluateFails, LateQueryHandled, Suspect, ResetRuns, vars
<1>. QED
  BY <1>2, <1>4, <1>5, <1>6, <1>8, <1>9, <1>10
  DEF Next, CoordinatorNext, CallNext, MemberNext

(* The callbacks about one address form a sequence, from which any may run.*)
LEMMA UpdatesStep ==
  ASSUME ClusterInv, [Next]_vars
  PROVE  updates' \in [Workers -> Seq({"INSERT", "DELETE"})]
<1> DEFINE Action == {"INSERT", "DELETE"}
<1>1. updates \in [Workers -> Seq(Action)]
  BY DEF ClusterInv, TypeOK
<1>2. CASE UNCHANGED updates
  BY <1>1, <1>2
<1>3. ASSUME NEW w \in Workers, NEW u \in Seq(Action), updates' = [updates EXCEPT ![w] = u]
      PROVE  updates' \in [Workers -> Seq(Action)]
  BY <1>1, <1>3
<1>4. ASSUME NEW w \in Workers, NEW i \in 1 .. Len(updates[w]), OnMemberUpdate(w, i)
      PROVE  updates' \in [Workers -> Seq(Action)]
  <2> DEFINE u == SubSeq(updates[w], 1, i - 1) \o SubSeq(updates[w], i + 1, Len(updates[w]))
  <2>1. updates' = [updates EXCEPT ![w] = u]
    BY <1>4 DEF OnMemberUpdate
  <2>2. updates[w] \in Seq(Action) /\ Len(updates[w]) \in Nat
    BY <1>1
  <2>3. \A m, n \in Int : 1 <= m /\ n <= Len(updates[w])
          => SubSeq(updates[w], m, n) \in Seq(Action)
    BY <2>2
  <2>4. u \in Seq(Action)
    BY <2>2, <2>3, ConcatProperties
  <2> HIDE DEF u
  <2>. QED  BY <1>3, <2>1, <2>4
<1>5. ASSUME NEW w \in Workers, Crash(w) \/ Suspect(w)
      PROVE  updates' \in [Workers -> Seq(Action)]
  <2>1. updates' = [updates EXCEPT ![w] = updates[w] \o <<"DELETE", "INSERT">>]
    BY <1>5 DEF Crash, Suspect
  <2>2. updates[w] \o <<"DELETE", "INSERT">> \in Seq(Action)
    BY <1>1, ConcatProperties
  <2>. QED  BY <1>3, <2>1, <2>2
<1>6. CASE CoordinatorLeaves
  BY <1>1, <1>6, AppendProperties DEF CoordinatorLeaves
<1>7. ASSUME \/ \E j \in Jobs : SubmitJob(j)
             \/ ProcessQueuedJob \/ JobLoaded \/ LoadFails \/ FlushPendingJobs \/ FlushFails
             \/ RescheduleJobs \/ BatchRepair \/ WorkerRepair
             \/ \E w \in Workers : QueryNext(w) \/ CallNext(w)
             \/ UNCHANGED vars
      PROVE  UNCHANGED updates
  BY <1>7 DEF SubmitJob, ProcessQueuedJob, JobLoaded, LoadFails, FlushPendingJobs, FlushFails,
       RescheduleJobs, BatchRepair, WorkerRepair, QueryNext, WorkerQueries, QueryHandled,
       DeadlinePasses, Evaluated, EvaluateFails, LateQueryHandled, CallNext, SendInference,
       DeliverInference, CallReturns, CallFails, ResetRuns, vars
<1>. QED
  BY <1>2, <1>4, <1>5, <1>6, <1>7 DEF Next, CoordinatorNext, MemberNext

(* Resets are due only for workers of the ResourceManager. *)
LEMMA ResetsStep ==
  ASSUME ClusterInv, [Next]_vars
  PROVE  resets' \subseteq Workers
<1>1. resets \subseteq Workers /\ members \subseteq Workers
  BY DEF ClusterInv, TypeOK, SchedulerTypeOK
<1>2. CASE FlushPendingJobs \/ FlushFails
  BY <1>1, <1>2 DEF FlushPendingJobs, FlushFails, FinishJob, GetWorkersById
<1>3. ASSUME \/ CoordinatorLeaves
             \/ \E w \in Workers : \/ ResetRuns(w)
                                   \/ \E i \in 1 .. Len(updates[w]) : OnMemberUpdate(w, i)
      PROVE  resets' \subseteq resets
  BY <1>3 DEF CoordinatorLeaves, ResetRuns, OnMemberUpdate, Detach
<1>4. ASSUME \/ \E j \in Jobs : SubmitJob(j)
             \/ ProcessQueuedJob \/ JobLoaded \/ LoadFails
             \/ RescheduleJobs \/ BatchRepair \/ WorkerRepair
             \/ \E w \in Workers :
                  \/ QueryNext(w) \/ Crash(w) \/ Suspect(w)
                  \/ \E s \in Slots : \/ SendInference(w, s) \/ DeliverInference(w, s)
                                      \/ CallReturns(w, s) \/ CallFails(w, s)
             \/ UNCHANGED vars
      PROVE  UNCHANGED resets
  BY <1>4 DEF SubmitJob, ProcessQueuedJob, JobLoaded, LoadFails, RescheduleJobs, BatchRepair,
       WorkerRepair, QueryNext, WorkerQueries, QueryHandled, DeadlinePasses, Evaluated,
       EvaluateFails, LateQueryHandled, Crash, Suspect, SendInference, DeliverInference,
       CallReturns, CallFails, vars
<1>. QED
  BY <1>1, <1>2, <1>3, <1>4 DEF Next, CoordinatorNext, CallNext, MemberNext

(* Faults are only ever counted up. *)
LEMMA FaultsStep ==
  ASSUME ClusterInv, [Next]_vars
  PROVE  faults' \in [FaultKinds -> Nat]
<1>1. faults \in [FaultKinds -> Nat]
  BY DEF ClusterInv, TypeOK
<1>2. CASE UNCHANGED faults
  BY <1>1, <1>2
<1>3. ASSUME NEW k \in FaultKinds, Fault(k)
      PROVE  faults' \in [FaultKinds -> Nat]
  BY <1>1, <1>3 DEF Fault
<1>4. ASSUME \/ LoadFails \/ FlushFails \/ CoordinatorLeaves
             \/ \E w \in Workers :
                  \/ DeadlinePasses(w) \/ EvaluateFails(w) \/ Crash(w) \/ Suspect(w)
                  \/ \E s \in Slots : CallFails(w, s)
      PROVE  \E k \in FaultKinds : Fault(k)
  BY <1>4 DEF LoadFails, FlushFails, CoordinatorLeaves, DeadlinePasses, EvaluateFails, Crash,
       Suspect, CallFails, FaultKinds
<1>5. CASE FlushPendingJobs
  <2>1. UNCHANGED faults \/ Fault("call")
    BY <1>5 DEF FlushPendingJobs
  <2>. QED  BY <1>2, <1>3, <2>1 DEF FaultKinds
<1>6. ASSUME \/ \E j \in Jobs : SubmitJob(j)
             \/ ProcessQueuedJob \/ JobLoaded
             \/ RescheduleJobs \/ BatchRepair \/ WorkerRepair
             \/ \E w \in Workers :
                  \/ WorkerQueries(w) \/ QueryHandled(w) \/ Evaluated(w) \/ ResetRuns(w)
                  \/ \E r \in late[w] : LateQueryHandled(w, r)
                  \/ \E s \in Slots : SendInference(w, s) \/ DeliverInference(w, s) \/ CallReturns(w, s)
                  \/ \E i \in 1 .. Len(updates[w]) : OnMemberUpdate(w, i)
             \/ UNCHANGED vars
      PROVE  UNCHANGED faults
  BY <1>6 DEF SubmitJob, ProcessQueuedJob, JobLoaded, RescheduleJobs, BatchRepair, WorkerRepair,
       WorkerQueries, QueryHandled, Evaluated, ResetRuns, LateQueryHandled, SendInference,
       DeliverInference, CallReturns, OnMemberUpdate, vars
<1>. QED
  BY <1>2, <1>3, <1>4, <1>5, <1>6
  DEF Next, CoordinatorNext, CallNext, QueryNext, MemberNext

-----------------------------------------------------------------------------
(* The invariant *)

(* A cluster that has just started satisfies the invariant. *)
LEMMA InitInv == Init => ClusterInv
<1> SUFFICES ASSUME Init PROVE ClusterInv
  OBVIOUS
<1>1. SchedulerInv
  BY NewSchedulerInv DEF Init
<1>2. SchedulerTypeOK
  BY <1>1 DEF SchedulerInv
<1>3. WorkerInv
  BY ReadyIsAStep DEF Init, NewWorkers, WorkerInv, WorkerTypeOK, ResultOrigin, StepOrigin
<1>4. WorkerTypeOK
  BY <1>3 DEF WorkerInv
<1>5. /\ fresh \subseteq Jobs /\ tasks \in Seq(Jobs) /\ loading \in Jobs \cup {Nil}
      /\ DOMAIN file = Jobs /\ \A j \in Jobs : file[j] \subseteq BatchesOf(j)
  BY DEF Init
<1>6. /\ calls \in [Workers -> [Slots -> Call \cup {NoCall}]]
      /\ late \in [Workers -> SUBSET LateQuery] /\ LateOrigin
  BY DEF Init, LateOrigin
<1>7. updates \in [Workers -> Seq({"INSERT", "DELETE"})]
  BY DEF Init
<1>8. resets \subseteq Workers /\ faults \in [FaultKinds -> Nat]
  BY DEF Init
<1>9. TypeOK
  BY <1>2, <1>4, <1>5, <1>6, <1>7, <1>8 DEF TypeOK
<1>10. JobsApart
  <2>1. Range(tasks) = {} /\ Len(tasks) = 0 /\ Scheduled = {}
    BY DEF Init, NewScheduler, Range, Scheduled
  <2>2. loading \notin fresh
    BY NilAssumption DEF Init
  <2>. QED  BY <2>1, <2>2 DEF JobsApart
<1>11. ResultsComplete
  BY DEF Init, NewScheduler, ResultsComplete
<1>. QED  BY <1>1, <1>3, <1>6, <1>9, <1>10, <1>11 DEF ClusterInv

(* Every step preserves the invariant. *)
LEMMA StepInv == ClusterInv /\ [Next]_vars => ClusterInv'
<1> SUFFICES ASSUME ClusterInv, [Next]_vars PROVE ClusterInv'
  OBVIOUS
<1>1. SchedulerInv' /\ WorkerInv'
  BY SchedulerStep, WorkerStep
<1>2. SchedulerTypeOK' /\ WorkerTypeOK'
  BY <1>1 DEF SchedulerInv, WorkerInv
<1>3. /\ fresh' \subseteq Jobs /\ tasks' \in Seq(Jobs) /\ loading' \in Jobs \cup {Nil}
      /\ JobsApart'
  BY JobsStep
<1>4. /\ DOMAIN file' = Jobs /\ \A j \in Jobs : file'[j] \subseteq BatchesOf(j)
      /\ ResultsComplete'
  BY FilesStep
<1>5. late' \in [Workers -> SUBSET LateQuery] /\ LateOrigin'
  BY LateStep
<1>6. TypeOK'
  BY <1>2, <1>3, <1>4, <1>5, CallsStep, UpdatesStep, ResetsStep, FaultsStep DEF TypeOK
<1>. QED  BY <1>1, <1>3, <1>4, <1>5, <1>6 DEF ClusterInv

(* ClusterInv holds in every reachable state of the coordinator and its    *)
(* workers: it is what the theorems below are read off from.               *)
THEOREM Inductive == Spec => []ClusterInv
BY InitInv, StepInv, PTL DEF Spec

(* No handler, callback or goroutine takes a variable out of its type:     *)
(* batches handed out exist, calls in flight name jobs.                    *)
THEOREM TypeCorrect == Spec => []TypeOK
<1>1. ClusterInv => TypeOK
  BY DEF ClusterInv
<1>. QED  BY <1>1, Inductive, PTL

(* OnReceiveBatchOutput files every output under the batch it was computed *)
(* from, for any number of workers that change jobs, crash or answer late. *)
THEOREM Provenance == Spec => []OutputProvenance
<1>1. ClusterInv => OutputProvenance
  BY DEF ClusterInv, SchedulerInv
<1>. QED  BY <1>1, Inductive, PTL

(* A result file that FlushPendingJobs wrote, and the file of every job in *)
(* CompletedJobs, holds the output of each batch.                          *)
THEOREM Completeness == Spec => []ResultsComplete
<1>1. ClusterInv => ResultsComplete
  BY DEF ClusterInv
<1>. QED  BY <1>1, Inductive, PTL

(* PendingJobs has no duplicates, and what was flushed never comes back.   *)
THEOREM NoSecondFlush == Spec => []FlushedOnce
<1>1. ClusterInv => FlushedOnce
  BY DEF ClusterInv, SchedulerInv
<1>. QED  BY <1>1, Inductive, PTL

-----------------------------------------------------------------------------
(* Workers that are never sent two jobs at once *)

(* A call in flight to a worker is in one of its slots. *)
LEMMA CallsOfType ==
  ASSUME TypeOK, NEW w \in Workers, NEW c \in CallsOf(w)
  PROVE  c \in Call /\ \E s \in Slots : c = calls[w][s]
<1>1. calls[w] \in [Slots -> Call \cup {NoCall}]
  BY DEF TypeOK
<1>. QED  BY <1>1 DEF CallsOf

(* The same after a step. *)
LEMMA CallsOfBecomes ==
  ASSUME TypeOK', NEW w \in Workers, NEW c \in CallsOf(w)'
  PROVE  c \in Call /\ c # NoCall /\ \E s \in Slots : c = calls'[w][s]
<1>1. calls'[w] \in [Slots -> Call \cup {NoCall}]
  BY DEF TypeOK
<1>. QED  BY <1>1 DEF CallsOf

(* With one job, or one call at a time, the calls to a worker are for one  *)
(* job.                                                                    *)
LEMMA OneJobCalled ==
  ASSUME TypeOK, Orderly, NEW w \in Workers, NEW c \in CallsOf(w), NEW d \in CallsOf(w)
  PROVE  c.job = d.job
<1>1. /\ c \in Call /\ \E s \in Slots : c = calls[w][s]
      /\ d \in Call /\ \E s \in Slots : d = calls[w][s]
  BY CallsOfType
<1>2. c.job \in Jobs /\ d.job \in Jobs
  BY <1>1 DEF Call
<1>3. CASE \A i, j \in Jobs : i = j
  BY <1>2, <1>3
<1>4. CASE MaxCalls = 1
  <2>1. \A s \in Slots : s = 1
    BY <1>4 DEF Slots
  <2>. QED  BY <1>1, <2>1
<1>. QED  BY <1>3, <1>4 DEF Orderly

(* The same after a step. *)
LEMMA OneJobCalledNext ==
  ASSUME TypeOK', Orderly, NEW w \in Workers, NEW c \in CallsOf(w)', NEW d \in CallsOf(w)'
  PROVE  c.job = d.job
<1>1. /\ c \in Call /\ \E s \in Slots : c = calls'[w][s]
      /\ d \in Call /\ \E s \in Slots : d = calls'[w][s]
  BY CallsOfBecomes
<1>2. c.job \in Jobs /\ d.job \in Jobs
  BY <1>1 DEF Call
<1>3. CASE \A i, j \in Jobs : i = j
  BY <1>2, <1>3
<1>4. CASE MaxCalls = 1
  <2>1. \A s \in Slots : s = 1
    BY <1>4 DEF Slots
  <2>. QED  BY <1>1, <2>1
<1>. QED  BY <1>3, <1>4 DEF Orderly

(* RescheduleJobs calls idle workers, and those it has just released. *)
LEMMA ScheduledIsIdle ==
  ASSUME SchedulerTypeOK, NEW mode, NEW released \in SUBSET Busy,
         NEW schedule \in [Workers -> active \cup {Nil}],
         Plan(mode, released, schedule), RefreshSchedule(released),
         NEW w \in Workers, schedule[w] # Nil
  PROVE  assigned'[w] = Nil
<1>1. ~SharesUndefined(mode)
  BY DEF Plan
<1>2. w \in Idle(released)
  BY <1>1 DEF Plan, FillsDeficits
<1>3. assigned'[w] = IF w \in released THEN Nil ELSE assigned[w]
  BY DEF RefreshSchedule, Reset
<1>. QED  BY <1>2, <1>3 DEF Idle, GetIdleWorkers

(* A call in flight after a step was there before it, or RescheduleJobs    *)
(* has just started it, for an active job and to an idle worker.           *)
LEMMA CallsEvolve ==
  ASSUME ClusterInv, TypeOK', [Next]_vars, NEW w \in Workers, NEW c \in CallsOf(w)'
  PROVE  \/ \E d \in CallsOf(w) :
              /\ c.job = d.job /\ (c.known => d.known)
              /\ c.stage = "accepted" => d.stage = "accepted" \/ serving'[w] = c.job
         \/ c.job \in active /\ c.stage = "dialed" /\ assigned'[w] = Nil
<1> DEFINE Before == \E d \in CallsOf(w) :
                       /\ c.job = d.job /\ (c.known => d.known)
                       /\ c.stage = "accepted" => d.stage = "accepted" \/ serving'[w] = c.job
<1>1. calls \in [Workers -> [Slots -> Call \cup {NoCall}]] /\ SchedulerTypeOK /\ WorkerTypeOK
  BY DEF ClusterInv, TypeOK
<1>2. PICK s \in Slots : c = calls'[w][s] /\ c # NoCall /\ c \in Call
  BY CallsOfBecomes
<1>3. ASSUME calls[w][s] # NoCall, c.job = calls[w][s].job, c.known => calls[w][s].known,
             c.stage = "accepted" => calls[w][s].stage = "accepted" \/ serving'[w] = c.job
      PROVE  Before
  BY <1>3 DEF CallsOf
<1>4. ASSUME calls'[w][s] = calls[w][s]
      PROVE  Before
  BY <1>2, <1>3, <1>4
<1>5. CASE RescheduleJobs
  <2>1. PICK mode \in Modes, released \in SUBSET Busy, schedule \in [Workers -> active \cup {Nil}] :
          /\ Plan(mode, released, schedule)
          /\ RefreshSchedule(released)
          /\ calls' = [v \in Workers |->
                      IF schedule[v] = Nil THEN calls[v]
                      ELSE [calls[v] EXCEPT ![FirstFree(v)] =
                              [stage |-> "dialed", job |-> schedule[v], known |-> TRUE]]]
    BY <1>5 DEF RescheduleJobs
  <2>2. CASE calls'[w][s] # calls[w][s]
    <3>1. /\ schedule[w] # Nil
          /\ c = [stage |-> "dialed", job |-> schedule[w], known |-> TRUE]
      BY <1>1, <1>2, <2>1, <2>2
    <3>2. assigned'[w] = Nil
      BY <1>1, <2>1, <3>1, ScheduledIsIdle
    <3>. QED  BY <3>1, <3>2
  <2>. QED  BY <1>4, <2>2
<1>6. ASSUME NEW v \in Workers, NEW t \in Slots, SendInference(v, t)
      PROVE  Before
  <2>1. calls[v][t] \in Call /\ calls' = [calls EXCEPT ![v][t].stage = "sent"]
    BY <1>1, <1>6 DEF SendInference, NoCall
  <2>2. CASE v = w /\ t = s
    <3>1. c = [calls[w][s] EXCEPT !.stage = "sent"]
      BY <1>1, <1>2, <2>1, <2>2
    <3>2. c.stage = "sent" /\ c.job = calls[w][s].job /\ c.known = calls[w][s].known
      BY <2>1, <2>2, <3>1 DEF Call
    <3>3. calls[w][s] # NoCall
      BY <1>6, <2>2 DEF SendInference, NoCall
    <3>. QED  BY <1>3, <3>2, <3>3
  <2>3. CASE ~(v = w /\ t = s)
    BY <1>1, <1>4, <2>1, <2>3
  <2>. QED  BY <2>2, <2>3
<1>7. ASSUME NEW v \in Workers, NEW t \in Slots, DeliverInference(v, t)
      PROVE  Before
  <2>1. /\ calls[v][t] \in Call /\ calls' = [calls EXCEPT ![v][t].stage = "accepted"]
        /\ serving' = [serving EXCEPT ![v] = calls[v][t].job]
    BY <1>1, <1>7 DEF DeliverInference, Inference, NoCall
  <2>2. CASE v = w /\ t = s
    <3>1. c = [calls[w][s] EXCEPT !.stage = "accepted"] /\ calls[w][s] # NoCall
      BY <1>1, <1>2, <1>7, <2>1, <2>2 DEF DeliverInference, NoCall
    <3>2. c.job = calls[w][s].job /\ c.known = calls[w][s].known
      BY <2>1, <2>2, <3>1 DEF Call
    <3>3. serving'[w] = c.job
      BY <1>1, <2>1, <2>2, <3>2 DEF WorkerTypeOK
    <3>. QED  BY <1>3, <3>1, <3>2, <3>3
  <2>3. CASE ~(v = w /\ t = s)
    BY <1>1, <1>4, <2>1, <2>3
  <2>. QED  BY <2>2, <2>3
<1>8. ASSUME NEW v \in Workers, NEW t \in Slots, CallReturns(v, t) \/ CallFails(v, t)
      PROVE  Before
  <2>1. calls' = [calls EXCEPT ![v][t] = NoCall]
    BY <1>8 DEF CallReturns, CallFails
  <2>2. calls'[w][s] = calls[w][s]
    BY <1>1, <1>2, <2>1
  <2>. QED  BY <1>4, <2>2
<1>9. ASSUME NEW S, Detach(S)
      PROVE  Before
  <2>1. CASE calls'[w][s] # calls[w][s]
    <3>1. calls[w][s] # NoCall /\ c = [calls[w][s] EXCEPT !.known = FALSE]
      BY <1>2, <1>9, <2>1 DEF Detach
    <3>2. calls[w][s] \in Call
      BY <1>1, <3>1
    <3>3. ~c.known /\ c.job = calls[w][s].job /\ c.stage = calls[w][s].stage
      BY <3>1, <3>2 DEF Call
    <3>. QED  BY <1>3, <3>1, <3>3
  <2>. QED  BY <1>4, <2>1
<1>10. ASSUME NEW v \in Workers, Crash(v)
       PROVE  Before
  <2>1. calls' = [calls EXCEPT ![v] = [t \in Slots |->
                 IF calls[v][t].stage = "sent" THEN NoCall ELSE calls[v][t]]]
    BY <1>10 DEF Crash
  <2>2. calls'[w][s] = calls[w][s]
    BY <1>1, <1>2, <2>1
  <2>. QED  BY <1>4, <2>2
<1>11. ASSUME \/ CoordinatorLeaves
              \/ \E v \in Workers : \E i \in 1 .. Len(updates[v]) : OnMemberUpdate(v, i)
       PROVE  Before
  BY <1>9, <1>11 DEF CoordinatorLeaves, OnMemberUpdate
<1>12. ASSUME \/ \E j \in Jobs : SubmitJob(j)
              \/ ProcessQueuedJob \/ JobLoaded \/ LoadFails \/ FlushPendingJobs \/ FlushFails
              \/ BatchRepair \/ WorkerRepair
              \/ \E v \in Workers : QueryNext(v) \/ Suspect(v) \/ ResetRuns(v)
              \/ UNCHANGED vars
       PROVE  UNCHANGED calls
  BY <1>12 DEF SubmitJob, ProcessQueuedJob, JobLoaded, LoadFails, FlushPendingJobs, FlushFails,
       BatchRepair, WorkerRepair, QueryNext, WorkerQueries, QueryHandled, DeadlinePasses,
       Evaluated, EvaluateFails, LateQueryHandled, Suspect, ResetRuns, vars
<1>. QED
  BY <1>4, <1>5, <1>6, <1>7, <1>8, <1>10, <1>11, <1>12
  DEF Next, CoordinatorNext, CallNext, MemberNext

(* What a step makes of a worker in the ResourceManager: it is reset or    *)
(* gets no batch, it is left alone, its call returns, or it gets a batch   *)
(* of the job it is assigned to.                                           *)
LEMMA WorkerEvolves ==
  ASSUME ClusterInv, [Next]_vars, NEW w \in Workers
  PROVE  \/ holds'[w] = Nil /\ assigned'[w] \in {assigned[w], Nil}
         \/ holds'[w] = holds[w] /\ assigned'[w] = assigned[w] /\ (w \in members => w \in members')
         \/ \E c \in CallsOf(w) :
              /\ c.known /\ c.stage = "accepted" /\ assigned'[w] = c.job
              /\ UNCHANGED <<active, members, holds, serving>>
         \/ w \in members' /\ assigned'[w] = assigned[w] /\ Genuine(assigned[w], holds'[w])
<1> DEFINE Released == holds'[w] = Nil /\ assigned'[w] \in {assigned[w], Nil}
           Kept == holds'[w] = holds[w] /\ assigned'[w] = assigned[w] /\ (w \in members => w \in members')
           Called == \E c \in CallsOf(w) :
              /\ c.known /\ c.stage = "accepted" /\ assigned'[w] = c.job
              /\ UNCHANGED <<active, members, holds, serving>>
           Given == w \in members' /\ assigned'[w] = assigned[w] /\ Genuine(assigned[w], holds'[w])
<1>1. SchedulerTypeOK /\ calls \in [Workers -> [Slots -> Call \cup {NoCall}]]
  BY DEF ClusterInv, TypeOK
<1>2. ASSUME UNCHANGED workerVars
      PROVE  Kept
  BY <1>2 DEF workerVars
<1>3. ASSUME NEW S, Reset(S), UNCHANGED members
      PROVE  Released \/ Kept
  BY <1>3 DEF Reset
<1>4. CASE RescheduleJobs \/ WorkerRepair \/ \E v \in Workers : ResetRuns(v)
  BY <1>3, <1>4 DEF RescheduleJobs, RefreshSchedule, WorkerRepair, RefreshWorkerStatus, ResetRuns
<1>5. CASE CoordinatorLeaves
  BY <1>5 DEF CoordinatorLeaves, OnWorkerLeaved, Reset
<1>6. ASSUME NEW v \in Workers, NEW i, OnMemberUpdate(v, i)
      PROVE  Released \/ Kept
  <2>1. Reset({v}) /\ (members' = members \cup {v} \/ members' = members \ {v})
    BY <1>6 DEF OnMemberUpdate, OnWorkerJoined, OnWorkerFailed
  <2>. QED  BY <2>1 DEF Reset
<1>7. ASSUME NEW v \in Workers, NEW s \in Slots, CallReturns(v, s)
      PROVE  Kept \/ Called
  <2>1. /\ calls[v][s].stage = "accepted"
        /\ assigned' = IF calls[v][s].known THEN [assigned EXCEPT ![v] = calls[v][s].job] ELSE assigned
        /\ UNCHANGED <<active, members, holds, serving>>
    BY <1>7 DEF CallReturns, jobVars, machineVars
  <2>2. CASE v = w /\ calls[v][s].known
    <3>1. assigned'[w] = calls[w][s].job
      BY <1>1, <2>1, <2>2 DEF SchedulerTypeOK
    <3>2. calls[w][s] \in CallsOf(w)
      BY <2>1, <2>2 DEF CallsOf, NoCall
    <3>. QED  BY <2>1, <2>2, <3>1, <3>2
  <2>3. CASE ~(v = w /\ calls[v][s].known)
    BY <1>1, <2>1, <2>3 DEF SchedulerTypeOK
  <2>. QED  BY <2>2, <2>3
<1>8. ASSUME NEW v \in Workers, NEW j, NEW out, QueryData(v, j, out)
      PROVE  Released \/ Kept \/ Given
  <2>1. UNCHANGED <<members, assigned>> /\ holds' = HoldsAfter(v, j, out)
    BY <1>8 DEF QueryData
  <2>2. holds' = holds \/ holds' = [holds EXCEPT ![v] = Reply(v, j, out)]
    BY <2>1 DEF HoldsAfter
  <2>3. CASE holds'[w] = holds[w]
    BY <2>1, <2>3
  <2>4. CASE holds'[w] # holds[w]
    <3>1. v = w /\ holds'[w] = Reply(w, j, out)
      BY <1>1, <2>2, <2>4 DEF SchedulerTypeOK
    <3>2. ASSUME Reply(w, j, out) # Nil
          PROVE  Genuine(j, Reply(w, j, out)) /\ w \in members /\ assigned[w] = j
      BY <1>1, <3>2, ReplyIsGenuine DEF Reply, Known
    <3>. QED  BY <2>1, <3>1, <3>2
  <2>. QED  BY <2>3, <2>4
<1>9. ASSUME NEW v \in Workers, QueryHandled(v) \/ \E r \in late[v] : LateQueryHandled(v, r)
      PROVE  Released \/ Kept \/ Given
  BY <1>8, <1>9 DEF QueryHandled, LateQueryHandled
<1>10. ASSUME \/ \E j \in Jobs : SubmitJob(j)
              \/ ProcessQueuedJob \/ JobLoaded \/ LoadFails \/ FlushPendingJobs \/ FlushFails
              \/ BatchRepair
              \/ \E v \in Workers : \/ WorkerQueries(v) \/ DeadlinePasses(v) \/ Evaluated(v)
                                    \/ EvaluateFails(v) \/ Crash(v) \/ Suspect(v)
                                    \/ \E s \in Slots : \/ SendInference(v, s) \/ DeliverInference(v, s)
                                                        \/ CallFails(v, s)
              \/ UNCHANGED vars
       PROVE  UNCHANGED workerVars
  BY <1>10 DEF SubmitJob, ProcessQueuedJob, JobLoaded, AddJob, LoadFails, FlushPendingJobs, FlushFails,
       FinishJob, BatchRepair, RefreshBatchStatus, WorkerQueries, DeadlinePasses, Evaluated,
       EvaluateFails, Crash, Suspect, SendInference, DeliverInference, CallFails, vars, schedulerVars
<1>. QED
  BY <1>2, <1>4, <1>5, <1>6, <1>7, <1>9, <1>10
  DEF Next, CoordinatorNext, CallNext, QueryNext, MemberNext

(* A batch is held by a worker of its job: a call that returns does not    *)
(* change the job of a worker that has one.                                *)
LEMMA HoldsOwnBatchStep ==
  ASSUME ClusterInv, HoldsOwnBatch, CallsAgree, [Next]_vars
  PROVE  HoldsOwnBatch'
<1>1. SUFFICES ASSUME NEW w \in Workers, holds'[w] # Nil
               PROVE  w \in members' /\ Genuine(assigned'[w], holds'[w])
  BY DEF HoldsOwnBatch, Genuine
<1>2. CASE holds'[w] = holds[w] /\ assigned'[w] = assigned[w] /\ (w \in members => w \in members')
  BY <1>1, <1>2 DEF HoldsOwnBatch
<1>3. ASSUME NEW c \in CallsOf(w), assigned'[w] = c.job, UNCHANGED <<members, holds>>
      PROVE  w \in members' /\ Genuine(assigned'[w], holds'[w])
  <2>1. w \in members /\ Genuine(assigned[w], holds[w])
    BY <1>1, <1>3 DEF HoldsOwnBatch
  <2>2. assigned[w] \in Jobs
    BY <2>1 DEF Genuine, Batch
  <2>3. assigned[w] = c.job
    BY <2>2, NilAssumption DEF CallsAgree
  <2>. QED  BY <1>3, <2>1, <2>3
<1>. QED  BY <1>1, <1>2, <1>3, WorkerEvolves

(* The calls to a worker stay calls for the job it is assigned to. *)
LEMMA CallsAgreeStep ==
  ASSUME ClusterInv, ClusterInv', Orderly, CallsAgree, [Next]_vars
  PROVE  CallsAgree'
<1> SUFFICES ASSUME NEW w \in Workers, NEW c \in CallsOf(w)', NEW d \in CallsOf(w)'
             PROVE  c.job = d.job /\ assigned'[w] \in {Nil, c.job}
  BY DEF CallsAgree
<1>1. TypeOK /\ TypeOK'
  BY DEF ClusterInv
<1>2. c.job = d.job
  BY <1>1, OneJobCalledNext
<1>3. CASE assigned'[w] = Nil
  BY <1>2, <1>3
<1>4. CASE assigned'[w] = assigned[w] /\ \E e \in CallsOf(w) : c.job = e.job
  BY <1>2, <1>4 DEF CallsAgree
<1>5. CASE /\ \E e \in CallsOf(w) : assigned'[w] = e.job
           /\ \E e \in CallsOf(w) : c.job = e.job
  BY <1>1, <1>2, <1>5, OneJobCalled
<1>6. assigned'[w] = Nil \/ \E e \in CallsOf(w) : c.job = e.job
  BY <1>1, CallsEvolve
<1>7. assigned'[w] \in {assigned[w], Nil} \/ \E e \in CallsOf(w) : assigned'[w] = e.job
  BY WorkerEvolves
<1>. QED  BY <1>3, <1>4, <1>5, <1>6, <1>7

(* A job is not scheduled before it is added, and never waits to be added  *)
(* again.                                                                  *)
LEMMA UnscheduledShrinks ==
  ASSUME ClusterInv, [Next]_vars
  PROVE  Unscheduled' \subseteq Unscheduled
<1>1. tasks \in Seq(Jobs)
  BY DEF ClusterInv, TypeOK
<1>2. CASE UNCHANGED <<fresh, tasks, loading>>
  BY <1>2 DEF Unscheduled
<1>3. ASSUME NEW j \in Jobs, SubmitJob(j)
      PROVE  Unscheduled' \subseteq Unscheduled
  <2>1. Range(tasks') = Range(tasks) \cup {j}
    BY <1>1, <1>3, RangeOfAppend DEF SubmitJob
  <2>. QED  BY <1>3, <2>1 DEF SubmitJob, Unscheduled
<1>4. CASE ProcessQueuedJob
  <2>1. Range(tasks) = {loading'} \cup Range(tasks')
    BY <1>1, <1>4, RangeOfTail DEF ProcessQueuedJob
  <2>. QED  BY <1>4, <2>1 DEF ProcessQueuedJob, Unscheduled
<1>5. CASE JobLoaded \/ LoadFails
  BY <1>5, NilAssumption DEF JobLoaded, LoadFails, Unscheduled
<1>6. ASSUME \/ RescheduleJobs \/ FlushPendingJobs \/ FlushFails \/ BatchRepair \/ WorkerRepair
             \/ CoordinatorLeaves \/ \E w \in Workers : CallNext(w) \/ QueryNext(w) \/ MemberNext(w)
             \/ UNCHANGED vars
      PROVE  UNCHANGED <<fresh, tasks, loading>>
  BY <1>6 DEF RescheduleJobs, FlushPendingJobs, FlushFails, BatchRepair, WorkerRepair,
       CoordinatorLeaves, CallNext, QueryNext, MemberNext, SendInference, DeliverInference,
       CallReturns, CallFails, ResetRuns, WorkerQueries, QueryHandled, DeadlinePasses, Evaluated,
       EvaluateFails, LateQueryHandled, OnMemberUpdate, Crash, Suspect, vars
<1>. QED  BY <1>2, <1>3, <1>4, <1>5, <1>6 DEF Next, CoordinatorNext

(* No worker and no call knows of a job that has not been added: calls are *)
(* for active jobs.                                                        *)
LEMMA UnheardStep ==
  ASSUME ClusterInv, ClusterInv', Unheard, [Next]_vars
  PROVE  Unheard'
<1>1. SUFFICES ASSUME NEW j \in Unscheduled', NEW w \in Workers
               PROVE  assigned'[w] # j /\ \A c \in CallsOf(w)' : c.job # j
  BY DEF Unheard
<1>2. j \in Unscheduled /\ j \in Jobs
  BY UnscheduledShrinks DEF Unscheduled
<1>3. j \notin active /\ j # Nil
  BY <1>2, NilAssumption DEF Unscheduled, ClusterInv, JobsApart, Scheduled
<1>4. assigned[w] # j /\ \A c \in CallsOf(w) : c.job # j
  BY <1>2 DEF Unheard
<1>5. TypeOK'
  BY DEF ClusterInv
<1>6. assigned'[w] \in {assigned[w], Nil} \/ \E c \in CallsOf(w) : assigned'[w] = c.job
  BY WorkerEvolves
<1>7. ASSUME NEW c \in CallsOf(w)'
      PROVE  c.job # j
  BY <1>3, <1>4, <1>5, CallsEvolve
<1>. QED  BY <1>3, <1>4, <1>6, <1>7

(* Once the callbacks about a worker have run, it serves the job that it   *)
(* is assigned to or that a call of it has been accepted for: a crash and  *)
(* a suspicion announce callbacks, and each of those resets the worker and *)
(* cuts its calls off.                                                     *)
LEMMA CalledServesStep ==
  ASSUME ClusterInv, ClusterInv', Orderly, CallsAgree, Unheard, CalledServes, [Next]_vars
  PROVE  CalledServes'
<1> DEFINE Goal(w) ==
             /\ w \in members' /\ assigned'[w] \in active' => serving'[w] = assigned'[w]
             /\ \A c \in CallsOf(w)' :
                  c.stage = "accepted" /\ c.known /\ c.job \in active' => serving'[w] = c.job
<1>1. SUFFICES ASSUME NEW w \in Workers, updates'[w] = <<>>
               PROVE  Goal(w)
  BY DEF CalledServes, ServesItsJob
<1>2. /\ TypeOK' /\ SchedulerTypeOK /\ WorkerTypeOK /\ active \subseteq Jobs /\ active' \subseteq Jobs
      /\ updates \in [Workers -> Seq({"INSERT", "DELETE"})]
      /\ calls \in [Workers -> [Slots -> Call \cup {NoCall}]]
  BY DEF ClusterInv, TypeOK, SchedulerTypeOK
<1>3. Nil \notin active'
  BY <1>2, NilAssumption
<1>4. ASSUME updates'[w] = updates[w]
      PROVE  /\ w \in members /\ assigned[w] \in active => serving[w] = assigned[w]
             /\ \A c \in CallsOf(w) :
                  c.stage = "accepted" /\ c.known /\ c.job \in active => serving[w] = c.job
  BY <1>1, <1>4 DEF CalledServes, ServesItsJob
<1>5. ASSUME updates'[w] = updates[w], serving'[w] = serving[w], active' \subseteq active,
             w \in members' => w \in members
      PROVE  Goal(w)
  <2>1. ASSUME w \in members', assigned'[w] \in active'
        PROVE  serving'[w] = assigned'[w]
    <3>1. CASE assigned'[w] \in {assigned[w], Nil}
      BY <1>3, <1>4, <1>5, <2>1, <3>1
    <3>2. ASSUME NEW c \in CallsOf(w), c.known, c.stage = "accepted", assigned'[w] = c.job
          PROVE  serving'[w] = assigned'[w]
      BY <1>4, <1>5, <2>1, <3>2
    <3>. QED  BY <3>1, <3>2, WorkerEvolves
  <2>2. ASSUME NEW c \in CallsOf(w)', c.stage = "accepted", c.known, c.job \in active'
        PROVE  serving'[w] = c.job
    BY <1>2, <1>4, <1>5, <2>2, CallsEvolve
  <2>. QED  BY <2>1, <2>2
<1>6. ASSUME NEW v \in Workers, NEW i \in 1 .. Len(updates[v]), OnMemberUpdate(v, i)
      PROVE  Goal(w)
  <2>1. /\ Reset({v}) /\ Detach({v}) /\ UNCHANGED <<active, machineVars>>
        /\ members' = members \cup {v} \/ members' = members \ {v}
        /\ updates' = [updates EXCEPT ![v] = SubSeq(@, 1, i - 1) \o SubSeq(@, i + 1, Len(@))]
    BY <1>6 DEF OnMemberUpdate, OnWorkerJoined, OnWorkerFailed, jobVars
  <2>2. CASE v = w
    <3>1. assigned'[w] = Nil
      BY <2>1, <2>2 DEF Reset
    <3>2. ASSUME NEW c \in CallsOf(w)'
          PROVE  ~c.known
      <4>1. PICK s \in Slots : c = calls'[w][s] /\ c # NoCall
        BY <1>2, CallsOfBecomes
      <4>2. calls[w][s] \in Call /\ c = [calls[w][s] EXCEPT !.known = FALSE]
        BY <1>2, <2>1, <2>2, <4>1 DEF Detach
      <4>. QED  BY <4>2 DEF Call
    <3>. QED  BY <1>3, <3>1, <3>2
  <2>3. CASE v # w
    <3>1. updates'[w] = updates[w] /\ serving'[w] = serving[w]
      BY <1>2, <2>1, <2>3 DEF machineVars
    <3>. QED  BY <1>5, <2>1, <2>3, <3>1
  <2>. QED  BY <2>2, <2>3
<1>7. ASSUME NEW v \in Workers, Crash(v) \/ Suspect(v)
      PROVE  Goal(w)
  <2>1. /\ updates' = [updates EXCEPT ![v] = @ \o <<"DELETE", "INSERT">>]
        /\ UNCHANGED <<active, members>>
        /\ Restart(v) \/ UNCHANGED serving
    BY <1>7 DEF Crash, Suspect, schedulerVars, jobVars, workerVars, machineVars
  <2>2. v # w
    <3>1. updates[w] \in Seq({"INSERT", "DELETE"})
      BY <1>2
    <3>2. updates[w] \o <<"DELETE", "INSERT">> # <<>>
      BY <3>1
    <3>. QED  BY <1>1, <1>2, <2>1, <3>2
  <2>3. updates'[w] = updates[w]
    BY <1>2, <2>1, <2>2
  <2>4. serving'[w] = serving[w]
    BY <1>2, <2>1, <2>2 DEF Restart, WorkerTypeOK
  <2>. QED  BY <1>5, <2>1, <2>3, <2>4
<1>8. CASE CoordinatorLeaves
  <2>1. updates' = [v \in Workers |-> Append(updates[v], "INSERT")]
    BY <1>8 DEF CoordinatorLeaves
  <2>2. updates[w] \in Seq({"INSERT", "DELETE"})
    BY <1>2
  <2>3. Append(updates[w], "INSERT") # <<>>
    BY <2>2
  <2>. QED  BY <1>1, <2>1, <2>3
<1>9. ASSUME NEW j \in Jobs, NEW S, FinishJob(j, S), UNCHANGED <<calls, updates>>
      PROVE  Goal(w)
  <2>1. /\ active' = active \ {j} /\ UNCHANGED <<members, assigned>>
        /\ serving'[w] = IF w \in GetWorkersById(j) \ S THEN Nil ELSE serving[w]
    BY <1>9 DEF FinishJob, FinishInference, workerVars
  <2>2. CASE w \notin GetWorkersById(j) \ S
    BY <1>5, <1>9, <2>1, <2>2
  <2>3. CASE w \in GetWorkersById(j) \ S
    <3>1. assigned[w] = j
      BY <2>3 DEF GetWorkersById
    <3>2. ASSUME NEW c \in CallsOf(w)'
          PROVE  c.job \notin active'
      <4>1. c \in CallsOf(w)
        BY <1>9 DEF CallsOf
      <4>. QED  BY <2>1, <3>1, <4>1, NilAssumption DEF CallsAgree
    <3>. QED  BY <2>1, <3>1, <3>2
  <2>. QED  BY <2>2, <2>3
<1>10. CASE FlushPendingJobs \/ FlushFails
  <2>1. Head(pending) \in Jobs
    BY <1>2, <1>10, RangeOfTail DEF FlushPendingJobs, FlushFails, SchedulerTypeOK
  <2>. QED  BY <1>9, <1>10, <2>1 DEF FlushPendingJobs, FlushFails
<1>11. CASE JobLoaded
  <2>1. /\ active' = active \cup {loading} /\ loading \in Unscheduled
        /\ UNCHANGED <<members, assigned, calls, updates, serving>>
    BY <1>11 DEF JobLoaded, AddJob, workerVars, machineVars, Unscheduled, ClusterInv, TypeOK
  <2>2. CallsOf(w)' = CallsOf(w)
    BY <2>1 DEF CallsOf
  <2>3. assigned[w] # loading /\ \A c \in CallsOf(w) : c.job # loading
    BY <2>1 DEF Unheard
  <2>. QED  BY <1>4, <2>1, <2>2, <2>3
<1>12. ASSUME NEW v \in Workers, NEW s \in Slots, DeliverInference(v, s)
       PROVE  Goal(w)
  <2>1. /\ serving' = [serving EXCEPT ![v] = calls[v][s].job]
        /\ calls[v][s] \in CallsOf(v)
        /\ UNCHANGED <<active, members, assigned, updates>>
    BY <1>12 DEF DeliverInference, Inference, CallsOf, NoCall, schedulerVars, jobVars, workerVars
  <2>2. CASE v = w
    <3>1. serving'[w] = calls[w][s].job
      BY <1>2, <2>1, <2>2 DEF WorkerTypeOK
    <3>2. assigned'[w] \in {Nil, serving'[w]}
      BY <2>1, <2>2, <3>1 DEF CallsAgree
    <3>3. ASSUME NEW c \in CallsOf(w)', c.stage = "accepted"
          PROVE  serving'[w] = c.job
      <4>1. \/ serving'[w] = c.job
            \/ \E d \in CallsOf(w) : c.job = d.job
        BY <1>2, <3>3, CallsEvolve
      <4>. QED  BY <2>1, <2>2, <3>1, <4>1 DEF CallsAgree
    <3>. QED  BY <1>3, <3>2, <3>3
  <2>3. CASE v # w
    <3>1. serving'[w] = serving[w]
      BY <1>2, <2>1, <2>3 DEF WorkerTypeOK
    <3>. QED  BY <1>5, <2>1, <3>1
  <2>. QED  BY <2>2, <2>3
<1>13. ASSUME \/ \E j \in Jobs : SubmitJob(j)
              \/ ProcessQueuedJob \/ LoadFails \/ RescheduleJobs \/ BatchRepair \/ WorkerRepair
              \/ \E v \in Workers : \/ QueryNext(v) \/ ResetRuns(v)
                                    \/ \E s \in Slots : \/ SendInference(v, s) \/ CallReturns(v, s)
                                                        \/ CallFails(v, s)
              \/ UNCHANGED vars
       PROVE  UNCHANGED <<updates, serving, active, members>>
  BY <1>13 DEF SubmitJob, ProcessQueuedJob, LoadFails, RescheduleJobs, RefreshSchedule, BatchRepair,
       RefreshBatchStatus, WorkerRepair, RefreshWorkerStatus, QueryNext, WorkerQueries, SendQuery,
       QueryHandled, ReceiveReply, QueryData, DeadlinePasses, AbandonRound, Evaluated, FinishRound,
       EvaluateFails, LateQueryHandled, ResetRuns, SendInference, CallReturns, CallFails, vars,
       schedulerVars, jobVars, workerVars, machineVars
<1>. QED
  BY <1>5, <1>6, <1>7, <1>8, <1>10, <1>11, <1>12, <1>13
  DEF Next, CoordinatorNext, CallNext, MemberNext

-----------------------------------------------------------------------------
(* A batch is out with one worker *)

(* A step that makes available only batches that nobody holds afterwards,  *)
(* and hands none out, keeps batches apart.                                *)
LEMMA GivingBackExclusive ==
  ASSUME ExclusiveHolder, active' \subseteq active,
         \A w \in Workers : holds'[w] \in {holds[w], Nil},
         \A w \in Workers : /\ holds'[w] # Nil /\ holds'[w].job \in active'
                            /\ status'[holds'[w].job][holds'[w].id] = "Available"
                            => status[holds'[w].job][holds'[w].id] = "Available"
  PROVE  ExclusiveHolder'
BY DEF ExclusiveHolder

(* RescheduleJobs makes the batches of the workers it releases available;  *)
(* no other worker holds one of them.                                      *)
LEMMA RefreshScheduleExclusive ==
  ASSUME SchedulerTypeOK, ExclusiveHolder, HoldsOwnBatch, NEW released \in SUBSET Busy,
         RefreshSchedule(released)
  PROVE  ExclusiveHolder'
<1>1. /\ \A j \in Jobs : \A b \in BatchesOf(j) :
           status'[j][b] = IF b \in GivenBack(released, j) THEN "Available" ELSE status[j][b]
      /\ \A w \in Workers : holds'[w] = IF w \in released THEN Nil ELSE holds[w]
      /\ UNCHANGED active
  BY DEF RefreshSchedule, Reset
<1>2. ASSUME NEW w \in Workers, holds'[w] # Nil
      PROVE  status'[holds'[w].job][holds'[w].id] = status[holds'[w].job][holds'[w].id]
  <2>1. w \notin released /\ holds'[w] = holds[w] /\ Genuine(assigned[w], holds[w])
    BY <1>1, <1>2 DEF HoldsOwnBatch
  <2>2. ASSUME NEW v \in released, assigned[v] = holds[w].job, holds[v] # Nil,
               holds[v].id = holds[w].id
        PROVE  FALSE
    <3>1. v \in Workers /\ v # w
      BY <2>1 DEF Busy, SchedulerTypeOK
    <3>2. Genuine(assigned[v], holds[v])
      BY <2>2, <3>1 DEF HoldsOwnBatch
    <3>3. holds[v] = holds[w]
      BY <2>1, <2>2, <3>2 DEF Genuine, Batch
    <3>. QED  BY <2>2, <3>1, <3>3 DEF ExclusiveHolder
  <2>3. holds[w].id \notin GivenBack(released, holds[w].job)
    BY <2>2 DEF GivenBack
  <2>. QED  BY <1>1, <2>1, <2>3 DEF Genuine, Batch
<1>. QED  BY <1>1, <1>2, GivingBackExclusive

(* RefreshBatchStatus makes only batches available that no worker holds. *)
LEMMA RefreshBatchStatusExclusive ==
  ASSUME SchedulerTypeOK, ExclusiveHolder, HoldsOwnBatch, RefreshBatchStatus
  PROVE  ExclusiveHolder'
<1>1. /\ \A j \in Jobs : \A b \in BatchesOf(j) :
           status'[j][b] = IF j \in active /\ b \in Orphaned(j) THEN "Available" ELSE status[j][b]
      /\ UNCHANGED <<active, holds>>
  BY DEF RefreshBatchStatus, workerVars
<1>2. ASSUME NEW w \in Workers, holds'[w] # Nil
      PROVE  status'[holds'[w].job][holds'[w].id] = status[holds'[w].job][holds'[w].id]
  <2>1. holds'[w] = holds[w] /\ w \in members /\ Genuine(assigned[w], holds[w]) /\ holds[w] # Nil
    BY <1>1, <1>2 DEF HoldsOwnBatch
  <2>2. assigned[w] = holds[w].job /\ holds[w].job \in Jobs /\ holds[w].id \in BatchesOf(holds[w].job)
    BY <2>1 DEF Genuine, Batch
  <2>3. holds[w].id \in HeldBy(holds[w].job)
    BY <2>1, <2>2 DEF HeldBy, GetWorkersById
  <2>4. holds[w].id \notin Orphaned(holds[w].job)
    BY <2>3 DEF Orphaned
  <2>. QED  BY <1>1, <2>1, <2>2, <2>4
<1>. QED  BY <1>1, <1>2, GivingBackExclusive

(* OnWorkerFailed makes the batch of the worker it removes available. *)
LEMMA OnWorkerFailedExclusive ==
  ASSUME SchedulerTypeOK, ExclusiveHolder, HoldsOwnBatch, NEW w \in Workers, OnWorkerFailed(w)
  PROVE  ExclusiveHolder'
<1>1. /\ \A v \in Workers : holds'[v] = IF v = w THEN Nil ELSE holds[v]
      /\ UNCHANGED active
      /\ \/ status' = status
         \/ holds[w] # Nil /\ status' = [status EXCEPT ![assigned[w]][holds[w].id] = "Available"]
  BY DEF OnWorkerFailed, Reset
<1>2. ASSUME NEW v \in Workers, holds'[v] # Nil
      PROVE  status'[holds'[v].job][holds'[v].id] = status[holds'[v].job][holds'[v].id]
  <2>1. v # w /\ holds'[v] = holds[v] /\ Genuine(assigned[v], holds[v])
    BY <1>1, <1>2 DEF HoldsOwnBatch
  <2>2. CASE status' = status
    BY <2>1, <2>2
  <2>3. CASE holds[w] # Nil /\ status' = [status EXCEPT ![assigned[w]][holds[w].id] = "Available"]
    <3>1. Genuine(assigned[w], holds[w]) /\ holds[v] # holds[w]
      BY <2>1, <2>3 DEF HoldsOwnBatch, ExclusiveHolder
    <3>2. assigned[w] # holds[v].job \/ holds[w].id # holds[v].id
      BY <2>1, <3>1 DEF Genuine, Batch
    <3>. QED  BY <2>1, <2>3, <3>2 DEF SchedulerTypeOK, Genuine, Batch
  <2>. QED  BY <1>1, <2>2, <2>3
<1>. QED  BY <1>1, <1>2, GivingBackExclusive

(* QueryData hands out an available batch, which nobody holds, and marks   *)
(* it.                                                                     *)
LEMMA QueryDataExclusive ==
  ASSUME SchedulerTypeOK, ExclusiveHolder, HoldsOwnBatch, NEW w \in Workers, NEW j, NEW out,
         out # Nil => Genuine(j, out), QueryData(w, j, out)
  PROVE  ExclusiveHolder'
<1> DEFINE stat == StatusAfterReport(w, j, out)
           reply == Reply(w, j, out)
<1>1. /\ status' = IF reply = Nil THEN stat ELSE [stat EXCEPT ![j][reply.id] = "InProgress"]
      /\ holds' = HoldsAfter(w, j, out) /\ UNCHANGED active
  BY DEF QueryData
<1>2. /\ DOMAIN stat = Jobs /\ \A i \in Jobs : DOMAIN stat[i] = BatchesOf(i)
      /\ \A i \in Jobs : \A b \in BatchesOf(i) : stat[i][b] = "Available" => status[i][b] = "Available"
  BY DEF StatusAfterReport, Reports, Known, SchedulerTypeOK
<1>3. ASSUME reply # Nil
      PROVE  /\ j \in active /\ Genuine(j, reply) /\ j \in Jobs
             /\ status[j][reply.id] = "Available"
             /\ \A v \in Workers : holds[v] # reply
  <2>1. Genuine(j, reply) /\ j \in Jobs /\ j \in active
    BY <1>3, ReplyIsGenuine DEF Reply, Known
  <2>2. reply = FetchBatchInput(j, stat)
    BY <1>3 DEF Reply
  <2>3. stat[j][reply.id] = "Available"
    BY <1>3, <2>1, <2>2, FetchBatchInputType
  <2>4. status[j][reply.id] = "Available"
    BY <1>2, <2>1, <2>3 DEF Genuine
  <2>5. ASSUME NEW v \in Workers, holds[v] = reply
        PROVE  FALSE
    BY <1>3, <2>1, <2>4, <2>5 DEF ExclusiveHolder, Genuine
  <2>. QED  BY <2>1, <2>4, <2>5
<1> HIDE DEF stat, reply
<1>4. \A v \in Workers : holds'[v] = holds[v] \/ (v = w /\ holds'[v] = reply)
  BY <1>1 DEF HoldsAfter, SchedulerTypeOK, reply
<1>5. ASSUME NEW i \in Jobs, NEW b \in BatchesOf(i), status'[i][b] = "Available"
      PROVE  status[i][b] = "Available" /\ reply # [job |-> i, id |-> b]
  <2>1. CASE reply = Nil
    BY <1>1, <1>2, <1>5, <2>1, NilAssumption, BatchesOfType
  <2>2. CASE reply # Nil
    <3>1. j \in Jobs /\ reply.id \in BatchesOf(j)
      BY <1>3, <2>2 DEF Genuine
    <3>2. ~(i = j /\ b = reply.id) /\ stat[i][b] = "Available"
      BY <1>1, <1>2, <1>5, <2>2, <3>1
    <3>. QED  BY <1>2, <1>3, <2>2, <3>2 DEF Genuine
  <2>. QED  BY <2>1, <2>2
<1>6. ASSUME NEW v \in Workers, holds'[v] # Nil
      PROVE  Genuine(holds'[v].job, holds'[v])
  BY <1>3, <1>4, <1>6 DEF HoldsOwnBatch, Genuine
<1>7. ASSUME NEW v \in Workers, NEW u \in Workers, holds'[v] # Nil, u # v
      PROVE  holds'[u] # holds'[v]
  BY <1>3, <1>4, <1>7 DEF ExclusiveHolder
<1>8. ASSUME NEW v \in Workers, holds'[v] # Nil, holds'[v].job \in active',
             status'[holds'[v].job][holds'[v].id] = "Available"
      PROVE  FALSE
  <2>1. /\ holds'[v] = [job |-> holds'[v].job, id |-> holds'[v].id]
        /\ holds'[v].job \in Jobs /\ holds'[v].id \in BatchesOf(holds'[v].job)
    BY <1>6, <1>8 DEF Genuine, Batch
  <2>2. status[holds'[v].job][holds'[v].id] = "Available" /\ reply # holds'[v]
    BY <1>5, <1>8, <2>1
  <2>. QED  BY <1>1, <1>4, <1>8, <2>2 DEF ExclusiveHolder
<1>. QED  BY <1>7, <1>8 DEF ExclusiveHolder

(* Every step keeps batches apart. *)
LEMMA ExclusiveStep ==
  ASSUME ClusterInv, HoldsOwnBatch, Unheard, ExclusiveHolder, [Next]_vars
  PROVE  ExclusiveHolder'
<1>1. SchedulerTypeOK
  BY DEF ClusterInv, TypeOK
<1>2. ASSUME UNCHANGED status, active' \subseteq active, \A w \in Workers : holds'[w] \in {holds[w], Nil}
      PROVE  ExclusiveHolder'
  BY <1>2, GivingBackExclusive
<1>3. CASE RescheduleJobs
  BY <1>1, <1>3, RefreshScheduleExclusive DEF RescheduleJobs
<1>4. CASE BatchRepair
  BY <1>1, <1>4, RefreshBatchStatusExclusive DEF BatchRepair
<1>5. ASSUME NEW w \in Workers, NEW i, OnMemberUpdate(w, i)
      PROVE  ExclusiveHolder'
  <2>1. CASE OnWorkerJoined(w)
    BY <1>2, <2>1 DEF OnWorkerJoined, Reset, jobVars
  <2>2. CASE OnWorkerFailed(w)
    BY <1>1, <2>2, OnWorkerFailedExclusive
  <2>. QED  BY <1>5, <2>1, <2>2 DEF OnMemberUpdate
<1>6. ASSUME NEW w \in Workers, QueryHandled(w)
      PROVE  ExclusiveHolder'
  <2>1. step[w].at = "waiting" /\ QueryData(w, step[w].job, step[w].batch)
    BY <1>6 DEF QueryHandled, ReceiveReply
  <2>2. step[w] # Ready
    BY <2>1 DEF Ready
  <2>3. step[w].batch # Nil => Genuine(step[w].job, step[w].batch)
    BY <2>2 DEF ClusterInv, WorkerInv, StepOrigin
  <2>. QED  BY <1>1, <2>1, <2>3, QueryDataExclusive
<1>7. ASSUME NEW w \in Workers, NEW r \in late[w], LateQueryHandled(w, r)
      PROVE  ExclusiveHolder'
  <2>1. r.out # Nil => Genuine(r.job, r.out)
    BY DEF ClusterInv, LateOrigin
  <2>. QED  BY <1>1, <1>7, <2>1, QueryDataExclusive DEF LateQueryHandled
<1>8. CASE JobLoaded
  <2>1. active' = active \cup {loading} /\ UNCHANGED <<status, holds>> /\ loading \in Unscheduled
    BY <1>8 DEF JobLoaded, AddJob, workerVars, Unscheduled, ClusterInv, TypeOK
  <2>2. ASSUME NEW w \in Workers, holds[w] # Nil
        PROVE  holds[w].job # loading
    BY <2>1, <2>2 DEF Unheard, HoldsOwnBatch, Genuine
  <2>. QED  BY <2>1, <2>2 DEF ExclusiveHolder
<1>9. CASE WorkerRepair \/ CoordinatorLeaves \/ \E w \in Workers : ResetRuns(w)
  BY <1>2, <1>9 DEF WorkerRepair, RefreshWorkerStatus, CoordinatorLeaves, OnWorkerLeaved, ResetRuns,
       Reset, jobVars
<1>10. CASE FlushPendingJobs \/ FlushFails
  BY <1>2, <1>10 DEF FlushPendingJobs, FlushFails, FinishJob, workerVars
<1>11. ASSUME \/ \E j \in Jobs : SubmitJob(j)
              \/ ProcessQueuedJob \/ LoadFails
              \/ \E w \in Workers : \/ WorkerQueries(w) \/ DeadlinePasses(w) \/ Evaluated(w)
                                    \/ EvaluateFails(w) \/ Crash(w) \/ Suspect(w)
                                    \/ \E s \in Slots : \/ SendInference(w, s) \/ DeliverInference(w, s)
                                                        \/ CallReturns(w, s) \/ CallFails(w, s)
              \/ UNCHANGED vars
       PROVE  UNCHANGED <<status, active, holds>>
  BY <1>11 DEF SubmitJob, ProcessQueuedJob, LoadFails, WorkerQueries, DeadlinePasses, Evaluated,
       EvaluateFails, Crash, Suspect, SendInference, DeliverInference, CallReturns, CallFails, vars,
       schedulerVars, jobVars, workerVars
<1>. QED
  BY <1>2, <1>3, <1>4, <1>5, <1>6, <1>7, <1>8, <1>9, <1>10, <1>11
  DEF Next, CoordinatorNext, CallNext, QueryNext, MemberNext

(* Nothing is held, called or assigned in the beginning. *)
LEMMA OrderlyInit == Init => OrderlyInv
<1> SUFFICES ASSUME Init PROVE OrderlyInv
  OBVIOUS
<1>1. \A w \in Workers : holds[w] = Nil /\ assigned[w] = Nil /\ CallsOf(w) = {} /\ active = {}
  BY DEF Init, NewScheduler, CallsOf
<1>2. \A j \in Unscheduled : j # Nil
  BY NilAssumption DEF Unscheduled
<1>3. HoldsOwnBatch /\ CallsAgree /\ ExclusiveHolder
  BY <1>1 DEF HoldsOwnBatch, CallsAgree, ExclusiveHolder
<1>4. Unheard
  BY <1>1, <1>2 DEF Unheard
<1>5. CalledServes
  BY <1>1 DEF CalledServes, ServesItsJob
<1>. QED  BY <1>3, <1>4, <1>5 DEF OrderlyInv

(* The parts need each other, and ClusterInv before and after the step. *)
LEMMA OrderlyStep == ClusterInv /\ ClusterInv' /\ OrderlyInv /\ [Next]_vars => OrderlyInv'
<1> SUFFICES ASSUME ClusterInv, ClusterInv', OrderlyInv, [Next]_vars, Orderly
             PROVE  (HoldsOwnBatch /\ CallsAgree /\ Unheard /\ CalledServes /\ ExclusiveHolder)'
  BY DEF OrderlyInv, Orderly
<1>1. HoldsOwnBatch /\ CallsAgree /\ Unheard /\ CalledServes /\ ExclusiveHolder
  BY DEF OrderlyInv
<1>2. HoldsOwnBatch'
  BY <1>1, HoldsOwnBatchStep
<1>3. CallsAgree'
  BY <1>1, CallsAgreeStep
<1>4. Unheard'
  BY <1>1, UnheardStep
<1>5. CalledServes'
  BY <1>1, CalledServesStep
<1>6. ExclusiveHolder'
  BY <1>1, ExclusiveStep
<1>. QED  BY <1>2, <1>3, <1>4, <1>5, <1>6

(* The calls, assignments and batches of the workers agree, as OrderlyInv  *)
(* says, as long as RescheduleJobs cannot send a worker two jobs at once.  *)
THEOREM OrderlyInductive == Spec => []OrderlyInv
BY OrderlyInit, OrderlyStep, Inductive, PTL DEF Spec

(* QueryData and the two repairs never let two workers have one batch, for *)
(* any number of workers, batches, faults and callbacks in any order, if   *)
(* there is one job or a worker has one call at a time.                    *)
THEOREM OneHolder == Spec => [](Orderly => ExclusiveHolder)
<1>1. OrderlyInv => (Orderly => ExclusiveHolder)
  BY DEF OrderlyInv
<1>. QED  BY <1>1, OrderlyInductive, PTL

(* Under the same condition a worker that the coordinator has assigned to  *)
(* an active job serves it once its callbacks have run, whatever crashes,  *)
(* failed calls and suspicions came between.                               *)
THEOREM AssignedIsServed == Spec => [](Orderly => AssignedWorkerServes)
<1>1. OrderlyInv => (Orderly => AssignedWorkerServes)
  BY DEF OrderlyInv, CalledServes, AssignedWorkerServes, Settled
<1>. QED  BY <1>1, OrderlyInductive, PTL
=============================================================================

------------------------------- MODULE Cluster -------------------------------
(***************************************************************************)
(* The coordinator's goroutines (idunno/coordinator.go and                 *)
(* coordinator_service.go), the workers, and the RPCs between them.        *)
(*                                                                         *)
(* An Inference call is made by a goroutine that RescheduleJobs starts     *)
(* and does not wait for: until it returns, the worker still looks idle.   *)
(* A QueryData request that missed its deadline at the worker may still be *)
(* handled by the coordinator later.  Membership callbacks run in a        *)
(* goroutine each.                                                         *)
(***************************************************************************)
EXTENDS Scheduler, Worker

CONSTANTS
  MaxCalls,          \* bound: Inference calls in flight to one worker
  MaxFaults,         \* bound: how often each kind of fault happens
  MaxFaultsInAll,    \* bound: how many faults happen
  CallbacksInOrder   \* TRUE: the callbacks of one address are never reordered

FaultKinds == {"crash", "suspect", "leave", "deadline", "evaluate", "call", "flush", "load"}

ASSUME MaxCallsAssumption == MaxCalls \in Nat \ {0}
ASSUME MaxFaultsAssumption == MaxFaults \in [FaultKinds -> Nat]
ASSUME MaxFaultsInAllAssumption == MaxFaultsInAll \in Nat
ASSUME CallbacksAssumption == CallbacksInOrder \in BOOLEAN

VARIABLES
  fresh,       \* job ids not used yet
  tasks,       \* TaskQueue
  loading,     \* the task ProcessQueuedJob has popped and not added yet
  file,        \* file[j]: the batches whose output is in the SDFS file of job j
  calls,       \* calls[w][s]: an Inference call in flight to w
  late,        \* late[w]: abandoned QueryData requests of w, not handled yet
  updates,     \* updates[w]: membership callbacks about w, not run yet
  resets,      \* workers whose Reset, started by a flush, has not run yet
  faults       \* faults of each kind so far

vars == <<schedulerVars, machineVars, fresh, tasks, loading, file, calls, late, updates, resets, faults>>

Slots == 1 .. MaxCalls
NoCall == [stage |-> "none", job |-> Nil, known |-> FALSE]
Call == [stage : {"dialed", "sent", "accepted"}, job : Jobs, known : BOOLEAN]
LateQuery == [job : Jobs, out : Batch \cup {Nil}, nr : Nat]

Init ==
  /\ NewScheduler
  /\ NewWorkers
  /\ fresh = Jobs
  /\ tasks = <<>>
  /\ loading = Nil
  /\ file = [j \in Jobs |-> {}]
  /\ calls = [w \in Workers |-> [s \in Slots |-> NoCall]]
  /\ late = [w \in Workers |-> {}]
  /\ updates = [w \in Workers |-> <<"INSERT">>]
  /\ resets = {}
  /\ faults = [k \in FaultKinds |-> 0]

Fault(k) ==
  /\ faults[k] < MaxFaults[k]
  /\ SumFunction(faults) < MaxFaultsInAll
  /\ faults' = [faults EXCEPT ![k] = @ + 1]

-----------------------------------------------------------------------------
(* Jobs: the Inference service, ProcessQueuedJob, FlushPendingJobs *)

SubmitJob(j) ==
  /\ j \in fresh
  /\ fresh' = fresh \ {j}
  /\ tasks' = Append(tasks, j)
  /\ UNCHANGED <<schedulerVars, machineVars, loading, file, calls, late, updates, resets, faults>>

(* The task is popped under the lock, the dataset is read without it. *)
ProcessQueuedJob ==
  /\ loading = Nil
  /\ tasks # <<>>
  /\ loading' = Head(tasks)
  /\ tasks' = Tail(tasks)
  /\ UNCHANGED <<schedulerVars, machineVars, fresh, file, calls, late, updates, resets, faults>>

JobLoaded ==
  /\ loading # Nil
  /\ AddJob(loading)
  /\ loading' = Nil
  /\ UNCHANGED <<machineVars, fresh, tasks, file, calls, late, updates, resets, faults>>

(* The dataset cannot be read: the task is dropped. *)
LoadFails ==
  /\ loading # Nil
  /\ Fault("load")
  /\ loading' = Nil
  /\ UNCHANGED <<schedulerVars, machineVars, fresh, tasks, file, calls, late, updates, resets>>

Answered(j) == {b \in BatchesOf(j) : output[j][b] # Nil}

(* FlushPendingJobs up to the SDFS Put, all of it under the lock: the job  *)
(* leaves ActiveJobs and its workers are told.  Workers in unreachable do  *)
(* not get the message; the error is ignored.  A goroutine calls Done, on  *)
(* which the flush waits, before its deferred Reset.                       *)
FinishJob(j, unreachable) ==
  /\ active' = active \ {j}
  /\ FinishInference(GetWorkersById(j) \ unreachable)
  /\ resets' = resets \cup GetWorkersById(j)
  /\ UNCHANGED <<status, output, counted, workerVars, panicked>>

ResetRuns(w) ==
  /\ w \in resets
  /\ Reset({w})
  /\ resets' = resets \ {w}
  /\ UNCHANGED <<jobVars, members, panicked, machineVars, fresh, tasks, loading, file,
                 calls, late, updates, faults>>

FlushPendingJobs ==
  /\ pending # <<>>
  /\ LET j == Head(pending)
     IN /\ \/ FinishJob(j, {}) /\ UNCHANGED faults
           \/ \E w \in GetWorkersById(j) : FinishJob(j, {w}) /\ Fault("call")
        /\ file' = [file EXCEPT ![j] = Answered(j)]
        /\ pending' = Tail(pending)
        /\ completed' = completed \cup {j}
  /\ UNCHANGED <<fresh, tasks, loading, calls, late, updates>>

(* Put fails, with or without some replicas written: the job stays first   *)
(* in the queue for the next round, and is not active any more.            *)
FlushFails ==
  /\ pending # <<>>
  /\ LET j == Head(pending)
     IN /\ \E S \in SUBSET GetWorkersById(j) : FinishJob(j, S)
        /\ file' \in {file, [file EXCEPT ![j] = Answered(j)]}
  /\ Fault("flush")
  /\ UNCHANGED <<pending, completed, fresh, tasks, loading, calls, late, updates>>

-----------------------------------------------------------------------------
(* RescheduleJobs and the goroutine it starts for each scheduled worker *)

FreeSlot(w) == {s \in Slots : calls[w][s] = NoCall}
FirstFree(w) == CHOOSE s \in FreeSlot(w) : \A t \in FreeSlot(w) : s <= t

RescheduleJobs ==
  /\ members # {} /\ active # {}
  /\ \E mode \in Modes, released \in SUBSET Busy, schedule \in [Workers -> active \cup {Nil}] :
       /\ Plan(mode, released, schedule)
       /\ \A w \in Workers : schedule[w] # Nil => FreeSlot(w) # {}
       /\ RefreshSchedule(released)
       /\ calls' = [w \in Workers |->
                      IF schedule[w] = Nil THEN calls[w]
                      ELSE [calls[w] EXCEPT ![FirstFree(w)] =
                              [stage |-> "dialed", job |-> schedule[w], known |-> TRUE]]]
  /\ UNCHANGED <<machineVars, fresh, tasks, loading, file, late, updates, resets, faults>>

(* The request is built from ActiveJobs[jobId], read without the lock: a   *)
(* nil dereference if the job has been flushed or cleared meanwhile.       *)
SendInference(w, s) ==
  /\ calls[w][s].stage = "dialed"
  /\ calls' = [calls EXCEPT ![w][s].stage = "sent"]
  /\ panicked' = (calls[w][s].job \notin active)
  /\ UNCHANGED <<jobVars, workerVars, machineVars, fresh, tasks, loading, file, late, updates, resets, faults>>

DeliverInference(w, s) ==
  /\ calls[w][s].stage = "sent"
  /\ Inference(w, calls[w][s].job)
  /\ calls' = [calls EXCEPT ![w][s].stage = "accepted"]
  /\ UNCHANGED <<schedulerVars, fresh, tasks, loading, file, late, updates, resets, faults>>

(* The goroutine writes to the *Worker it was given.  That object may have *)
(* been removed from the ResourceManager, or replaced, in the meantime.    *)
CallReturns(w, s) ==
  /\ calls[w][s].stage = "accepted"
  /\ assigned' = IF calls[w][s].known THEN [assigned EXCEPT ![w] = calls[w][s].job] ELSE assigned
  /\ calls' = [calls EXCEPT ![w][s] = NoCall]
  /\ UNCHANGED <<jobVars, members, holds, panicked, machineVars, fresh, tasks, loading,
                 file, late, updates, resets, faults>>

CallFails(w, s) ==
  /\ calls[w][s] # NoCall
  /\ Fault("call")
  /\ calls' = [calls EXCEPT ![w][s] = NoCall]
  /\ UNCHANGED <<schedulerVars, machineVars, fresh, tasks, loading, file, late, updates, resets>>

-----------------------------------------------------------------------------
(* QueryData *)

WorkerQueries(w) ==
  /\ SendQuery(w)
  /\ UNCHANGED <<schedulerVars, fresh, tasks, loading, file, calls, late, updates, resets, faults>>

QueryHandled(w) ==
  /\ ReceiveReply(w, Reply(w, step[w].job, step[w].batch))
  /\ QueryData(w, step[w].job, step[w].batch)
  /\ UNCHANGED <<fresh, tasks, loading, file, calls, late, updates, resets, faults>>

(* The request a worker that gives up or dies leaves behind. *)
LeaveBehind(w) ==
  late' = [late EXCEPT ![w] = @ \cup
             (IF step[w].at = "waiting"
                THEN {[job |-> step[w].job, out |-> step[w].batch, nr |-> faults["deadline"] + faults["crash"]]}
                ELSE {})]

DeadlinePasses(w) ==
  /\ step[w].at = "waiting"
  /\ Fault("deadline")
  /\ AbandonRound(w)
  /\ LeaveBehind(w)
  /\ UNCHANGED <<schedulerVars, fresh, tasks, loading, file, calls, updates, resets>>

(* The handler runs on after the caller is gone; nobody reads its reply. *)
LateQueryHandled(w, r) ==
  /\ r \in late[w]
  /\ QueryData(w, r.job, r.out)
  /\ late' = [late EXCEPT ![w] = @ \ {r}]
  /\ UNCHANGED <<machineVars, fresh, tasks, loading, file, calls, updates, resets, faults>>

Evaluated(w) ==
  /\ FinishRound(w)
  /\ UNCHANGED <<schedulerVars, fresh, tasks, loading, file, calls, late, updates, resets, faults>>

EvaluateFails(w) ==
  /\ step[w].at = "running"
  /\ Fault("evaluate")
  /\ AbandonRound(w)
  /\ UNCHANGED <<schedulerVars, fresh, tasks, loading, file, calls, late, updates, resets>>

-----------------------------------------------------------------------------
(* Periodic repair *)

BatchRepair ==
  /\ RefreshBatchStatus
  /\ UNCHANGED <<machineVars, fresh, tasks, loading, file, calls, late, updates, resets, faults>>

WorkerRepair ==
  /\ RefreshWorkerStatus
  /\ UNCHANGED <<machineVars, fresh, tasks, loading, file, calls, late, updates, resets, faults>>

-----------------------------------------------------------------------------
(* Membership and failures *)

NeverDetach(S) == UNCHANGED <<calls, resets>>

(* Calls and Resets under way for the workers of S are left with a pointer *)
(* to an object that is not in the ResourceManager any more.               *)
Detach(S) ==
  /\ calls' = [w \in Workers |-> [s \in Slots |->
                 IF w \in S /\ calls[w][s] # NoCall
                   THEN [calls[w][s] EXCEPT !.known = FALSE] ELSE calls[w][s]]]
  /\ resets' = resets \ S

OnMemberUpdate(w, i) ==
  /\ i \in 1 .. Len(updates[w])
  /\ CallbacksInOrder => i = 1
  /\ IF updates[w][i] = "INSERT" THEN OnWorkerJoined(w) ELSE OnWorkerFailed(w)
  /\ updates' = [updates EXCEPT ![w] = SubSeq(@, 1, i - 1) \o SubSeq(@, i + 1, Len(@))]
  /\ Detach({w})
  /\ UNCHANGED <<machineVars, fresh, tasks, loading, file, late, faults>>

(* The process of w dies and is started again; the ring reports both. *)
Crash(w) ==
  /\ Fault("crash")
  /\ Restart(w)
  /\ LeaveBehind(w)
  /\ calls' = [calls EXCEPT ![w] = [s \in Slots |->
                 IF calls[w][s].stage = "sent" THEN NoCall ELSE calls[w][s]]]
  /\ updates' = [updates EXCEPT ![w] = @ \o <<"DELETE", "INSERT">>]
  /\ UNCHANGED <<schedulerVars, fresh, tasks, loading, file, resets>>

(* The ring loses sight of a live w for a while. *)
Suspect(w) ==
  /\ Fault("suspect")
  /\ updates' = [updates EXCEPT ![w] = @ \o <<"DELETE", "INSERT">>]
  /\ UNCHANGED <<schedulerVars, machineVars, fresh, tasks, loading, file, calls, late, resets>>

(* The coordinator's own process leaves the ring and joins it again. *)
CoordinatorLeaves ==
  /\ Fault("leave")
  /\ OnWorkerLeaved
  /\ Detach(Workers)
  /\ updates' = [w \in Workers |-> Append(updates[w], "INSERT")]
  /\ UNCHANGED <<machineVars, fresh, tasks, loading, file, late>>

-----------------------------------------------------------------------------
CoordinatorNext ==
  \/ \E j \in Jobs : SubmitJob(j)
  \/ ProcessQueuedJob \/ JobLoaded \/ LoadFails
  \/ RescheduleJobs
  \/ FlushPendingJobs \/ FlushFails
  \/ BatchRepair \/ WorkerRepair
  \/ CoordinatorLeaves

CallNext(w) ==
  \/ \E s \in Slots : SendInference(w, s) \/ DeliverInference(w, s) \/ CallReturns(w, s) \/ CallFails(w, s)
  \/ ResetRuns(w)

QueryNext(w) ==
  \/ WorkerQueries(w) \/ QueryHandled(w) \/ DeadlinePasses(w)
  \/ Evaluated(w) \/ EvaluateFails(w)
  \/ \E r \in late[w] : LateQueryHandled(w, r)

MemberNext(w) ==
  \/ \E i \in 1 .. Len(updates[w]) : OnMemberUpdate(w, i)
  \/ Crash(w) \/ Suspect(w)

(* A panic ends the coordinator process. *)
Next ==
  /\ ~panicked
  /\ \/ CoordinatorNext
     \/ \E w \in Workers : CallNext(w) \/ QueryNext(w) \/ MemberNext(w)

Spec == Init /\ [][Next]_vars

(* The periodic goroutines of Corn and the workers' query cycles run for   *)
(* ever, RPCs without a deadline return, callbacks run.  An Inference call *)
(* competes for the worker's mutex with the query cycle: Go's mutex hands  *)
(* over to a waiter that has starved for 1 ms, hence strong fairness.      *)
Fairness ==
  /\ WF_vars(~panicked /\ ProcessQueuedJob) /\ WF_vars(~panicked /\ JobLoaded)
  /\ WF_vars(~panicked /\ RescheduleJobs)
  /\ WF_vars(~panicked /\ FlushPendingJobs)
  /\ WF_vars(~panicked /\ BatchRepair) /\ WF_vars(~panicked /\ WorkerRepair)
  /\ \A w \in Workers :
       /\ WF_vars(~panicked /\ WorkerQueries(w)) /\ WF_vars(~panicked /\ QueryHandled(w))
       /\ WF_vars(~panicked /\ Evaluated(w)) /\ WF_vars(~panicked /\ ResetRuns(w))
       /\ WF_vars(~panicked /\ \E i \in 1 .. Len(updates[w]) : OnMemberUpdate(w, i))
       /\ \A s \in Slots : /\ WF_vars(~panicked /\ SendInference(w, s))
                           /\ WF_vars(~panicked /\ CallReturns(w, s))
                           /\ SF_vars(~panicked /\ DeliverInference(w, s))

FairSpec == Spec /\ Fairness

-----------------------------------------------------------------------------
(* Properties *)

(* Every variable has its type; in particular a reply never carries a      *)
(* batch that does not exist and the queues hold only job ids.             *)
TypeOK ==
  /\ SchedulerTypeOK
  /\ WorkerTypeOK
  /\ fresh \subseteq Jobs /\ tasks \in Seq(Jobs) /\ loading \in Jobs \cup {Nil}
  /\ DOMAIN file = Jobs /\ \A j \in Jobs : file[j] \subseteq BatchesOf(j)
  /\ calls \in [Workers -> [Slots -> Call \cup {NoCall}]]
  /\ late \in [Workers -> SUBSET LateQuery]
  /\ updates \in [Workers -> Seq({"INSERT", "DELETE"})]
  /\ resets \subseteq Workers
  /\ faults \in [FaultKinds -> Nat]

(* A result file, even one left by a failed Put, holds the output of every *)
(* batch: FlushPendingJobs skips nil outputs silently, and never has to.   *)
ResultsComplete ==
  \A j \in Jobs : file[j] # {} \/ j \in completed => file[j] = BatchesOf(j)

(* The inductive invariant behind OutputProvenance and ResultsComplete: a  *)
(* request left behind is as genuine as any other, and a job is in one     *)
(* place only on its way from the client to the scheduler.                 *)
LateOrigin == \A w \in Workers : \A r \in late[w] : r.out # Nil => Genuine(r.job, r.out)

Scheduled == active \cup completed \cup Range(pending)
JobsApart ==
  /\ fresh \cap (Range(tasks) \cup Scheduled) = {}
  /\ Range(tasks) \cap Scheduled = {}
  /\ loading \notin fresh \cup Range(tasks) \cup Scheduled
  /\ \A m, n \in 1 .. Len(tasks) : tasks[m] = tasks[n] => m = n

ClusterInv ==
  /\ TypeOK
  /\ SchedulerInv
  /\ WorkerInv
  /\ LateOrigin
  /\ JobsApart
  /\ ResultsComplete

(* No batch is out with two workers, and no available batch is out with    *)
(* any (single job: see AssignedWorkerServes for what breaks it for two).  *)
ExclusiveHolder ==
  \A v, w \in Workers : holds[w] # Nil =>
    /\ v # w => holds[v] # holds[w]
    /\ holds[w].job \in active => status[holds[w].job][holds[w].id] # "Available"

(* A worker the coordinator counts as working on an active job does serve  *)
(* it, once its calls and the membership callbacks about it are through:   *)
(* otherwise the job waits for a worker that never queries.                *)
Settled(w) == updates[w] = <<>> /\ \A s \in Slots : calls[w][s] = NoCall
ServesItsJob(w) == w \in members /\ assigned[w] \in active => serving[w] = assigned[w]
AssignedWorkerServes == \A w \in Workers : Settled(w) => ServesItsJob(w)

(***************************************************************************)
(* Why the two hold when no worker is sent two jobs at once: there is only *)
(* one job, or a worker has one call in flight at a time (which the code   *)
(* does not ensure).  Then the calls to a worker are for one job, the one  *)
(* it is assigned to if any, and the batch it holds is of that job; a job  *)
(* that has not reached the scheduler is known to no worker and no call.   *)
(***************************************************************************)
Orderly == (\A i, j \in Jobs : i = j) \/ MaxCalls = 1

CallsOf(w) == {calls[w][s] : s \in Slots} \ {NoCall}
Unscheduled == {j \in Jobs : j \in fresh \/ j \in Range(tasks) \/ j = loading}

HoldsOwnBatch ==
  \A w \in Workers : holds[w] # Nil => w \in members /\ Genuine(assigned[w], holds[w])
CallsAgree ==
  \A w \in Workers : \A c, d \in CallsOf(w) : c.job = d.job /\ assigned[w] \in {Nil, c.job}
Unheard ==
  \A j \in Unscheduled, w \in Workers : assigned[w] # j /\ \A c \in CallsOf(w) : c.job # j
CalledServes ==
  \A w \in Workers : updates[w] = <<>> =>
    /\ ServesItsJob(w)
    /\ \A c \in CallsOf(w) :
         c.stage = "accepted" /\ c.known /\ c.job \in active => serving[w] = c.job

OrderlyInv ==
  Orderly => HoldsOwnBatch /\ CallsAgree /\ Unheard /\ CalledServes /\ ExclusiveHolder

(* A worker that does not run the job it is assigned to does not stay that *)
(* way: "For all workers that are not running on a particular job, reset   *)
(* it to idle state" (RefreshWorkerStatus).                                *)
MisassignmentRepaired == \A w \in Workers : []<>ServesItsJob(w)

(* The coordinator process does not panic. *)
NoPanic == ~panicked

(* A batch handed out is answered, or becomes available again, whatever    *)
(* happened to the worker that took it and to the reply that carried it.   *)
NoBatchStranded ==
  \A j \in Jobs : \A b \in 0 .. NumBatches[j] - 1 :
    (j \in active /\ status[j][b] = "InProgress") ~> (j \notin active \/ status[j][b] # "InProgress")

(* Every job that was accepted is delivered. *)
JobsDelivered == \A j \in Jobs : j \notin fresh ~> j \in completed

(* The cluster implements the service a client is promised. *)
PhaseOf(j) ==
  CASE j \in completed -> "delivered"
    [] j \notin completed /\ j \in Range(pending) -> "finished"
    [] j \notin completed \cup Range(pending) /\ j \in active -> "running"
    [] j \in fresh -> "new"
    [] j \in Range(tasks) \/ j = loading -> "accepted"
    [] OTHER -> "dropped"

Service == INSTANCE JobService WITH
  phase <- [j \in Jobs |-> PhaseOf(j)],
  answered <- [j \in Jobs |-> Answered(j)],
  stored <- file

ImplementsService == Service!ServiceSpec
=============================================================================

------------------------------ MODULE Scheduler ------------------------------
(***************************************************************************)
(* The coordinator's job scheduler: IDunnoScheduler (idunno/scheduler.go)  *)
(* and the ResourceManager it owns (idunno/resource_manager.go).  Every    *)
(* method runs under the coordinator's mutex, so each is one action.       *)
(***************************************************************************)
EXTENDS Params, Sequences, FiniteSets, Functions

CONSTANT Modes   \* the scheduling modes in use, a subset of {"global", "local"}

ASSUME ModesAssumption == Modes \subseteq {"global", "local"}

VARIABLES
  active,      \* keys of ActiveJobs
  pending,     \* PendingJobs, a queue of job ids
  completed,   \* keys of CompletedJobs
  status,      \* status[j][b]: BatchStates[b].Status
  output,      \* output[j][b]: BatchStates[b].BatchOutput
  counted,     \* counted[j]: job.CompletedQueries
  members,     \* keys of the ResourceManager
  assigned,    \* assigned[w]: Worker.JobId
  holds,       \* holds[w]: Worker.CurrBatchInput
  panicked     \* a goroutine of the coordinator process has panicked

jobVars == <<active, pending, completed, status, output, counted>>
workerVars == <<members, assigned, holds>>
schedulerVars == <<jobVars, workerVars, panicked>>

Status == {"Available", "InProgress", "Completed"}

(* A job's batches as ProcessQueuedJob builds them, before anyone queries. *)
FreshStatusOneTooMany(j) == [b \in 0 .. NumBatches[j] |-> "Available"]
FreshStatus(j) == [b \in BatchesOf(j) |-> "Available"]
NoOutput(j) == [b \in BatchesOf(j) |-> Nil]

NewScheduler ==
  /\ active = {}
  /\ pending = <<>>
  /\ completed = {}
  /\ status = [j \in Jobs |-> FreshStatus(j)]
  /\ output = [j \in Jobs |-> NoOutput(j)]
  /\ counted = [j \in Jobs |-> 0]
  /\ members = {}
  /\ assigned = [w \in Workers |-> Nil]
  /\ holds = [w \in Workers |-> Nil]
  /\ panicked = FALSE

-----------------------------------------------------------------------------
(* ResourceManager *)

GetIdleWorkers == {w \in members : assigned[w] = Nil}
GetWorkersById(j) == {w \in members : assigned[w] = j}

(* Worker.Reset, and the state of a Worker just added. *)
Reset(S) ==
  /\ assigned' = [w \in Workers |-> IF w \in S THEN Nil ELSE assigned[w]]
  /\ holds' = [w \in Workers |-> IF w \in S THEN Nil ELSE holds[w]]

-----------------------------------------------------------------------------
(* Jobs and their batches *)

Completed(j) == {b \in BatchesOf(j) : status[j][b] = "Completed"}

AddJob(j) ==
  /\ active' = active \cup {j}
  /\ UNCHANGED <<pending, completed, status, output, counted, workerVars, panicked>>

(* What one QueryData request of worker w makes of the scheduler.  The     *)
(* request names a job and may carry the output of the batch the worker    *)
(* evaluated last.  An output is recorded for any active job, before the   *)
(* request is refused because the worker is not assigned to that job.      *)
Known(w, j) == w \in members /\ j \in active
Reports(w, j, out) == Known(w, j) /\ out # Nil

StatusAfterReport(w, j, out) ==
  IF Reports(w, j, out) THEN [status EXCEPT ![j][out.id] = "Completed"] ELSE status

(* FetchBatchInput: the available batch with the least BatchId, if any. *)
FetchBatchInput(j, stat) ==
  LET avail == {b \in BatchesOf(j) : stat[j][b] = "Available"}
  IN IF avail = {} THEN Nil
     ELSE [job |-> j, id |-> CHOOSE b \in avail : \A c \in avail : b <= c]

(* The batch input of the reply; Nil for an error and for a nil batch. *)
Reply(w, j, out) ==
  IF Known(w, j) /\ assigned[w] = j
    THEN FetchBatchInput(j, StatusAfterReport(w, j, out))
    ELSE Nil

(* CompletedQueries >= TotalQueries, and the search of PendingJobs. *)
AllReceivedButOne(j, count) == count + 1 >= NumBatches[j]
AllReceived(j, count) == count >= NumBatches[j]

NeverPending(j) == FALSE
IsPending(j) == j \in Range(pending)

(* OnReceiveBatchOutput: what it does to the job, ... *)
RecordOutput(w, j, out) ==
  LET stat == StatusAfterReport(w, j, out)
      count == Cardinality({b \in BatchesOf(j) : stat[j][b] = "Completed"})
  IN IF Reports(w, j, out)
       THEN /\ output' = [output EXCEPT ![j][out.id] = out]
            /\ counted' = [counted EXCEPT ![j] = count]
            /\ pending' = IF AllReceived(j, count) /\ ~IsPending(j)
                            THEN Append(pending, j) ELSE pending
       ELSE UNCHANGED <<output, counted, pending>>

(* ... to the worker, which is left with no batch when the reply has none, *)
HoldsUntilReplaced(w, j, out) ==
  IF Reply(w, j, out) # Nil THEN [holds EXCEPT ![w] = Reply(w, j, out)] ELSE holds
HoldsAfter(w, j, out) ==
  IF Reports(w, j, out) \/ (Known(w, j) /\ assigned[w] = j)
    THEN [holds EXCEPT ![w] = Reply(w, j, out)] ELSE holds

(* ... and the whole handler. *)
QueryData(w, j, out) ==
  LET stat == StatusAfterReport(w, j, out)
      reply == Reply(w, j, out)
  IN /\ RecordOutput(w, j, out)
     /\ status' = IF reply = Nil THEN stat ELSE [stat EXCEPT ![j][reply.id] = "InProgress"]
     /\ holds' = HoldsAfter(w, j, out)
     /\ UNCHANGED <<active, completed, members, assigned, panicked>>

-----------------------------------------------------------------------------
(* Periodic repair *)

(* Workers whose job is not active any more become idle. *)
RefreshWorkerStatus ==
  /\ Reset({w \in members : assigned[w] \notin active})
  /\ UNCHANGED <<jobVars, members, panicked>>

HeldBy(j) == {holds[w].id : w \in {v \in GetWorkersById(j) : holds[v] # Nil}}
EveryOneInProgress(j) == {b \in BatchesOf(j) : status[j][b] = "InProgress"}
Orphaned(j) == {b \in BatchesOf(j) : status[j][b] = "InProgress" /\ b \notin HeldBy(j)}

(* A batch in progress that no worker of its job holds becomes available. *)
RefreshBatchStatus ==
  /\ status' = [j \in Jobs |-> [b \in BatchesOf(j) |->
                  IF j \in active /\ b \in Orphaned(j) THEN "Available" ELSE status[j][b]]]
  /\ UNCHANGED <<active, pending, completed, output, counted, workerVars, panicked>>

-----------------------------------------------------------------------------
(* Scheduling *)

(* Local mode divides by the number of completed batches.  That is zero    *)
(* for a job whose completed batches all became available again while its  *)
(* CompletedQueries is still positive: the share of every job is NaN.      *)
Undefined(j) == counted[j] > 0 /\ Completed(j) = {}
SharesUndefined(mode) == mode = "local" /\ \E j \in active : Undefined(j)

(* What ralloc may return.  The global allocation uses every worker.  The  *)
(* local one rounds each share, so it leaves at most half a worker per job *)
(* unused.  Which job gets how much depends on measured times: any split.  *)
Allocations(mode) ==
  LET n == Cardinality(members)
  IN {a \in [active -> 0 .. n] :
        /\ SumFunction(a) <= n
        /\ 2 * (n - SumFunction(a)) <= IF mode = "global" THEN 0 ELSE Cardinality(active)}

Busy == {w \in members : assigned[w] \in active}
Idle(released) == GetIdleWorkers \cup released
Got(schedule, j) == {w \in Workers : schedule[w] = j}

(* Job j gives up its surplus over a[j] workers; the time order that picks *)
(* which ones is left open.                                                *)
ReleasesSurplus(a, released, j) ==
  LET n == Cardinality(GetWorkersById(j))
  IN Cardinality(released \cap GetWorkersById(j)) = IF n > a[j] THEN n - a[j] ELSE 0

(* Idle workers, in the map's random order, go to the jobs in id order     *)
(* until each has a[j] or no idle worker is left.                          *)
FillsDeficits(a, released, schedule) ==
  LET count(j) == Cardinality(GetWorkersById(j) \ released) + Cardinality(Got(schedule, j))
      short(j) == count(j) < a[j]
  IN /\ \A w \in Workers : schedule[w] # Nil => w \in Idle(released)
     /\ \A j \in active : count(j) > a[j] => Got(schedule, j) = {}
     /\ \A j \in active : short(j) => /\ \A w \in Idle(released) : schedule[w] # Nil
                                      /\ \A k \in active : k > j => Got(schedule, k) = {}

(* The workers RefreshSchedule releases and the calls it asks for.  With   *)
(* undefined shares the conversion of NaN to int is the smallest integer   *)
(* or zero, by architecture: nothing is released, or everything; and no    *)
(* worker is scheduled.                                                    *)
Plan(mode, released, schedule) ==
  IF SharesUndefined(mode)
    THEN released \in {{}, Busy} /\ schedule = [w \in Workers |-> Nil]
    ELSE \E a \in Allocations(mode) :
           /\ \A j \in active : ReleasesSurplus(a, released, j)
           /\ FillsDeficits(a, released, schedule)

(* BatchStates is indexed with the BatchId of the batch the worker holds:  *)
(* out of range if that batch was cut from another, larger job.            *)
BadIndex(w) == holds[w] # Nil /\ holds[w].id \notin BatchesOf(assigned[w])

GivenBack(released, j) ==
  {holds[w].id : w \in {v \in released : assigned[v] = j /\ holds[v] # Nil}}

RefreshSchedule(released) ==
  /\ panicked' = \E w \in released : BadIndex(w)
  /\ status' = [j \in Jobs |-> [b \in BatchesOf(j) |->
                  IF b \in GivenBack(released, j) THEN "Available" ELSE status[j][b]]]
  /\ Reset(released)
  /\ UNCHANGED <<active, pending, completed, output, counted, members>>

-----------------------------------------------------------------------------
(* Membership callbacks *)

OnWorkerFailed(w) ==
  LET gives == w \in members /\ assigned[w] \in active /\ holds[w] # Nil
  IN /\ members' = members \ {w}
     /\ panicked' = (gives /\ BadIndex(w))
     /\ status' = IF gives /\ ~BadIndex(w)
                    THEN [status EXCEPT ![assigned[w]][holds[w].id] = "Available"] ELSE status
     /\ Reset({w})
     /\ UNCHANGED <<active, pending, completed, output, counted>>

OnWorkerJoined(w) ==
  /\ members' = members \cup {w}
  /\ Reset({w})
  /\ UNCHANGED <<jobVars, panicked>>

OnWorkerLeavedClearsAll ==
  /\ members' = {}
  /\ active' = {}
  /\ pending' = <<>>
  /\ Reset(Workers)
  /\ UNCHANGED <<completed, status, output, counted, panicked>>

(* The coordinator itself leaves: pending jobs are kept. *)
OnWorkerLeaved ==
  /\ members' = {}
  /\ active' = {}
  /\ Reset(Workers)
  /\ UNCHANGED <<pending, completed, status, output, counted, panicked>>
-----------------------------------------------------------------------------
(* The types of the scheduler's variables: a batch has a status and an     *)
(* output exactly when ProcessQueuedJob created it.                        *)
SchedulerTypeOK ==
  /\ active \subseteq Jobs /\ completed \subseteq Jobs /\ pending \in Seq(Jobs)
  /\ DOMAIN status = Jobs /\ \A j \in Jobs : status[j] \in [BatchesOf(j) -> Status]
  /\ DOMAIN output = Jobs /\ \A j \in Jobs : output[j] \in [BatchesOf(j) -> Batch \cup {Nil}]
  /\ counted \in [Jobs -> Nat]
  /\ members \subseteq Workers
  /\ assigned \in [Workers -> Jobs \cup {Nil}]
  /\ holds \in [Workers -> Batch \cup {Nil}]
  /\ panicked \in BOOLEAN
(* The output recorded for a batch was computed from that batch of that    *)
(* job, although a worker changes jobs while outputs are on their way,     *)
(* FinishInference does not take the worker's mutex, and a request may be  *)
(* handled long after its sender gave up (OnReceiveBatchOutput).           *)
OutputProvenance ==
  \A j \in Jobs : \A b \in BatchesOf(j) :
    output[j][b] # Nil => output[j][b] = [job |-> j, id |-> b]

(* A job is queued for flushing once, and never queued or active again     *)
(* after it was flushed, however many workers report its last batch.       *)
FlushedOnce ==
  /\ \A m, n \in 1 .. Len(pending) : pending[m] = pending[n] => m = n
  /\ completed \cap (active \cup Range(pending)) = {}

(* What makes FlushedOnce and the completeness of results inductive: the   *)
(* status of a batch never runs ahead of its output, and a job that waits  *)
(* for its flush lacks no output.                                          *)
CompletedHasOutput == \A j \in Jobs : \A b \in Completed(j) : output[j][b] # Nil
FinishedIsAnswered ==
  \A j \in completed \cup Range(pending) : \A b \in BatchesOf(j) : output[j][b] # Nil

SchedulerInv ==
  /\ SchedulerTypeOK
  /\ OutputProvenance
  /\ CompletedHasOutput
  /\ FinishedIsAnswered
  /\ FlushedOnce
=============================================================================

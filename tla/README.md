# A verification project for IDunno

IDunno (`src/`) is a distributed cluster that runs machine-learning inference
jobs. This directory holds TLA+ modules that model its core, TLC configurations
that check them on small instances, and theorems that TLAPS checks for every
size. `PROJECT.json` maps every definition to the lines of code it models.

## 1. The system

Every process runs the same program (`idunno/main.go`): a member of a ring that
detects failures, a server of a distributed file system (SDFS), a worker, and a
coordinator that is in charge only on the ring's leader.

| component | state | operations | talks to |
|---|---|---|---|
| scheduler (`idunno/scheduler.go`) | ActiveJobs, PendingJobs, CompletedJobs; status and output of each batch | AddJob, OnReceiveBatchOutput, RefreshBatchStatus, RefreshWorkerStatus, RefreshSchedule, OnWorkerFailed/Joined/Leaved | called under the coordinator's mutex |
| resource manager (`resource_manager.go`) | per worker: JobId, CurrBatchInput, LastQueryTime | add, remove, reset, look up | owned by the scheduler |
| coordinator (`coordinator.go`, `coordinator_service.go`) | TaskQueue, model store, flags | seven periodic goroutines (Corn), RPC services Train, Inference, QueryData, Backup, status | workers by RPC, SDFS, ring by callbacks |
| worker (`worker.go`, `worker_service.go`) | JobId, BatchOutput | QueryDataCycle, Inference, FinishInference, Train | coordinator, model runner, SDFS |
| job bookkeeping (`api/job.go`) | a job's batches, counters, times | FetchBatchInput, GetResults, rates | scheduler, ralloc |
| allocation (`ralloc/ralloc.go`) | none | GlobalFairTimeRalloc, LocalFairTimeRalloc | scheduler |
| ring and DNS (`ring/`, `dns/`) | membership list, expiration pool; leader address | ping, ack, join, leave, failure, recycle; lookup, update, clear | callbacks into SDFS and coordinator |
| SDFS server (`sdfs/server.go`, `service.go`, `file_table.go`, `hash_ring.go`) | file table with versions, hash ring, signals, delete pool, sequence counter, files on disk | read, write, delete, lookup, bulk lookup, fetch sequence, recycle, converge | other SDFS servers; the ring's list and pool, read directly |
| SDFS client (`sdfs/client*.go`) | none between commands | put, get, delete, list: a sequence number from the leader, then a quorum of the replicas | SDFS servers |
| failover (`coordinator.go`, `coordinator_service.go`) | a copy of the jobs at the successor | BackupCoordinatorData, Backup, OnBecomeCoordinator | successor's coordinator |

The life of a job: a client's Inference request puts a task in TaskQueue;
ProcessQueuedJob reads its dataset and cuts it into batches; RescheduleJobs
decides how many workers each job gets, takes workers away, and sends Inference
calls to idle ones from goroutines it does not wait for. A worker asks for a
batch with QueryData, which carries the output of its previous batch. When all
batches are answered the job is queued, and FlushPendingJobs tells the workers,
writes the results to SDFS and moves the job to CompletedJobs. Two periodic
repairs return orphaned batches and misplaced workers to the pool.

A process joins the ring through the leader it finds in the DNS record. It pings
its successors with its whole list; who does not answer is suspected, put in an
expiration pool, and removed some seconds later. Every change of the list starts
two goroutines: one may write the DNS record, one tells SDFS and the coordinator.
An SDFS server that has been told transfers files until each is at its replicas
again (Converge), and drops the files it is no replica of (Recycle).

What is hard: Inference calls in flight overlap (a worker looks idle until the
call returns); pointers to workers and jobs are used after the lock was released
and retaken; requests are handled after their sender gave up; membership
callbacks run in goroutines of their own; FinishInference does not take the
worker's mutex; a flush that fails half-way is repeated; a job's progress rests
on several periodic goroutines together. In the ring, the list is gossip, an ack
and a suspicion race, and an address outlives its process. In SDFS, a client
reads a hash ring that is being rebuilt, requests are handled after their command
ended, and the list, the signal and the hash ring of a server change in three
steps, at other times on every server. `PROJECT.json` lists these hazards at
their lines, including the ones no property covers yet.

What makes the parts correct: an output is filed under the batch it was computed
from; a job is flushed once, with every output; no batch is out with two workers;
what the coordinator believes about a worker becomes true or is repaired; no
batch stays in progress for ever and every accepted job is delivered, or was
visibly dropped. In the ring: the pool holds the suspects and nobody else, the
dead stay dead, the earliest process alone calls itself leader, everybody is
pinged. In SDFS: a Get sees every Put that succeeded before it, a later Put is the
newer one, what was deleted does not come back, a file survives a change of
membership and ends up at every replica.

## 2. Modules

* `Params`: jobs, workers, batches. A job is the rank of its id (RefreshSchedule
  sorts ids); a batch, input or output, is its job and its BatchId, so that a
  property can say what an output was computed from. The code itself compares
  BatchIds only, and so does the model.
* `Scheduler`: scheduler and resource manager. One operator per method; each runs
  under the coordinator's mutex and is atomic. `assigned[w]` and `holds[w]` are
  Worker.JobId and Worker.CurrBatchInput of the object now in the ResourceManager.
  Which workers are released and in which order idle ones are used depends on
  times and on Go's map order: left open. Allocations are any that `Ralloc` shows
  to be possible. Indexing BatchStates out of range sets `panicked`.
* `Worker`: the worker. QueryData holds the worker's mutex throughout, so its
  program counter is the mutex.
* `Cluster`: composes the two with the goroutines of Corn, the RPCs and
  membership. `calls[w]` are the Inference goroutines, with the stages between
  which others can run: dialed, sent (ActiveJobs has been read), accepted, and
  whether their *Worker is still the one in the ResourceManager. `late[w]` are
  QueryData requests whose deadline passed. `updates[w]` are callbacks not run
  yet. `resets` are the deferred Reset calls of a flush, which run after the
  WaitGroup is released. `file[j]` is the job's result file.
* `JobService`: what a client is promised, as an abstract specification.
  `Cluster` is shown to implement it with `phase` read off the queues a job is in.
* `Ralloc`: both allocation algorithms, with naturals for floating-point rates
  and exact rounding.
* `Ring`: membership ring and DNS record. `self[n]` is server.Process, `list[n]`
  and `pool[n]` are MembershipList and ExpirationPool, `pings[n]` the ping
  goroutines of a tick with the stage each has reached, `join[n]` a running Join,
  `notified` and `decided` the UpdateLeader goroutines before and after their
  decision, `net` the datagrams on the way. A handler is one step: it holds the
  lock. A list is a set because its order is that of the join times.
* `HashRing`: the consistent-hash ring as pure operators, probing included. Keys
  that collide are kept in the order of the list; sort.Sort would leave them in
  some order.
* `SDFS`: servers and clients. `table`, `disk`, `trash`, `signal`, `hashRing` and
  `counter` are the fields of SDFSServer and its directory; `storing` the Write
  handlers between the file table and the disk; `transfers` the TransferFiles
  goroutines of a Converge; `ops` the commands with the servers they still ask and
  the answers they have. The ring is in it as what it does to a server: `members`,
  `suspects` and the goroutines that announce a change (`callbacks`).
* `SchedulerProofs`, `ClusterProofs`, `ServiceProofs`, `RingProofs`,
  `LeaderProofs`, `SDFSProofs` (with the hash ring), `QuorumProofs`,
  `RallocProofs`: theorems and lemmas. `MCCluster`, `MCRing`, `MCSDFS`: instances for TLC.

Abstractions that matter to a reader:

* QueryData's handling and the arrival of its reply are one step. If the reply is
  lost or late, that is `DeadlinePasses` followed by `LateQueryHandled`.
* An Inference call that fails after it was sent is gone: the case in which the
  worker handles it although the coordinator has seen an error is left out.
* FinishInference's two assignments are one step. It runs while the coordinator
  holds its lock and has already removed the job, so a request that reads the
  state in between is refused as any request for that job is.
* A flush is one step up to the Reset calls: it holds the lock from end to end.
  Workers it cannot reach (errors are ignored) are part of it. Put may fail with
  or without having written the file.
* In `Cluster` a crash restarts the worker's process and announces DELETE and
  INSERT. `Suspect` announces them for a worker that is alive. How the ring comes
  to do so is the business of `Ring`.
* The coordinator's process does not crash: see failover below.
* A panic anywhere ends the coordinator process, and the behaviour.
* In `Ring` the clock moves at every reading, so no two processes have the same
  join time. The pings of a tick end before the next (PING_TIMEOUT is half of
  INTERVAL); the datagram of a ping that timed out may still arrive. Ticks of a
  process that knows no other are left out: nobody can see them. Goroutines of
  UpdateLeader are not counted, there may always be one more. `Cron` is one step
  where the code takes the lock three times, to recycle the pool, to stamp its own
  entry and to copy the list. A process whose Join waits for its reply to be read
  is not suspected: a ping of it was sent after that reply and has the same
  READ_TIMEOUT, so it does not end first; this is an argument about time, not a
  check in the code. An answer that comes too late, to a ping or to a Join, is a fault; that
  a dead process does not answer is none, so a Join at a dead introducer fails, and
  may be repeated, without one. `MaxFaults` bounds the faults of all kinds in `Faults`
  together; any of them may happen again.
* In `SDFS` a version's content is its sequence number. A list changes in one
  step per server; members that are running are not suspected, and a crashed
  server does not come back. A read of a file that is still being written is not
  modelled; a read of a version that is not on the disk yet may come from the
  cache or fail. One command at a time per client. A request fails unhandled if
  its server is down, or by an error of the network; it is not sent again. `errors`
  bounds such errors, failed disk writes and reads of half a hash ring together. A
  transfer of Converge fails if the other server is down or the file not on the
  disk yet; errors of the network are left to the commands.

Bounds: in `Cluster` `MaxCalls` calls in flight per worker, `MaxFaults` of each kind
and `MaxFaultsInAll` together. They guard actions, so the specification of a run is
the system with at most that many.

## 3. Runs

Job 1 has two batches and job 2 one, so that a batch of one job can be out of
range for the other, and "the last batch" differs from "the batch".

| run | instance | shows |
|---|---|---|
| `one_job` | 1 job, 2 workers, any two of five faults, callbacks reordered | TypeOK; ExclusiveHolder; AssignedWorkerServes |
| `two_jobs` | 2 jobs, 1 worker, both modes, any two of missed deadline, failed evaluation, suspicion, leave, failed Put, unreadable dataset; callbacks reordered | OutputProvenance; ResultsComplete; FlushedOnce; ImplementsService (refinement) |
| `liveness` | 1 job, 2 workers, any one fault, fair | NoBatchStranded; JobsDelivered |
| `ralloc` | up to 3 jobs, 3 workers, rates up to 4 | UsesEveryWorker; WastesHalfAWorkerPerJob; FairForTwo |
| `ring` | 3 processes, 1 founder, 6 readings of the clock, any one of crash and restart, leave, late answer, cleared DNS record | TypeOK; PoolIsSuspects; DeadStaysDead; LeaderIsEarliest |
| `sdfs_quorum` | 3 servers, all replicas, R = W = 2; a Put, a Put or Delete, a Get or List; one error | TypeOK; GetSeesEarlierPuts; DeletedStaysDeleted |
| `sdfs_change` | 2 servers and 2 replicas, W = 2; a Put; a third server joins or one crashes | Durable |
| `sdfs_crash` | 3 servers, 2 replicas, W = 2; two Puts; any server crashes | Durable; LaterPutIsNewer |

Two workers are the least for a batch to be held twice or handed over; one
worker and two jobs are the least for a worker to change jobs. ExclusiveHolder and
AssignedWorkerServes are checked with one job and one call in flight because a worker that is scheduled twice breaks both for
two: that is the finding of `double_schedule`.
With one call in flight per worker RescheduleJobs waits for that call whenever it
would schedule the worker again, so `one_job`, `two_jobs` and `liveness` do not
reach double scheduling; `panic` and `double_schedule` allow two calls and do. The
four properties of `two_jobs` are proved for any number of calls in flight.

Six readings of the clock are three joins and then a tick, a suspicion and a tick
that removes the suspect, or two rounds of pings; an election by a third member
after a crash takes one more, which is beyond what TLC does in reasonable time and
is left to the theorem EarliestElected. Two replicas of three servers
are the least for which a newcomer takes a replica's place and that replica drops
the file while it is the only other copy, and for which the crash of a replica
makes the third server one; three replicas with quorums of two are
the least in which a quorum misses somebody. MAX_SUCCESSORS is 6, REPLICA_COUNT 4
and the quorums 2 and 3 in the code: the instances keep the relations between
them (R + W > N, N - 1 successors), which `ConsistencyAssumption` states.

The properties say where they stop. PoolIsSuspects holds while no address joins
twice (the pool knows addresses, the list processes) and says nothing of the own
address, which may be in the list twice (`join_race`): recycling one of the two
entries leaves the other suspected and in no pool. LeaderIsEarliest holds with
one crash and without restarts, leaves and late answers; a process that is wrongly
suspected loses its place. GetSeesEarlierPuts and DeletedStaysDeleted hold while
membership does not change and for commands that saw a whole hash ring.
DeletedStaysDeleted is about a file with one Put: of two Puts, the replicas that
are late with either may together be enough to answer a Get after the Delete.
LaterPutIsNewer is about commands at founding members. A newcomer knows only
itself at first and numbers its own commands by its own, later join time, so that a
Put elsewhere that follows gets the smaller number.
ReplicatedOnceConverged is about Puts that ended before the change: the leader
refuses sequence numbers only by its own state, so a client with an older ring can
put a file where it is not looked for. No run claims it: `lost_transfer` shows one
way in which it fails, and there are others. With three servers and two replicas, a
Put is at s2 and s3, and s3 crashes. s2 removes s3 from its list and transfers the
file to s1; s1, which still lists s3, recycles it as a file it is no replica of;
then s1 removes s3, too, and stays a replica without the file. If fewer answers
than replicas make a Put succeed, a replica at which the request failed stays
behind even while membership does not change.

Four runs show where the code does not do what its comments say; TLC's
counterexample is the evidence.

| run | property | what happens |
|---|---|---|
| `double_schedule` | MisassignmentRepaired | an idle worker is sent two jobs; the calls are served in one order and return in the other; the worker is refused for ever (`coordinator.go:311-346`) |
| `panic` | NoPanic | ActiveJobs is read, without the lock, after the job was flushed (`coordinator.go:322`) |
| `join_race` | PingsEveryOther | a process hears of itself before its Join ends, is then twice in its own list, and pings nobody again (`ring/service.go:294-295`, `ring/server.go:144`) |
| `lost_transfer` | ReplicatedOnceConverged | Recycle refreshes the hash ring between a change of the list and its signal; Converge then sees no file that moved, and the new server in charge of the file never gets it (`sdfs/server.go:179, 214-246`) |

Two more disagreements were found with `Cluster` and have no run of their own. A
removed worker's batch is made available although its output has been received
(`scheduler.go:120-122, 206`), so a completed batch can be evaluated again; the
results stay complete (ResultsComplete), and the job is flushed once. After that,
local mode can divide zero by zero (`api/job.go:35`) and schedule nobody again,
which is why `liveness` is about global mode.

Deadlock checking is off: a cluster with all jobs delivered, a ring whose clock
has run to its bound and a file system whose commands are done may stop.

Each property has a mutant in `PROJECT.json`: a plausible slip in one mapped
definition that makes TLC report the property violated.

### Fairness

`FairSpec` assumes weak fairness of the goroutines of Corn (each loops for ever
and takes the lock), of the workers' query cycles, of RPCs, the handlers and
callbacks. An Inference call at a worker competes for the worker's mutex with
QueryDataCycle, so it is enabled only now and then: it gets strong fairness,
which Go's mutex provides by handing itself over to a waiter that has starved
for a millisecond. No fairness is assumed of faults, of requests that were left
behind, or of clients. All fairness is conditional on the coordinator not having
panicked. The liveness run assumes that callbacks about one address run in order
(`CallbacksInOrder`). The code starts a goroutine for each and does not
guarantee this; if a DELETE overtakes the INSERT that follows it, a live worker
is missing from the ResourceManager until the ring next changes, and a cluster
that has no other makes no progress.

## 4. Proofs

Theorems hold for every value of the constants that the assumptions allow. Each
inductive invariant was checked with TLC, on the instances of the runs, before it
was proved.

| module | theorem | statement |
|---|---|---|
| `ClusterProofs` | TypeCorrect | `Spec => []TypeOK` |
| | Provenance | `Spec => []OutputProvenance` |
| | Completeness | `Spec => []ResultsComplete` |
| | NoSecondFlush | `Spec => []FlushedOnce` |
| | Inductive | `Spec => []ClusterInv` |
| | OneHolder | `Spec => [](Orderly => ExclusiveHolder)` |
| | AssignedIsServed | `Spec => [](Orderly => AssignedWorkerServes)` |
| | OrderlyInductive | `Spec => []OrderlyInv` |
| `ServiceProofs` | Refinement | `Spec => ImplementsService` |
| `RingProofs` | TypeCorrect | `Spec => []TypeOK` |
| | NobodyRevived | `Spec => DeadStaysDead` |
| | OneProcessPerAddress | `Spec => []RingInv` |
| | PoolFollowsList | `Spec => []PoolIsSuspects` |
| `LeaderProofs` | EarliestElected | `Spec => [](OneFounder => LeaderIsEarliest)` |
| | LeaderInductive | `Spec => []LeaderInv` |
| `SDFSProofs` | TypeCorrect | `Spec => []TypeOK` |
| `QuorumProofs` | ReadsSeeWrites | `Spec => []GetSeesEarlierPuts` |
| | DeletesAreFinal | `Spec => []DeletedStaysDeleted` |
| | PutsAreDurable | `Spec => [](changes = 0 => Durable)` |
| | LaterPutsAreNewer | `Spec => []LaterPutIsNewer` |
| `RallocProofs` | EveryWorkerUsed | `Spec => []UsesEveryWorker` |
| | RoundingWastesLittle | `Spec => []WastesHalfAWorkerPerJob` |
| | TwoJobsAreFair | `Spec => []FairForTwo` |

### The cluster

The theorems of `ClusterProofs` are for every set of jobs, number of batches,
workers, calls in flight and faults, and with callbacks in any order. The first
four follow from one inductive invariant, `ClusterInv` (theorem `Inductive`).
None of them is inductive alone. An output recorded is genuine because the one in the
request was: that needs StepOrigin (the batch a worker waits with or runs belongs
to the job of that round, even if FinishInference strikes meanwhile),
ResultOrigin (the output a worker keeps is of the job it serves, which is why
Inference must clear it) and LateOrigin (the same of requests left behind).
Files are complete because a queued job has every output (FinishedIsAnswered).
That is not "every batch is Completed", which is false: a batch of a queued job
may be reopened. It holds because outputs are never removed, CompletedHasOutput
ties status to output when the count is taken, and a count of NumBatches means
every batch (AllReceivedMeansAll, a cardinality argument). A flushed job does not
come back because its id is in one place only on the way to the scheduler
(JobsApart).

OneHolder and AssignedIsServed need that no worker is sent two jobs at once,
which is what breaks both (`double_schedule`): there is one job, or a worker has
one call in flight (`Orderly`; the code ensures neither). `OrderlyInv` says what
follows from it. The calls to a worker are for one job, and its assignment is that
job or none (CallsAgree). The batch it holds is of that job (HoldsOwnBatch), so
giving the batch back never indexes BatchStates out of range and never reopens
the batch of another job. A job that has not reached the scheduler is known to no
call and no worker (Unheard), so accepting one assigns nobody. When its callbacks
are through, a worker serves what it is assigned to, and what a call it has
accepted is about (CalledServes): the step in which the assignment is written is
covered by the call, and a worker that crashed has a callback to come. The repairs
are the hard steps: RefreshBatchStatus reopens only what nobody holds, and
QueryData hands out only what is available.

`SchedulerProofs` has one lemma per scheduler method: whoever calls it, it
preserves SchedulerInv. Methods that only reopen batches share ReopeningInv.
`ClusterProofs` has one lemma per part of the state, each going through the
actions. Assumptions: jobs are naturals, each has at least one batch (a dataset
file always splits into at least one input), nil is neither a job nor a batch.

`ServiceProofs` shows that every step of `Cluster` is a step of `JobService` or a
stutter. With ClusterInv a job is in one structure of the coordinator at a time,
so its phase is where it is; a step that moves no job is a stutter, and the few
that do are matched one by one. That a stored result is complete is
FinishedIsAnswered again.

### The ring

NobodyRevived is an action property and needs little more than types: whatever a
step says of a process it has read from a list or a message, or the process is
being born, or it is the process itself; an ack stamps an entry and does not
change its status. It is proved for every number of crashes, restarts, rejoins and
leaves.

PoolIsSuspects is not inductive. OnPing, OnFailure and RecyclePool treat pool and
list by different keys, so the proof needs that an address has one process.
`RingInv` says so: all records of an address, in the lists and in the pings on
their way, have one join time (RecordsAgree); there is no record before the
introducer answers the Join (RequestsOnce, Unborn); nobody suspects a process
whose Join has not ended; a list has one entry per address but for the own
(EntriesApart), and so has a message (MessagesApart).

LeaderIsEarliest is about what a process does not know: UpdateLeader elects
whoever is first in its own list, and a list is gossip. `LeaderInv` says what may
be missing. While the founder is up it is the only introducer, its list has
everybody who was born, and every list and every ping that names a process names
all who were born before it (Complete). After the founder's crash that fails for
processes that were born in between, but it still holds of the eldest survivor,
which is all an election needs; whoever is elected is the eldest (Leaders), and
introduces everybody who is born later. Around it: at most one process is down
(OneDown), a join time is given to one process, long before it learns of it
(Births), a record of a running process has its join time and no suspicion
(RecordsTrue), and a pool names only who is down (PoolsDown), which is where a late
answer would break the argument. The assumptions are one founder (two processes
that find the DNS record empty make two rings), and what `Calm` says: nobody has
left, answered late or begun a second Join, and at most one process has crashed and
is still down. The first Join may fail and is over then.

### SDFS

`SDFSProofs` begins with what the rest needs to know of the hash ring: placing and
sorting keep the number of nodes, also when keys collide and probing ends without
a free one; FindReplicas gives servers, at most as many as asked for and as there
are nodes. Facts about the recursive Place are proved by a least counterexample
(lemma Least), since induction with an operator parameter is out of reach.
It goes on to describe what becomes of a command (RoutedIs, AcknowledgedIs,
FinishIs) and to prove the types. TypeOK is not inductive: the newest of a Get's
answers and the latest of a server's versions exist because there are finitely
many, which TypeInv adds.

`QuorumProofs` proves the guarantees of the quorums from `QuorumInv` of
`SDFS`. While membership does not change every whole hash ring is the founding one
(Settled), a server answers a command once (Answered), what is stored is of Puts
(Written); whoever answered a Put, or is about to, holds its version, and for one
that succeeded they are a write quorum that has nothing of it left to handle
(PutsHeld). What a Get hears from that quorum is not older than the Put
(GetsHear); a read quorum meets it (QuorumsMeet), also in a ring with fewer nodes
than REPLICA_COUNT, where GetConsistencyLevel cuts both numbers down. A Delete
hears from every replica, so it leaves the quorum without versions and without a
request that could bring one back (DeletesEmpty), and the other replicas are too
few for a Get (GetsMiss).

PutsAreDurable adds the disks. A server answers a Put after writing the file, but
it also answers at once when it has the version already, and the file table has
it before the disk. That case does not arise: sequence numbers of Puts are all
different and a server is asked once (Numbered). Recycle deletes from the disk
what is in the trash, and a replica has nothing of an undeleted file there, since
it drops only files it is no replica of (NotInTrash). So the quorum that answered
keeps the file on its disks (PutsStored), and it is not empty: a command that
waits for no answer fails. The theorem stops at the first membership change, see
below.

LaterPutsAreNewer holds whatever servers crash and join. A number is the join time
of the leader who gave it and the leader's count; a new leader counts from zero, so
all rests on the order of leaders. `NumberInv` says that a founding member that runs
is in the list of every other one and in no pool, so the leader that a founding
member looks up is never younger than one of those that run; and that the number of
a Put is not above what any of them would give out. The assumption is that newcomers
have later join times than founding members.

`Onward` says once what a step does to commands and file
tables; one lemma per action shows that it is such a step, one lemma per conjunct
that such a step preserves it. Assumptions: R + W > N, R and W at most N, as in
`sdfs/client.go`; different join times; finitely many servers; hash values are
naturals.

### The allocations

The theorems of `RallocProofs` are for every number of jobs and workers, all rates
that are 0 without a worker, positive with one and never fall, and all positive
times. The state is one call, so the invariant is that an allocation is the result
of its call, and the work is in what the algorithms compute. Both are recursive
functions: Recursion shows that a function with given first value and step exists,
and properties of its values go by a least counterexample (Least, UpTo). A sum
over a function is that of its partial sums (SumsExist, SumsAre, PartialSums).
The dynamic program gives every cell at most the workers it shares out (Rows), and
the first job all that are left, so reading the table back ends with none left and
the allocations telescope to m (GlobalIs). For two jobs a cell of the last row
compares whole splits (GapIs), so the best cell is the best split (GlobalOfTwo);
for three it compares only what the kept way of the row before allows. For the
local algorithm, OwedIs bounds what is left after i jobs by the exact remainder
plus a half per job, as long as anything is left.

TLC evaluates all assumptions in the runs.

### Only model-checked

* ExclusiveHolder and AssignedWorkerServes are proved where `Orderly` holds and
  are false for two jobs and two calls in flight (`double_schedule`).
  LeaderIsEarliest is proved for one founder; it is checked on no instance with
  two.
* Durable across a membership change. That a newcomer displaces at most one
  replica, and a crash none of the survivors, is about neighbours in two hash
  rings, where a key may depend on the keys placed before it; and the newcomer's
  own hash ring grows one member at a time. `sdfs_change` and `sdfs_crash` check it.
* Liveness needs fairness and ENABLED, which are out of the prover's reach.

## 5. Not modelled, and the plan

* Coordinator failover (BackupCoordinatorData, Backup, OnBecomeCoordinator) and
  the model store with Train. A backup copies the whole scheduler, so a faithful
  module is two coordinators of `Cluster`, whose product with the ring is too
  large for TLC; a smaller one would leave out what makes it hard. Its hazards are
  listed: the task queue is not backed up, IsCoordinator is never reset, two
  coordinators that back up to each other hold both locks.
* In the ring, OnLeave: the message it handles is sent by nobody.
* In SDFS, the commands GetVersions, PutDir, ValidateDir and DeleteDir, which loop over
  the modelled commands; the LFU cache, except that a version may be readable
  before it is on the disk; a server that leaves (Leave of the ring), the return of
  a crashed server, and false suspicions.
  Two membership changes at once, which Signal.Clear can lose, are beyond the
  bounds of the runs.
* The status printers, command lines, HTTP backend, web frontend and logger only
  format or forward; the Python runner is a call that succeeds or fails; generated
  code. Inside a batch nothing is modelled, so a lost append to modelInputs
  (`worker.go:149`) is a listed hazard without a property. Clocks of the
  coordinator appear only as the freedom they leave to the scheduler.

What is left to do: prove Durable across one crash, for which removing a node must
be shown to keep the other replicas of a file, and then across one newcomer; model
the failover, once a smaller state of the scheduler that keeps its hazards is found.

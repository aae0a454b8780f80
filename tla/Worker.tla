-------------------------------- MODULE Worker --------------------------------
(***************************************************************************)
(* The worker side of every process: IDunnoWorker (idunno/worker.go and    *)
(* idunno/worker_service.go).  Its QueryDataCycle goroutine holds the      *)
(* worker's mutex from reading JobId and BatchOutput until the batch it    *)
(* got is evaluated, so step[w] is both its program counter and the mutex: *)
(*    ready    the mutex is free;                                          *)
(*    waiting  a QueryData request (job, batch) is with the coordinator;   *)
(*    running  the runner evaluates batch for job.                         *)
(***************************************************************************)
EXTENDS Params

VARIABLES
  serving,     \* serving[w]: IDunnoWorker.JobId
  result,      \* result[w]: IDunnoWorker.BatchOutput
  step         \* step[w]: where QueryData is

machineVars == <<serving, result, step>>

Ready == [at |-> "ready", job |-> Nil, batch |-> Nil]
Waiting(j, out) == [at |-> "waiting", job |-> j, batch |-> out]
Running(j, b) == [at |-> "running", job |-> j, batch |-> b]

NewWorkers ==
  /\ serving = [w \in Workers |-> Nil]
  /\ result = [w \in Workers |-> Nil]
  /\ step = [w \in Workers |-> Ready]

InferenceKeepsResult(w, j) ==
  /\ step[w] = Ready
  /\ serving' = [serving EXCEPT ![w] = j]
  /\ UNCHANGED <<result, step>>

(* The Inference service: takes the mutex, loads the model, then drops the *)
(* output of the job served before.                                        *)
Inference(w, j) ==
  /\ step[w] = Ready
  /\ serving' = [serving EXCEPT ![w] = j]
  /\ result' = [result EXCEPT ![w] = Nil]
  /\ UNCHANGED step

(* The FinishInference service, on each worker of S.  It does not take the *)
(* mutex, so it may hit a worker that is waiting or running.               *)
FinishInference(S) ==
  /\ serving' = [w \in Workers |-> IF w \in S THEN Nil ELSE serving[w]]
  /\ result' = [w \in Workers |-> IF w \in S THEN Nil ELSE result[w]]
  /\ UNCHANGED step

SendQuery(w) ==
  /\ step[w] = Ready
  /\ serving[w] # Nil
  /\ step' = [step EXCEPT ![w] = Waiting(serving[w], result[w])]
  /\ UNCHANGED <<serving, result>>

(* An error and a nil batch end the round and keep BatchOutput, which is   *)
(* sent again in the next round.                                           *)
ReceiveReply(w, reply) ==
  /\ step[w].at = "waiting"
  /\ step' = [step EXCEPT ![w] = IF reply = Nil THEN Ready ELSE Running(step[w].job, reply)]
  /\ UNCHANGED <<serving, result>>

(* The round ends without a new output: the request misses its deadline,   *)
(* or the runner cannot evaluate the batch.                                *)
AbandonRound(w) ==
  /\ step' = [step EXCEPT ![w] = Ready]
  /\ UNCHANGED <<serving, result>>

(* A batch whose inputs are nil gets an empty output, any other one the    *)
(* runner's results; either way BatchOutput names the batch of the reply.  *)
FinishRound(w) ==
  /\ step[w].at = "running"
  /\ result' = [result EXCEPT ![w] = step[w].batch]
  /\ step' = [step EXCEPT ![w] = Ready]
  /\ UNCHANGED serving

(* The process dies and is started again. *)
Restart(w) ==
  /\ serving' = [serving EXCEPT ![w] = Nil]
  /\ result' = [result EXCEPT ![w] = Nil]
  /\ step' = [step EXCEPT ![w] = Ready]

(* The types of the workers' variables. *)
Step == {Ready} \cup [at : {"waiting"}, job : Jobs, batch : Batch \cup {Nil}]
                \cup [at : {"running"}, job : Jobs, batch : Batch]

WorkerTypeOK ==
  /\ serving \in [Workers -> Jobs \cup {Nil}]
  /\ result \in [Workers -> Batch \cup {Nil}]
  /\ step \in [Workers -> Step]

(* A worker never mixes jobs: the output it keeps belongs to the job it    *)
(* serves, and while the mutex is held only FinishInference changes that   *)
(* job, to none.                                                           *)
ResultOrigin ==
  \A w \in Workers : result[w] # Nil =>
    Genuine(result[w].job, result[w]) /\ serving[w] \in {Nil, result[w].job}
StepOrigin ==
  \A w \in Workers : step[w] # Ready =>
    /\ serving[w] \in {Nil, step[w].job}
    /\ step[w].batch # Nil => Genuine(step[w].job, step[w].batch)

WorkerInv == WorkerTypeOK /\ ResultOrigin /\ StepOrigin
=============================================================================

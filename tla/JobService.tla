------------------------------ MODULE JobService ------------------------------
(***************************************************************************)
(* What a client of the inference service is promised about a job, with    *)
(* no coordinator, worker or message in sight.  A job that is accepted     *)
(* either runs, collects an answer for each batch, finishes, and has the   *)
(* answers of ALL its batches stored before it is delivered; or it is      *)
(* dropped before it finishes.  A finished job is never dropped, and a     *)
(* delivered job never changes again.                                      *)
(***************************************************************************)
EXTENDS Params

VARIABLES
  phase,       \* phase[j]: how far job j has come
  answered,    \* answered[j]: its batches whose output has been received
  stored       \* stored[j]: its batches whose output is in the result file

serviceVars == <<phase, answered, stored>>

ServiceInit ==
  /\ phase = [j \in Jobs |-> "new"]
  /\ answered = [j \in Jobs |-> {}]
  /\ stored = [j \in Jobs |-> {}]

Accept(j) ==
  /\ phase[j] = "new"
  /\ phase' = [phase EXCEPT ![j] = "accepted"]
  /\ UNCHANGED <<answered, stored>>

Start(j) ==
  /\ phase[j] = "accepted"
  /\ phase' = [phase EXCEPT ![j] = "running"]
  /\ UNCHANGED <<answered, stored>>

Answer(j, b) ==
  /\ phase[j] = "running"
  /\ answered' = [answered EXCEPT ![j] = @ \cup {b}]
  /\ \/ UNCHANGED phase
     \/ answered'[j] = BatchesOf(j) /\ phase' = [phase EXCEPT ![j] = "finished"]
  /\ UNCHANGED stored

(* The attempt to store the results may have to be repeated. *)
Store(j) ==
  /\ phase[j] = "finished"
  /\ stored' = [stored EXCEPT ![j] = BatchesOf(j)]
  /\ UNCHANGED phase \/ phase' = [phase EXCEPT ![j] = "delivered"]
  /\ UNCHANGED answered

Drop(S) ==
  /\ \A j \in S : phase[j] \in {"accepted", "running"}
  /\ phase' = [j \in Jobs |-> IF j \in S THEN "dropped" ELSE phase[j]]
  /\ UNCHANGED <<answered, stored>>

ServiceNext ==
  \/ \E j \in Jobs : Accept(j) \/ Start(j) \/ Store(j) \/ \E b \in BatchesOf(j) : Answer(j, b)
  \/ \E S \in SUBSET Jobs : Drop(S)

ServiceSpec == ServiceInit /\ [][ServiceNext]_serviceVars
=============================================================================

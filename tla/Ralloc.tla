-------------------------------- MODULE Ralloc --------------------------------
(***************************************************************************)
(* How many workers each active job gets: ralloc/ralloc.go, and the rates  *)
(* that api/job.go feeds it.  Floating-point rates and times are natural   *)
(* numbers here: the code only adds, compares and divides them, and a      *)
(* quotient is rounded exactly.                                            *)
(*                                                                         *)
(* The state is one call: its arguments, and what it returned.             *)
(***************************************************************************)
EXTENDS Integers, FiniteSets, Functions

CONSTANTS
  MaxJobs,     \* bound: jobs in a call
  MaxWorkers,  \* bound: workers to share out
  MaxRate      \* bound: a rate, and a time in seconds

ASSUME RallocAssumption == MaxJobs \in Nat \ {0} /\ MaxWorkers \in Nat \ {0} /\ MaxRate \in Nat \ {0}

VARIABLES
  call,        \* the arguments: a matrix of rates, or a vector of times
  resources    \* the allocation returned, or NotYet

NotYet == <<>>

AbsDiff(a, b) == IF a < b THEN b - a ELSE a - b
Larger(a, b) == IF a < b THEN b ELSE a
Smaller(a, b) == IF a < b THEN a ELSE b

-----------------------------------------------------------------------------
(* GetExpectedQPS: no rate without a worker, and more workers never make a *)
(* job slower.  A job whose queries are all answered gains nothing.        *)
Rates(m) ==
  {row \in [0 .. m -> 0 .. MaxRate] :
     /\ row[0] = 0
     /\ \A r \in 1 .. m : row[r] > 0 /\ row[r - 1] <= row[r]}

JobToQPS(n, m) == [0 .. n - 1 -> Rates(m)]

(* GlobalFairTimeRalloc: table[i][j] is the best way, as far as the code   *)
(* looks, to give j workers to the jobs 0 .. i.                            *)
FirstJob(qps, m) ==
  [j \in 0 .. m |-> [dp |-> 0, min |-> qps[0][j], max |-> qps[0][j], alloc |-> j]]

Spread(qps, i, k, rest) ==
  Larger(Larger(AbsDiff(qps[i][k], rest.min), AbsDiff(qps[i][k], rest.max)), rest.dp)

(* The first k in 0 .. j that no other beats. *)
BestOf(D, K) == CHOOSE k \in K : \A l \in K : D[k] < D[l] \/ (D[k] = D[l] /\ k <= l)
BestButAll(D, j) == IF j = 0 THEN 0 ELSE BestOf(D, 0 .. j - 1)
Best(D, j) == BestOf(D, 0 .. j)

NextJob(qps, m, i, prev) ==
  [j \in 0 .. m |->
     LET D == [k \in 0 .. j |-> Spread(qps, i, k, prev[j - k])]
         k == Best(D, j)
     IN [dp |-> D[k], alloc |-> k,
         min |-> Smaller(qps[i][k], prev[j - k].min),
         max |-> Larger(qps[i][k], prev[j - k].max)]]

BacktrackKeepsAll(table, n, m) == [i \in 0 .. n - 1 |-> table[i][m].alloc]
Backtrack(table, n, m) ==
  LET left[d \in 0 .. n] ==
        IF d = 0 THEN m ELSE left[d - 1] - table[n - d][left[d - 1]].alloc
  IN [i \in 0 .. n - 1 |-> table[i][left[n - 1 - i]].alloc]

GlobalFairTimeRalloc(n, m, qps) ==
  LET table[i \in 0 .. n - 1] ==
        IF i = 0 THEN FirstJob(qps, m) ELSE NextJob(qps, m, i, table[i - 1])
  IN Backtrack(table, n, m)

-----------------------------------------------------------------------------
(* LocalFairTimeRalloc: shares in proportion to the time a query takes,    *)
(* rounded half up, the later jobs getting what is left.                   *)
RoundDown(a, b) == a \div b
Round(a, b) == (2 * a + b) \div (2 * b)

LocalFairTimeRalloc(n, m, time) ==
  LET total == SumFunction(time)
      share[i \in 0 .. n - 1] == Round(m * time[i], total)
      left[i \in 0 .. n] == IF i = 0 THEN m ELSE left[i - 1] - Smaller(share[i - 1], left[i - 1])
  IN [i \in 0 .. n - 1 |-> left[i] - left[i + 1]]

-----------------------------------------------------------------------------
Calls ==
  UNION {UNION {[mode : {"global"}, n : {n}, m : {m}, arg : JobToQPS(n, m)]
                  \cup [mode : {"local"}, n : {n}, m : {m}, arg : [0 .. n - 1 -> 1 .. MaxRate]]
                : m \in 1 .. MaxWorkers} : n \in 1 .. MaxJobs}

Init == call \in Calls /\ resources = NotYet

Allocate ==
  /\ resources = NotYet
  /\ resources' = IF call.mode = "global" THEN GlobalFairTimeRalloc(call.n, call.m, call.arg)
                  ELSE LocalFairTimeRalloc(call.n, call.m, call.arg)
  /\ UNCHANGED call

Next == Allocate

Spec == Init /\ [][Next]_<<call, resources>>

-----------------------------------------------------------------------------
Returned(mode) == resources # NotYet /\ call.mode = mode

(* The allocation of GlobalFairTimeRalloc "sums up to m".  RefreshSchedule *)
(* would leave workers idle, or run out of them, if it did not.            *)
UsesEveryWorker ==
  Returned("global") => /\ \A i \in 0 .. call.n - 1 : resources[i] \in 0 .. call.m
                        /\ SumFunction(resources) = call.m

(* LocalFairTimeRalloc never promises more workers than there are, and     *)
(* rounding wastes at most half a worker per job.  With UsesEveryWorker,   *)
(* this is what Allocations of module Scheduler takes for granted.         *)
WastesHalfAWorkerPerJob ==
  Returned("local") =>
    /\ \A i \in 0 .. call.n - 1 : resources[i] \in 0 .. call.m
    /\ SumFunction(resources) <= call.m
    /\ 2 * (call.m - SumFunction(resources)) <= call.n

(* With two jobs the table is exact: no split brings their rates closer.   *)
RateGap(a) == AbsDiff(call.arg[0][a], call.arg[1][call.m - a])
FairForTwo ==
  Returned("global") /\ call.n = 2 => \A a \in 0 .. call.m : RateGap(resources[0]) <= RateGap(a)
=============================================================================

----------------------------- MODULE LeaderProofs -----------------------------
(***************************************************************************)
(* Only the earliest process elects itself: LeaderIsEarliest for every     *)
(* number of processes, ticks and messages, if one process may found the   *)
(* ring.  LeaderInv is the inductive invariant; every lemma is about a     *)
(* step from a state of it to a calm one.                                  *)
(***************************************************************************)
EXTENDS RingProofs, NaturalsInduction, WellFoundedInduction

(* What holds before a step that is considered here. *)
Sound ==
  /\ TypeOK /\ RequestsOnce /\ RecordsAgree /\ EntriesApart /\ MessagesApart /\ Stages
  /\ OneFounder /\ Calm /\ OneDown /\ Births /\ RecordsTrue /\ PoolsDown /\ Gossip /\ Leaders

(* A non-empty set of natural numbers has a least element. *)
LEMMA LeastTime ==
  ASSUME NEW S \in SUBSET Nat, S # {}
  PROVE  \E x \in S : \A y \in S : x <= y
<1> DEFINE R == OpToRel(<, Nat)
<1>1. \A x, y \in Nat : y < x => <<y, x>> \in R
  BY DEF OpToRel
<1>2. PICK x \in S : \A y \in S : ~(<<y, x>> \in R)
  BY NatLessThanWellFounded, WFMin
<1> HIDE DEF R
<1>3. \A y \in S : ~(y < x)
  BY <1>1, <1>2
<1>. QED  BY <1>3

(* A non-empty set of times has a last element. *)
LEMMA LastTime ==
  ASSUME NEW S \in SUBSET Times, S # {}
  PROVE  \E x \in S : \A y \in S : y <= x
<1>1. MaxClock \in Nat /\ S \subseteq 0 .. MaxClock
  BY RingBoundsAssumption DEF Times
<1> DEFINE T == {MaxClock - x : x \in S}
<1>2. T \in SUBSET Nat /\ T # {}
  <2>1. \A x \in S : MaxClock - x \in Nat
    BY <1>1
  <2>. QED  BY <2>1
<1>3. PICK t \in T : \A u \in T : t <= u
  <2> HIDE DEF T
  <2>. QED  BY <1>2, LeastTime
<1>4. PICK x \in S : t = MaxClock - x
  OBVIOUS
<1>5. ASSUME NEW y \in S PROVE y <= x
  <2>1. t <= MaxClock - y
    BY <1>3
  <2>2. x \in Nat /\ y \in Nat
    BY <1>1
  <2>. QED  BY <1>1, <1>4, <2>1, <2>2
<1>. QED  BY <1>5

-----------------------------------------------------------------------------
(* Calm steps *)

(* Faults are only ever counted up. *)
LEMMA FaultsGrow ==
  ASSUME TypeOK, [Next]_vars
  PROVE  \A k \in FaultKinds : faults[k] \in Nat /\ faults'[k] \in Nat /\ faults[k] <= faults'[k]
<1>1. faults \in [FaultKinds -> Nat] /\ faults' \in [FaultKinds -> Nat]
  BY TypeStep DEF TypeOK
<1>2. ASSUME NEW j, Fault(j) PROVE \A k \in FaultKinds : faults[k] <= faults'[k]
  BY <1>1, <1>2 DEF Fault
<1>3. UNCHANGED faults \/ \E j : Fault(j)
  BY DEF Next, Cron, JoinLookup, JoinFound, JoinReply, JoinTimeout, Leave, UpdateLeader, DNSUpdate, Crash,
   Restart, SendPings, OnAck, OnFailure, OnPing, OnJoin, DNSClear, vars, nodeVars
<1>. QED  BY <1>1, <1>2, <1>3

(* A crash is counted. *)
LEMMA CrashCounts ==
  ASSUME TypeOK, NEW n \in Nodes, Crash(n)
  PROVE  faults["crash"] \in Nat /\ faults'["crash"] = faults["crash"] + 1
BY DEF TypeOK, Crash, Fault, FaultKinds

(* Who is down was down before or crashes now. *)
LEMMA DownBefore ==
  ASSUME TypeOK, [Next]_vars, NEW n \in Nodes, ~self'[n].up
  PROVE  ~self[n].up \/ Crash(n)
<1>1. self \in [Nodes -> [up : BOOLEAN, jt : Times, st : Status]]
  BY DEF TypeOK
<1>2. ASSUME NEW k \in Nodes, \/ JoinFound(k) \/ JoinReply(k) \/ Leave(k) \/ Restart(k)
      PROVE  ~self[n].up
  BY <1>1, <1>2 DEF JoinFound, JoinReply, Enter, Leave, Restart, NewRingServer
<1>3. ASSUME NEW k \in Nodes, Crash(k)
      PROVE  ~self[n].up \/ Crash(n)
  BY <1>1, <1>3 DEF Crash
<1>4. ASSUME \/ \E k \in Nodes : \/ Cron(k) \/ JoinLookup(k) \/ JoinTimeout(k) \/ UpdateLeader(k)
                                 \/ DNSUpdate(k) \/ SendPings(k)
                                 \/ \E p \in pings[k] : OnAck(k, p) \/ OnFailure(k, p)
             \/ \E m \in net : OnPing(m) \/ OnJoin(m)
             \/ DNSClear \/ UNCHANGED vars
      PROVE  UNCHANGED self
  BY <1>4 DEF Cron, JoinLookup, JoinTimeout, UpdateLeader, DNSUpdate, SendPings, OnAck, OnFailure,
       OnPing, OnJoin, DNSClear, vars, nodeVars
<1>. QED  BY <1>2, <1>3, <1>4 DEF Next

(* A calm state is reached from calm states only. *)
LEMMA CalmBefore == TypeOK /\ [Next]_vars /\ Calm' => Calm
<1> SUFFICES ASSUME TypeOK, [Next]_vars, Calm' PROVE Calm
  OBVIOUS
<1>1. /\ JoinedOnce
      /\ faults["leave"] = 0 /\ faults["late"] = 0 /\ faults["crash"] <= 1
  BY FaultsGrow, OnceBefore DEF Calm, FaultKinds
<1>2. ASSUME faults["crash"] = 1 PROVE \E n \in Nodes : ~self[n].up
  <2>1. faults'["crash"] = 1
    BY <1>2, FaultsGrow DEF Calm, FaultKinds
  <2>2. PICK n \in Nodes : ~self'[n].up
    BY <2>1 DEF Calm
  <2>3. ~Crash(n)
    BY <1>2, <2>1, CrashCounts
  <2>. QED  BY <2>2, <2>3, DownBefore
<1>. QED  BY <1>1, <1>2 DEF Calm

(* Nobody leaves or starts again, a Join that times out had asked a        *)
(* process that is down, and a ping that fails was sent to such a process. *)
LEMMA CalmStep ==
  ASSUME Sound, [Next]_vars, Calm'
  PROVE  /\ \A n \in Nodes : ~Leave(n) /\ ~Restart(n)
         /\ \A n \in Nodes : JoinTimeout(n) =>
              /\ join[n].stage = "asked"
              /\ \A m \in JoinRequests(n) : m.nr = join[n].nr => ~self[m.to].up
         /\ \A n \in Nodes : \A p \in pings[n] : OnFailure(n, p) => ~self[p.addr].up
<1>1. \A k \in {"leave", "late"} : ~Fault(k)
  <2>1. faults["leave"] = 0 /\ faults["late"] = 0 /\ faults'["leave"] = 0 /\ faults'["late"] = 0
    BY DEF Calm, Sound
  <2>. QED  BY <2>1 DEF Fault, Sound, TypeOK, FaultKinds
<1>2. ASSUME NEW n \in Nodes, Restart(n) PROVE FALSE
  <2>1. ~self[n].up /\ UNCHANGED faults /\ self' = [self EXCEPT ![n] = NewRingServer]
    BY <1>2 DEF Restart
  <2>2. faults["crash"] = 1
    <3>1. faults["crash"] \in Nat /\ faults["crash"] <= 1
      BY FaultsGrow DEF Sound, Calm, FaultKinds
    <3>. QED  BY <2>1, <3>1 DEF Sound, OneDown
  <2>3. PICK k \in Nodes : ~self'[k].up
    BY <2>1, <2>2 DEF Calm
  <2>4. k # n /\ ~self[k].up
    BY <2>1, <2>3 DEF Sound, TypeOK, NewRingServer
  <2>. QED  BY <2>1, <2>4 DEF Sound, OneDown
<1>3. ASSUME NEW n \in Nodes, NEW p \in pings[n], OnFailure(n, p) PROVE ~self[p.addr].up
  <2>1. ~Answers(p.addr) /\ p.addr \in Nodes
    BY <1>1, <1>3 DEF OnFailure, Sound, TypeOK, Ping
  <2>. QED  BY <2>1 DEF Answers, Sound, OneDown
<1>4. ASSUME NEW n \in Nodes, JoinTimeout(n)
      PROVE  /\ join[n].stage = "asked"
             /\ \A m \in JoinRequests(n) : m.nr = join[n].nr => ~self[m.to].up
  <2>1. join[n].stage \in {"asked", "replied"} /\ ~JoinAnswered(n)
    BY <1>1, <1>4 DEF JoinTimeout
  <2>2. ASSUME NEW m \in net PROVE m.to \in Nodes
    BY MessageIs DEF Sound, TypeOK
  <2>. QED  BY <2>1, <2>2 DEF JoinAnswered, JoinRequests, Handles, Sound, OneDown
<1>. QED  BY <1>1, <1>2, <1>3, <1>4 DEF Leave

(* What a calm step does to a process and to its call of Join. *)
LEMMA ProcessMoves ==
  ASSUME Sound, [Next]_vars, Calm', NEW a \in Nodes
  PROVE  \/ self'[a] = self[a] /\ join'[a] = join[a]
         \/ /\ JoinLookup(a) /\ self'[a] = self[a] /\ join[a].stage = "idle"
            /\ join'[a].stage \in {"found", "asked"} /\ join'[a].nr = join[a].nr + 1
         \/ /\ JoinFound(a) /\ join[a].stage = "found" /\ ReadClock
            /\ self'[a] = [up |-> TRUE, jt |-> Now, st |-> "Alive"]
            /\ join'[a].stage = "idle" /\ join'[a].nr = join[a].nr
         \/ /\ JoinReply(a) /\ join[a].stage = "replied"
            /\ self'[a] = [up |-> TRUE, jt |-> join[a].jt, st |-> "Alive"]
            /\ join'[a].stage = "idle" /\ join'[a].nr = join[a].nr
         \/ /\ Crash(a) /\ self'[a] = [up |-> FALSE, jt |-> 0, st |-> "Alive"]
            /\ join'[a].stage = "idle" /\ join'[a].nr = join[a].nr
         \/ /\ JoinTimeout(a) /\ self'[a] = self[a] /\ join[a].stage = "asked"
            /\ join'[a].stage = "idle" /\ join'[a].nr = join[a].nr
         \/ \E m \in net : /\ OnJoin(m) /\ m.from = a /\ ReadClock /\ self'[a] = self[a]
                           /\ join[a].stage = "asked" /\ join'[a].stage = "replied"
                           /\ join'[a].jt = Now /\ join'[a].nr = join[a].nr
<1>1. /\ self \in [Nodes -> [up : BOOLEAN, jt : Times, st : Status]]
      /\ join \in [Nodes -> [stage : {"idle", "found", "asked", "replied"}, jt : Times, nr : Nat]]
  BY DEF Sound, TypeOK
<1>2. ASSUME NEW n \in Nodes, JoinLookup(n)
      PROVE  \/ self'[a] = self[a] /\ join'[a] = join[a]
             \/ /\ n = a /\ self'[a] = self[a] /\ join[a].stage = "idle"
                /\ join'[a].stage \in {"found", "asked"} /\ join'[a].nr = join[a].nr + 1
  <2>1. \E s \in {"found", "asked"} :
          join' = [join EXCEPT ![n] = [stage |-> s, jt |-> 0, nr |-> join[n].nr + 1]]
    BY <1>2 DEF JoinLookup
  <2>2. UNCHANGED self /\ join[n].stage = "idle"
    BY <1>2 DEF JoinLookup
  <2>. QED  BY <1>1, <2>1, <2>2
<1>3. ASSUME NEW n \in Nodes, NEW t, Enter(n, t)
      PROVE  \/ self'[a] = self[a] /\ join'[a] = join[a]
             \/ /\ n = a /\ self'[a] = [up |-> TRUE, jt |-> t, st |-> "Alive"]
                /\ join'[a].stage = "idle" /\ join'[a].nr = join[a].nr
  BY <1>1, <1>3 DEF Enter, NoJoin
<1>4. ASSUME NEW n \in Nodes, Crash(n)
      PROVE  \/ self'[a] = self[a] /\ join'[a] = join[a]
             \/ /\ n = a /\ self'[a] = [up |-> FALSE, jt |-> 0, st |-> "Alive"]
                /\ join'[a].stage = "idle" /\ join'[a].nr = join[a].nr
  BY <1>1, <1>4 DEF Crash, NoJoin
<1>5. ASSUME NEW m \in net, OnJoin(m)
      PROVE  /\ self'[a] = self[a]
             /\ \/ join'[a] = join[a]
                \/ /\ m.from = a /\ ReadClock
                   /\ join[a].stage = "asked" /\ join'[a].stage = "replied"
                   /\ join'[a].jt = Now /\ join'[a].nr = join[a].nr
  BY <1>1, <1>5 DEF OnJoin
<1>6. ASSUME \/ \E n \in Nodes : \/ Cron(n) \/ UpdateLeader(n) \/ DNSUpdate(n) \/ SendPings(n)
                                 \/ \E p \in pings[n] : OnAck(n, p) \/ OnFailure(n, p)
             \/ \E m \in net : OnPing(m)
             \/ DNSClear \/ UNCHANGED vars
      PROVE  UNCHANGED <<self, join>>
  BY <1>6 DEF Cron, UpdateLeader, DNSUpdate, SendPings, OnAck, OnFailure, OnPing, DNSClear, vars,
       nodeVars
<1>7. ASSUME NEW n \in Nodes, JoinFound(n)
      PROVE  join[n].stage = "found" /\ ReadClock /\ Enter(n, Now)
  BY <1>7 DEF JoinFound
<1>8. ASSUME NEW n \in Nodes, JoinReply(n)
      PROVE  join[n].stage = "replied" /\ Enter(n, join[n].jt)
  BY <1>8 DEF JoinReply
<1>9. ASSUME NEW n \in Nodes, JoinTimeout(n)
      PROVE  \/ self'[a] = self[a] /\ join'[a] = join[a]
             \/ /\ n = a /\ self'[a] = self[a] /\ join[a].stage = "asked"
                /\ join'[a].stage = "idle" /\ join'[a].nr = join[a].nr
  <2>1. UNCHANGED self /\ join' = [join EXCEPT ![n] = NoJoin(@.nr)] /\ join[n].stage = "asked"
    BY <1>9, CalmStep DEF JoinTimeout
  <2>. QED  BY <1>1, <2>1 DEF NoJoin
<1>. QED  BY <1>2, <1>3, <1>4, <1>5, <1>6, <1>7, <1>8, <1>9, CalmStep DEF Next

(* A join time is given out: who founds the ring gets its own, who asked   *)
(* gets it from the introducer.                                            *)
Arrives(a) ==
  \/ JoinFound(a)
  \/ \E m \in net : OnJoin(m) /\ m.from = a /\ join[a].stage = "asked" /\ join'[a].stage = "replied"

(* Nobody starts, and the time is later than every birth so far.           *)
LEMMA Ages ==
  ASSUME Sound, [Next]_vars, Calm', NEW a \in Nodes
  PROVE  /\ self'[a].up => self[a].up
         /\ self[a].up /\ ~self'[a].up => Crash(a)
         /\ Born(a) /\ self'[a].up => Born(a)' /\ BornAt(a)' = BornAt(a)
         /\ Born(a)' => \/ Born(a) /\ BornAt(a)' = BornAt(a)
                        \/ /\ ~Born(a) /\ Arrives(a) /\ self[a].jt = 0
                           /\ BornAt(a)' = clock' /\ clock' > clock
         /\ BornAt(a) \in Nat /\ BornAt(a)' \in Nat /\ clock \in Nat /\ clock' \in Nat
         /\ clock <= clock'
<1>1. /\ self \in [Nodes -> [up : BOOLEAN, jt : Times, st : Status]]
      /\ join \in [Nodes -> [stage : {"idle", "found", "asked", "replied"}, jt : Times, nr : Nat]]
      /\ self' \in [Nodes -> [up : BOOLEAN, jt : Times, st : Status]]
      /\ join' \in [Nodes -> [stage : {"idle", "found", "asked", "replied"}, jt : Times, nr : Nat]]
      /\ clock \in Times /\ clock' \in Times /\ Times \subseteq Nat
  BY TypeStep, RingBoundsAssumption DEF Sound, TypeOK, Times
<1>2. clock <= clock'
  <2>1. UNCHANGED clock \/ ReadClock
    BY DEF Next, Cron, JoinLookup, JoinFound, JoinReply, JoinTimeout, Leave, UpdateLeader, DNSUpdate,
       Crash, Restart, SendPings, OnAck, OnFailure, OnPing, OnJoin, DNSClear, vars, nodeVars
  <2>. QED  BY <1>1, <2>1, ClockReads
<1>3. ReadClock => clock' = Now /\ Now > clock /\ Now > 0
  BY <1>1, ClockReads
<1>4. /\ join[a].stage # "idle" => self[a].up /\ self[a].jt = 0
      /\ join[a].stage = "replied" => join[a].jt > 0
      /\ ~self[a].up => self[a].jt = 0
  BY DEF Sound, Births, Stages
<1>5. BornAt(a) \in Nat /\ BornAt(a)' \in Nat
  BY <1>1 DEF BornAt
<1>6. CASE self'[a] = self[a] /\ join'[a] = join[a]
  BY <1>1, <1>2, <1>5, <1>6 DEF Born, BornAt
<1>7. CASE /\ self'[a] = self[a] /\ join[a].stage = "idle"
           /\ join'[a].stage \in {"found", "asked"}
  BY <1>1, <1>2, <1>5, <1>7 DEF Born, BornAt
<1>8. CASE /\ JoinFound(a) /\ join[a].stage = "found" /\ ReadClock
           /\ self'[a] = [up |-> TRUE, jt |-> Now, st |-> "Alive"]
           /\ join'[a].stage = "idle"
  <2>1. self[a].up /\ self[a].jt = 0 /\ BornAt(a) = 0 /\ BornAt(a)' = Now /\ self'[a].up
    BY <1>4, <1>8 DEF BornAt
  <2>. QED  BY <1>1, <1>2, <1>3, <1>5, <1>8, <2>1 DEF Born, Arrives
<1>9. CASE /\ join[a].stage = "replied"
           /\ self'[a] = [up |-> TRUE, jt |-> join[a].jt, st |-> "Alive"]
           /\ join'[a].stage = "idle"
  <2>1. self[a].up /\ BornAt(a) = join[a].jt /\ BornAt(a)' = join[a].jt /\ self'[a].up
    BY <1>4, <1>9 DEF BornAt
  <2>. QED  BY <1>1, <1>2, <1>5, <2>1 DEF Born
<1>10. CASE /\ Crash(a) /\ self'[a] = [up |-> FALSE, jt |-> 0, st |-> "Alive"]
            /\ join'[a].stage = "idle"
  <2>1. ~self'[a].up
    BY <1>10
  <2>. QED  BY <1>1, <1>2, <1>5, <1>10, <2>1 DEF Born
<1>11. ASSUME NEW m \in net, OnJoin(m), m.from = a, ReadClock, self'[a] = self[a],
              join[a].stage = "asked", join'[a].stage = "replied", join'[a].jt = Now
       PROVE  /\ ~Born(a) /\ Arrives(a) /\ BornAt(a)' = clock' /\ clock' > clock
              /\ self[a].jt = 0 /\ self'[a] = self[a]
  <2>1. BornAt(a) = 0 /\ BornAt(a)' = Now
    BY <1>4, <1>11 DEF BornAt
  <2>. QED  BY <1>1, <1>3, <1>4, <1>11, <2>1 DEF Born, Arrives
<1>12. CASE self'[a] = self[a] /\ join[a].stage = "asked" /\ join'[a].stage = "idle"
  BY <1>1, <1>2, <1>5, <1>12 DEF Born, BornAt
<1>. QED  BY <1>1, <1>2, <1>5, <1>6, <1>7, <1>8, <1>9, <1>10, <1>11, <1>12, ProcessMoves

(* At most one process is down, and none has left. *)
LEMMA OneDownStep ==
  ASSUME Sound, [Next]_vars, Calm'
  PROVE  OneDown'
<1>1. /\ faults["crash"] = 0 => \A n \in Nodes : self[n].up
      /\ \A a, b \in Nodes : ~self[a].up /\ ~self[b].up => a = b
      /\ \A n \in Nodes : self[n].st = "Alive"
  BY DEF Sound, OneDown
<1>2. ASSUME NEW a \in Nodes, ~self'[a].up, self[a].up
      PROVE  Crash(a) /\ faults'["crash"] # 0
  <2>1. Crash(a)
    BY <1>2, Ages
  <2>. QED  BY <2>1, CrashCounts DEF Sound
<1>3. ASSUME NEW a \in Nodes, NEW b \in Nodes, ~self'[a].up, ~self'[b].up
      PROVE  a = b
  <2>1. CASE ~self[a].up /\ ~self[b].up
    BY <1>1, <2>1
  <2>2. ASSUME NEW c \in Nodes, NEW d \in Nodes, Crash(c), ~self'[d].up PROVE d = c
    <3>1. faults["crash"] = 0 /\ self' = [self EXCEPT ![c] = [up |-> FALSE, jt |-> 0, st |-> "Alive"]]
      <4>1. faults["crash"] \in Nat /\ faults'["crash"] = faults["crash"] + 1
        BY <2>2, CrashCounts DEF Sound
      <4>2. faults'["crash"] <= 1
        BY DEF Calm
      <4>. QED  BY <2>2, <4>1, <4>2 DEF Crash
    <3>2. self[d].up
      BY <1>1, <3>1
    <3>. QED  BY <2>2, <3>1, <3>2 DEF Sound, TypeOK
  <2>. QED  BY <1>2, <1>3, <2>1, <2>2
<1>4. ASSUME NEW n \in Nodes PROVE self'[n].st = "Alive"
  <2>1. \/ self'[n] = self[n]
        \/ self'[n] = [up |-> TRUE, jt |-> Now, st |-> "Alive"]
        \/ self'[n] = [up |-> TRUE, jt |-> join[n].jt, st |-> "Alive"]
        \/ self'[n] = [up |-> FALSE, jt |-> 0, st |-> "Alive"]
    BY ProcessMoves
  <2>2. self[n].st = "Alive"
    BY <1>1
  <2>. QED  BY <2>1, <2>2
<1>5. faults'["crash"] = 0 => faults["crash"] = 0
  BY FaultsGrow DEF Sound, FaultKinds
<1>. QED  BY <1>1, <1>2, <1>3, <1>4, <1>5 DEF OneDown

(* Who is a senior after a step was one before it, or is just born. *)
LEMMA SeniorBefore ==
  ASSUME Sound, [Next]_vars, Calm', NEW b \in Nodes, Senior(b)', Born(b)
  PROVE  Senior(b)
<1>1. CASE \A f \in Founders : self[f].up
  BY <1>1 DEF Senior
<1>2. ASSUME NEW f \in Founders, ~self[f].up
      PROVE  Eldest(b)
  <2>1. f \in Nodes /\ faults["crash"] # 0
    BY <1>2, FoundersAssumption DEF Sound, OneDown
  <2>2. \A n \in Nodes : ~Crash(n)
    BY <2>1, CrashCounts DEF Sound, Calm
  <2>3. ~self'[f].up
    BY <1>2, <2>1, Ages
  <2>4. Eldest(b)'
    BY <1>2, <2>3 DEF Senior
  <2>5. ASSUME NEW c \in Nodes, Born(c) PROVE BornAt(b) <= BornAt(c)
    <3>1. self'[c].up /\ self'[b].up
      BY <2>2, <2>5, Ages DEF Born
    <3>2. Born(c)' /\ BornAt(c)' = BornAt(c) /\ BornAt(b)' = BornAt(b)
      BY <2>5, <3>1, Ages
    <3>. QED  BY <2>4, <3>2 DEF Eldest
  <2>. QED  BY <2>5 DEF Eldest
<1>. QED  BY <1>1, <1>2 DEF Senior

(* Who is just born is younger than everybody else. *)
LEMMA Youngest ==
  ASSUME Sound, [Next]_vars, Calm', NEW a \in Nodes, Born(a)', ~Born(a), NEW c \in Nodes, Born(c)
  PROVE  BornAt(c) < BornAt(a)'
<1>1. BornAt(c) <= clock /\ BornAt(c) \in Nat
  BY Ages DEF Sound, Births
<1>2. BornAt(a)' = clock' /\ clock' > clock /\ clock \in Nat /\ clock' \in Nat
  BY Ages
<1>. QED  BY <1>1, <1>2

(* A set that is complete after a step. *)
CompleteNext(S) ==
  \A a, b \in Nodes :
    self'[a].up /\ Knows(S, a) /\ Senior(b)' /\ BornAt(b)' < BornAt(a)' => Knows(S, b)

(* A set is complete after a step if whom it names was named by a complete *)
(* set of which it has all who are up, or is the last born of all it has.  *)
LEMMA CompleteCarries ==
  ASSUME Sound, [Next]_vars, Calm', NEW T,
         \A a \in Nodes : self'[a].up /\ Knows(T, a) =>
           \/ \E S : /\ Complete(S) /\ Knows(S, a) /\ Born(a)
                     /\ \A b \in Nodes : self'[b].up /\ Knows(S, b) => Knows(T, b)
           \/ \A b \in Nodes : Senior(b)' => Knows(T, b)
  PROVE  CompleteNext(T)
<1> SUFFICES ASSUME NEW a \in Nodes, NEW b \in Nodes, self'[a].up, Knows(T, a), Senior(b)',
                    BornAt(b)' < BornAt(a)', ~Knows(T, b)
             PROVE  FALSE
  BY DEF CompleteNext
<1>1. PICK S : /\ Complete(S) /\ Knows(S, a) /\ Born(a)
               /\ \A c \in Nodes : self'[c].up /\ Knows(S, c) => Knows(T, c)
  OBVIOUS
<1>2. BornAt(a)' = BornAt(a) /\ self[a].up
  BY <1>1, Ages
<1>3. Born(b)' /\ self'[b].up
  BY DEF Senior, Born
<1>4. BornAt(a) \in Nat /\ BornAt(b)' \in Nat
  BY Ages
<1>5. Born(b)
  <2> SUFFICES ASSUME ~Born(b) PROVE FALSE
    OBVIOUS
  <2>1. BornAt(a) < BornAt(b)'
    BY <1>1, <1>3, Youngest
  <2>. QED  BY <1>2, <1>4, <2>1
<1>6. Senior(b) /\ BornAt(b)' = BornAt(b)
  BY <1>3, <1>5, SeniorBefore, Ages
<1>7. Knows(S, b)
  BY <1>1, <1>2, <1>6 DEF Complete
<1>. QED  BY <1>1, <1>3, <1>7

-----------------------------------------------------------------------------
(* Lists *)

(* Whoever is up stays in a list. *)
LEMMA ListKeeps ==
  ASSUME Sound, [Next]_vars, Calm', NEW n \in Nodes, self'[n].up,
         NEW e \in list[n], self'[e.addr].up
  PROVE  \E d \in list'[n] : d.addr = e.addr /\ d.own = e.own
<1> DEFINE Goal == \E d \in list'[n] : d.addr = e.addr /\ d.own = e.own
<1>1. /\ list \in [Nodes -> SUBSET Entry] /\ net \subseteq PingMessage \cup JoinMessage
      /\ e \in Entry /\ e.addr \in Nodes /\ e.st \in Status
  BY DEF Sound, TypeOK, Entry
<1>2. self[e.addr].up
  BY <1>1, Ages
<1>3. CASE list[n] \subseteq list'[n]
  BY <1>3
<1>4. ASSUME NEW t \in Times, NEW s \in Status
      PROVE  Stamp(e, t, s).addr = e.addr /\ Stamp(e, t, s).own = e.own
  BY <1>1, StampIs
<1>5. ASSUME Cron(n) PROVE Goal
  <2>1. Now \in Times
    BY <1>5, ClockReads DEF Cron, Sound, TypeOK
  <2>2. PICK gone \in SUBSET {f \in list[n] : f.addr \in pool[n]} :
          list' = [list EXCEPT ![n] = {Heartbeat(f) : f \in list[n] \ gone}]
    BY <1>5 DEF Cron
  <2>3. e \notin gone
    BY <1>1, <1>2, <2>2 DEF Sound, PoolsDown
  <2>4. Heartbeat(e) \in list'[n]
    BY <1>1, <2>2, <2>3
  <2>5. Heartbeat(e).addr = e.addr /\ Heartbeat(e).own = e.own
    BY <1>1, <1>4, <2>1 DEF Heartbeat
  <2>. QED  BY <2>4, <2>5
<1>6. ASSUME NEW p \in pings[n], OnAck(n, p) PROVE Goal
  <2>1. Now \in Times
    BY <1>6, ClockReads DEF OnAck, Sound, TypeOK
  <2>2. list'[n] = {IF IsSameProcess(f, p) THEN Stamp(f, Now, f.st) ELSE f : f \in list[n]}
    BY <1>1, <1>6 DEF OnAck
  <2>3. (IF IsSameProcess(e, p) THEN Stamp(e, Now, e.st) ELSE e) \in list'[n]
    BY <2>2
  <2>. QED  BY <1>1, <1>4, <2>1, <2>3
<1>7. ASSUME NEW p \in pings[n], OnFailure(n, p) PROVE Goal
  <2>1. Now \in Times /\ "Timeout" \in Status
    BY <1>7, ClockReads DEF OnFailure, Sound, TypeOK, Status
  <2>2. list'[n] = {IF IsSameProcess(f, p) THEN Stamp(f, Now, "Timeout") ELSE f : f \in list[n]}
    BY <1>1, <1>7 DEF OnFailure
  <2>3. (IF IsSameProcess(e, p) THEN Stamp(e, Now, "Timeout") ELSE e) \in list'[n]
    BY <2>2
  <2>. QED  BY <1>1, <1>4, <2>1, <2>3
<1>8. ASSUME NEW m \in net, OnPing(m) PROVE Goal
  <2> DEFINE news == News(m.to, m.procs)
             old == Refreshed(m.to, news)
  <2>1. m.to \in Nodes /\ m.procs \subseteq Process
    BY <1>1, <1>8, MessageIs DEF OnPing
  <2>2. CASE n # m.to
    BY <1>1, <1>3, <1>8, <2>1, <2>2 DEF OnPing
  <2>3. CASE n = m.to
    <3>1. \A f : f \in list[n] \ old => f \in list'[n]
      BY <1>1, <1>8, <2>1, <2>3 DEF OnPing
    <3>2. \A f \in old : Refresh(news, f) \in list'[n]
      BY <1>1, <1>8, <2>1, <2>3 DEF OnPing
    <3>3. ASSUME e \in old
          PROVE  Refresh(news, e).addr = e.addr /\ Refresh(news, e).own = e.own
      <4>1. PICK p \in Newer(news, e) : Refresh(news, e) = Stamp(e, p.lut, p.st)
        BY <3>3 DEF Refresh, Refreshed
      <4>2. p.lut \in Times /\ p.st \in Status
        BY <2>1 DEF Newer, News, Process
      <4>. QED  BY <1>4, <4>1, <4>2
    <3> HIDE DEF old, news
    <3>. QED  BY <3>1, <3>2, <3>3
  <2>. QED  BY <2>2, <2>3
<1>9. ASSUME NEW m \in net, OnJoin(m) PROVE list[n] \subseteq list'[n]
  BY <1>1, <1>9 DEF OnJoin
<1>10. ASSUME NEW k \in Nodes, JoinFound(k) \/ JoinReply(k) PROVE list[n] \subseteq list'[n]
  BY <1>1, <1>10 DEF JoinFound, JoinReply, Enter
<1>11. ASSUME NEW k \in Nodes, Crash(k) PROVE list[n] \subseteq list'[n]
  BY <1>1, <1>11 DEF Crash, Sound, TypeOK
<1>12. ASSUME NEW k \in Nodes, k # n, Cron(k) \/ \E p \in pings[k] : OnAck(k, p) \/ OnFailure(k, p)
       PROVE  list[n] \subseteq list'[n]
  BY <1>1, <1>12 DEF Cron, OnAck, OnFailure
<1>13. ASSUME \/ \E k \in Nodes : \/ JoinLookup(k) \/ JoinTimeout(k) \/ UpdateLeader(k)
                                  \/ DNSUpdate(k) \/ SendPings(k)
              \/ DNSClear \/ UNCHANGED vars
       PROVE  list[n] \subseteq list'[n]
  BY <1>13 DEF JoinLookup, JoinTimeout, UpdateLeader, DNSUpdate, SendPings, DNSClear, vars, nodeVars
<1> HIDE DEF Goal
<1>14. list[n] \subseteq list'[n] => Goal
  BY <1>3 DEF Goal
<1>15. Goal
  BY <1>5, <1>6, <1>7, <1>8, <1>9, <1>10, <1>11, <1>12, <1>13, <1>14, CalmStep DEF Next
<1>. QED  BY <1>15 DEF Goal

(* Where the entries of a list come from. *)
LEMMA ListSources ==
  ASSUME Sound, [Next]_vars, Calm', NEW n \in Nodes, NEW e \in list'[n]
  PROVE  \/ \E d \in list[n] : d.addr = e.addr /\ d.own = e.own
         \/ \E m \in net : OnPing(m) /\ m.to = n /\ ~e.own /\ Knows(m.procs, e.addr)
         \/ (JoinFound(n) \/ JoinReply(n)) /\ e.addr = n /\ e.own
         \/ \E m \in net : OnJoin(m) /\ m.to = n /\ e.addr = m.from /\ ~e.own /\ ReadClock
<1> DEFINE Kept == \E d \in list[n] : d.addr = e.addr /\ d.own = e.own
<1>1. list \in [Nodes -> SUBSET Entry] /\ net \subseteq PingMessage \cup JoinMessage /\ TypeOK
  BY DEF Sound, TypeOK
<1>2. CASE e \in list[n]
  BY <1>2
<1>3. ASSUME Cron(n) PROVE Kept
  BY <1>1, <1>3, CronRecords
<1>4. ASSUME NEW p \in pings[n], OnAck(n, p) \/ OnFailure(n, p) PROVE Kept
  BY <1>1, <1>4, PingEndsRecords
<1>5. ASSUME NEW m \in net, OnPing(m)
      PROVE  Kept \/ (m.to = n /\ ~e.own /\ Knows(m.procs, e.addr))
  <2>1. m.to \in Nodes
    BY <1>1, MessageIs
  <2>2. CASE n # m.to
    BY <1>1, <1>2, <1>5, <2>1, <2>2 DEF OnPing
  <2>3. CASE n = m.to
    <3>1. \/ e \in list[n]
          \/ \E d \in list[n] : e.addr = d.addr /\ e.own = d.own
          \/ \E p \in m.procs : e.addr = p.addr /\ ~e.own
      BY <1>1, <1>5, <2>3, OnPingRecords
    <3>. QED  BY <2>3, <3>1 DEF Knows
  <2>. QED  BY <2>2, <2>3
<1>6. ASSUME NEW m \in net, OnJoin(m)
      PROVE  e \in list[n] \/ (m.to = n /\ e.addr = m.from /\ ~e.own /\ ReadClock)
  <2> DEFINE new == [addr |-> m.from, jt |-> Now, lut |-> Now, st |-> "Alive", own |-> FALSE]
  <2>1. m.to \in Nodes
    BY <1>1, MessageIs
  <2>2. \/ list'[n] = list[n]
        \/ m.to = n /\ ReadClock /\ list'[n] = list[n] \cup {new}
    BY <1>1, <1>6, <2>1 DEF OnJoin
  <2>3. new.addr = m.from /\ ~new.own
    OBVIOUS
  <2> HIDE DEF new
  <2>. QED  BY <2>2, <2>3
<1>7. ASSUME NEW k \in Nodes, JoinFound(k) \/ JoinReply(k)
      PROVE  e \in list[n] \/ (k = n /\ e.addr = n /\ e.own)
  <2>1. PICK t : Enter(k, t)
    BY <1>7 DEF JoinFound, JoinReply
  <2> DEFINE own == [addr |-> k, jt |-> t, lut |-> t, st |-> "Alive", own |-> TRUE]
  <2>2. list' = [list EXCEPT ![k] = @ \cup {own}]
    BY <2>1 DEF Enter
  <2>3. own.addr = k /\ own.own
    OBVIOUS
  <2> HIDE DEF own
  <2>. QED  BY <1>1, <2>2, <2>3
<1>8. ASSUME NEW k \in Nodes, Crash(k) PROVE list'[n] \subseteq list[n]
  BY <1>1, <1>8 DEF Crash
<1>9. ASSUME NEW k \in Nodes, k # n, Cron(k) \/ \E p \in pings[k] : OnAck(k, p) \/ OnFailure(k, p)
      PROVE  list'[n] = list[n]
  BY <1>1, <1>9 DEF Cron, OnAck, OnFailure
<1>10. ASSUME \/ \E k \in Nodes : \/ JoinLookup(k) \/ JoinTimeout(k) \/ UpdateLeader(k)
                                  \/ DNSUpdate(k) \/ SendPings(k)
              \/ DNSClear \/ UNCHANGED vars
       PROVE  list'[n] = list[n]
  BY <1>10 DEF JoinLookup, JoinTimeout, UpdateLeader, DNSUpdate, SendPings, DNSClear, vars, nodeVars
<1>11. e \in list[n] => Kept
  BY <1>2
<1> HIDE DEF Kept
<1>12. \/ Kept
       \/ \E m \in net : OnPing(m) /\ m.to = n /\ ~e.own /\ Knows(m.procs, e.addr)
       \/ (JoinFound(n) \/ JoinReply(n)) /\ e.addr = n /\ e.own
       \/ \E m \in net : OnJoin(m) /\ m.to = n /\ e.addr = m.from /\ ~e.own /\ ReadClock
  BY <1>3, <1>4, <1>5, <1>6, <1>7, <1>8, <1>9, <1>10, <1>11, CalmStep DEF Next
<1>. QED  BY <1>12 DEF Kept

(* A ping's handler learns of every process in the message that is up. *)
LEMMA PingDelivers ==
  ASSUME Sound, [Next]_vars, Calm', NEW m \in net, OnPing(m),
         NEW a \in Nodes, self[a].up, Knows(m.procs, a)
  PROVE  Knows(list'[m.to], a)
<1> DEFINE n == m.to
           news == News(n, m.procs)
<1>1. /\ m.kind = "ping" /\ n \in Nodes /\ m.procs \subseteq Process /\ UNCHANGED self
      /\ self[n].up /\ list \in [Nodes -> SUBSET Entry]
  BY MessageIs DEF Sound, TypeOK, OnPing, Handles
<1>2. \A r \in m.procs : r.addr = a => r.jt = BornAt(a) /\ BornAt(a) > 0 /\ r.st = "Alive"
  BY <1>1, RecordIs DEF Sound, RecordsTrue, Born
<1>3. ASSUME NEW e \in list[n], e.addr = a PROVE Knows(list'[n], a)
  <2>1. \E d \in list'[n] : d.addr = a
    BY <1>1, <1>3, ListKeeps
  <2>. QED  BY <2>1 DEF Knows
<1>4. PICK q \in m.procs : q.addr = a
  BY DEF Knows
<1>5. CASE IsSameProcess(q, Me(n))
  <2>1. a = n /\ self[n].jt > 0
    BY <1>2, <1>4, <1>5 DEF IsSameProcess, Me
  <2>2. PICK e \in list[n] : e.own
    BY <1>1, <2>1 DEF Sound, Births
  <2>3. e.addr = n
    BY <1>1, <2>2 DEF Sound, EntriesApart
  <2>. QED  BY <1>3, <2>1, <2>2, <2>3
<1>6. CASE ~IsSameProcess(q, Me(n))
  <2> DEFINE S == {r.lut : r \in {s \in m.procs : s.addr = a}}
  <2>1. S \in SUBSET Times /\ S # {}
    BY <1>1, <1>4 DEF Process
  <2>2. PICK t \in S : \A u \in S : u <= t
    <3> HIDE DEF S
    <3>. QED  BY <2>1, LastTime
  <2>3. PICK p \in m.procs : p.addr = a /\ p.lut = t
    OBVIOUS
  <2>4. \A r \in m.procs : IsSameProcess(p, r) => r.lut <= p.lut
    BY <2>2, <2>3 DEF IsSameProcess
  <2>5. ~IsSameProcess(p, Me(n)) /\ p.st = "Alive"
    BY <1>2, <1>4, <1>6, <2>3 DEF IsSameProcess
  <2>6. p \in news
    BY <2>4, <2>5 DEF News
  <2>7. CASE Has(list[n], p)
    BY <1>3, <2>3, <2>7 DEF Has, IsSameProcess
  <2>8. CASE ~Has(list[n], p)
    <3>1. p \in Inserted(n, news)
      BY <2>5, <2>6, <2>8 DEF Inserted
    <3>2. NewEntry(p) \in list'[n]
      BY <1>1, <3>1 DEF OnPing
    <3>3. NewEntry(p).addr = a
      BY <2>3 DEF NewEntry
    <3>. QED  BY <3>2, <3>3 DEF Knows
  <2>. QED  BY <2>7, <2>8
<1>. QED  BY <1>5, <1>6

-----------------------------------------------------------------------------
(* Births and records *)

(* The introducer answers: the process that asked is born, and is appended *)
(* to the introducer's list, unless it crashed in between.                 *)
LEMMA Admitted ==
  ASSUME Sound, NEW m \in net, OnJoin(m), ReadClock
  PROVE  /\ m.from \in Nodes /\ m.to \in Nodes /\ self[m.to].up /\ m.kind = "join"
         /\ UNCHANGED self
         /\ \E e \in list'[m.to] : e.addr = m.from
         /\ self[m.from].up => /\ join[m.from].stage = "asked" /\ ~Born(m.from)
                               /\ join'[m.from].stage = "replied" /\ join'[m.from].jt = Now
         /\ \A b \in Nodes : b # m.from => join'[b] = join[b]
<1>1. /\ m.from \in Nodes /\ m.to \in Nodes /\ self[m.to].up /\ m.kind = "join" /\ UNCHANGED self
      /\ list \in [Nodes -> SUBSET Entry]
      /\ join \in [Nodes -> [stage : {"idle", "found", "asked", "replied"}, jt : Times, nr : Nat]]
  BY MessageIs DEF Sound, TypeOK, OnJoin, Handles
<1>2. clock' # clock
  BY ClockReads DEF Sound, TypeOK, Times
<1> DEFINE new == [addr |-> m.from, jt |-> Now, lut |-> Now, st |-> "Alive", own |-> FALSE]
<1>3. /\ list' = [list EXCEPT ![m.to] = @ \cup {new}]
      /\ join' = [join EXCEPT ![m.from] =
           IF @.stage = "asked" /\ @.nr = m.nr
             THEN [stage |-> "replied", jt |-> Now, nr |-> m.nr] ELSE @]
  BY <1>2 DEF OnJoin
<1>4. new \in list'[m.to] /\ new.addr = m.from
  BY <1>1, <1>3
<1>5. ASSUME self[m.from].up
      PROVE  /\ join[m.from].stage = "asked" /\ ~Born(m.from)
             /\ join'[m.from].stage = "replied" /\ join'[m.from].jt = Now
  <2>1. join[m.from].stage = "asked" /\ join[m.from].nr = m.nr /\ self[m.from].jt = 0
    BY <1>1, <1>5 DEF Sound, Births
  <2>. QED  BY <1>1, <1>3, <2>1 DEF Born, BornAt
<1>6. \A b \in Nodes : b # m.from => join'[b] = join[b]
  BY <1>1, <1>3
<1> HIDE DEF new
<1>. QED  BY <1>1, <1>4, <1>5, <1>6

(* What lists and pings say of a process that is up stays true: its join   *)
(* time, and that it is alive.                                             *)
LEMMA RecordsTrueStep ==
  ASSUME Sound, [Next]_vars, Calm'
  PROVE  RecordsTrue'
<1> SUFFICES ASSUME NEW r \in Records', self'[r.addr].up
             PROVE  r.jt = BornAt(r.addr)' /\ Born(r.addr)' /\ r.st = "Alive"
  BY DEF RecordsTrue
<1>1. r.addr \in Nodes
  <2>1. TypeOK'
    BY TypeStep DEF Sound
  <2>2. CASE \E n \in Nodes : r \in list'[n]
    BY <2>1, <2>2 DEF TypeOK, Entry
  <2>3. ASSUME NEW m \in net', m.kind = "ping", r \in m.procs PROVE r.addr \in Nodes
    <3>1. m.procs \subseteq Process
      BY <2>1, <2>3, MessageIs DEF TypeOK
    <3>. QED  BY <2>3, <3>1 DEF Process
  <2>. QED  BY <2>2, <2>3, RecordBecomes
<1>2. self[r.addr].up
  BY <1>1, Ages
<1>3. ASSUME NEW q \in Records, Follows(r, q)
      PROVE  r.jt = BornAt(r.addr)' /\ Born(r.addr)' /\ r.st = "Alive"
  <2>1. r.addr = q.addr /\ r.jt = q.jt
    BY <1>3 DEF Follows
  <2>2. q.jt = BornAt(q.addr) /\ Born(q.addr) /\ q.st = "Alive"
    BY <1>2, <2>1 DEF Sound, RecordsTrue
  <2>3. Born(r.addr)' /\ BornAt(r.addr)' = BornAt(r.addr)
    BY <1>1, <2>1, <2>2, Ages
  <2>4. r.st = q.st
    <3> SUFFICES ASSUME NEW n \in Nodes, NEW p \in pings[n], OnFailure(n, p), IsSameProcess(q, p)
                 PROVE  FALSE
      BY <1>3 DEF Follows
    <3>1. ~self[p.addr].up
      BY CalmStep
    <3>. QED  BY <1>2, <2>1, <3>1 DEF IsSameProcess
  <2>. QED  BY <2>1, <2>2, <2>3, <2>4
<1>4. ASSUME ReadClock PROVE Now > 0
  BY <1>4, ClockReads DEF Sound, TypeOK, Times
<1>5. ASSUME NEW n \in Nodes, JoinFound(n), Newborn(r, n, Now)
      PROVE  r.jt = BornAt(r.addr)' /\ Born(r.addr)' /\ r.st = "Alive"
  <2>1. self'[n].jt = Now /\ join'[n].stage = "idle" /\ ReadClock
    BY <1>5 DEF JoinFound, Enter, NoJoin, Sound, TypeOK
  <2>. QED  BY <1>4, <1>5, <2>1 DEF Newborn, Born, BornAt
<1>6. ASSUME NEW n \in Nodes, JoinReply(n), Newborn(r, n, join[n].jt)
      PROVE  r.jt = BornAt(r.addr)' /\ Born(r.addr)' /\ r.st = "Alive"
  <2>1. self'[n].jt = join[n].jt /\ join'[n].stage = "idle" /\ join[n].stage = "replied"
    BY <1>6 DEF JoinReply, Enter, NoJoin, Sound, TypeOK
  <2>2. join[n].jt > 0
    BY <2>1 DEF Sound, Births
  <2>. QED  BY <1>6, <2>1, <2>2 DEF Newborn, Born, BornAt
<1>7. ASSUME NEW m \in net, OnJoin(m), ReadClock, Newborn(r, m.from, Now)
      PROVE  r.jt = BornAt(r.addr)' /\ Born(r.addr)' /\ r.st = "Alive"
  <2>1. r.addr = m.from
    BY <1>7 DEF Newborn
  <2>2. join'[m.from].stage = "replied" /\ join'[m.from].jt = Now
    BY <1>2, <1>7, <2>1, Admitted
  <2>. QED  BY <1>4, <1>7, <2>1, <2>2 DEF Newborn, Born, BornAt
<1>8. TypeOK
  BY DEF Sound
<1>. QED  BY <1>3, <1>5, <1>6, <1>7, <1>8, RecordsStep

(* No process that is up waits in a pool. *)
LEMMA PoolsDownStep ==
  ASSUME Sound, [Next]_vars, Calm', RecordsTrue'
  PROVE  PoolsDown'
<1> SUFFICES ASSUME NEW n \in Nodes, NEW a \in Nodes, a \in pool'[n], self'[a].up
             PROVE  FALSE
  BY DEF PoolsDown
<1>1. /\ list \in [Nodes -> SUBSET Entry] /\ pool \in [Nodes -> SUBSET Nodes]
      /\ net \subseteq PingMessage \cup JoinMessage /\ pings \in [Nodes -> SUBSET Ping]
  BY DEF Sound, TypeOK
<1>2. self[a].up /\ a \notin pool[n]
  <2>1. self[a].up
    BY Ages
  <2>. QED  BY <2>1 DEF Sound, PoolsDown
<1>3. ASSUME NEW m \in net, OnPing(m) PROVE FALSE
  <2> DEFINE news == News(m.to, m.procs)
             now == {Refresh(news, e) : e \in Refreshed(m.to, news)}
             suspected == {e.addr : e \in {f \in now : f.st # "Alive"}}
  <2>1. m.to \in Nodes
    BY <1>1, MessageIs
  <2>2. n = m.to
    BY <1>1, <1>2, <1>3, <2>1 DEF OnPing
  <2>3. pool'[n] \subseteq pool[n] \cup suspected
    BY <1>1, <1>3, <2>1, <2>2 DEF OnPing
  <2>4. now \subseteq list'[n]
    BY <1>1, <1>3, <2>1, <2>2 DEF OnPing
  <2>5. PICK e \in list'[n] : e.addr = a /\ e.st # "Alive"
    <3> HIDE DEF now
    <3>. QED  BY <1>2, <2>3, <2>4
  <2>6. e \in Records'
    BY <2>5, RecordBecomes
  <2>. QED  BY <2>5, <2>6 DEF RecordsTrue
<1>4. ASSUME NEW k \in Nodes, NEW p \in pings[k], OnFailure(k, p) PROVE FALSE
  <2>1. ~self[p.addr].up
    BY <1>4, CalmStep
  <2>2. a = p.addr
    BY <1>1, <1>2, <1>4 DEF OnFailure
  <2>. QED  BY <1>2, <2>1, <2>2
<1>5. ASSUME NEW k \in Nodes, Cron(k) \/ Crash(k) PROVE pool'[n] \subseteq pool[n]
  BY <1>1, <1>5 DEF Cron, Crash
<1>6. ASSUME \/ \E k \in Nodes : \/ JoinLookup(k) \/ JoinFound(k) \/ JoinReply(k) \/ UpdateLeader(k)
                                 \/ DNSUpdate(k) \/ SendPings(k) \/ JoinTimeout(k)
                                 \/ \E p \in pings[k] : OnAck(k, p)
             \/ \E m \in net : OnJoin(m)
             \/ DNSClear \/ UNCHANGED vars
      PROVE  pool'[n] \subseteq pool[n]
  BY <1>6 DEF JoinLookup, JoinFound, JoinReply, JoinTimeout, UpdateLeader, DNSUpdate, SendPings,
       OnAck, OnJoin, DNSClear, vars, nodeVars
<1>. QED  BY <1>2, <1>3, <1>4, <1>5, <1>6, CalmStep DEF Next

(* A process that looks for an introducer has never looked before, and     *)
(* knows nobody.                                                           *)
LEMMA FirstLookup ==
  ASSUME Sound, NEW a \in Nodes, JoinLookup(a), Calm'
  PROVE  join[a].nr = 0 /\ self[a].jt = 0 /\ list[a] = {} /\ self[a].up
<1>1. self[a].up /\ join[a].stage = "idle" /\ ~Has(list[a], Me(a))
  BY DEF JoinLookup
<1>2. self[a].jt \in Nat /\ join[a].nr \in Nat
  BY RingBoundsAssumption DEF Sound, TypeOK, Times
<1>3. ~(self[a].jt > 0)
  <2> SUFFICES ASSUME self[a].jt > 0 PROVE FALSE
    OBVIOUS
  <2>1. PICK e \in list[a] : e.own
    BY DEF Sound, Births
  <2>2. e.addr = a /\ e.jt = self[a].jt
    BY <2>1 DEF Sound, EntriesApart
  <2>. QED  BY <1>1, <2>1, <2>2 DEF Has, IsSameProcess, Me
<1>4. join[a].nr + 1 <= 1
  <2>1. join'[a].nr = join[a].nr + 1
    BY DEF JoinLookup, Sound, TypeOK
  <2>. QED  BY <2>1 DEF Calm, JoinedOnce
<1>5. list[a] = {}
  <2> SUFFICES ASSUME list[a] # {} PROVE FALSE
    OBVIOUS
  <2>1. PICK e \in list[a] : e.addr = a
    BY DEF Sound, Gossip, Knows
  <2>2. Born(a)
    BY <1>1, <2>1, RecordIs DEF Sound, RecordsTrue
  <2>. QED  BY <1>1, <1>3, <2>2 DEF Born, BornAt
<1>. QED  BY <1>1, <1>2, <1>3, <1>4, <1>5

(* One process is born at a time. *)
LEMMA OneArrives ==
  ASSUME Sound, NEW a \in Nodes, NEW b \in Nodes, Arrives(a), Arrives(b)
  PROVE  a = b
<1>1. /\ self \in [Nodes -> [up : BOOLEAN, jt : Times, st : Status]]
      /\ join \in [Nodes -> [stage : {"idle", "found", "asked", "replied"}, jt : Times, nr : Nat]]
  BY DEF Sound, TypeOK
<1>2. ASSUME NEW c \in Nodes, NEW d \in Nodes, c # d, JoinFound(c)
      PROVE  join'[d] = join[d]
  BY <1>1, <1>2 DEF JoinFound, Enter
<1>3. ASSUME NEW c \in Nodes, JoinFound(c)
      PROVE  join'[c].stage = "idle" /\ join[c].stage = "found"
  BY <1>1, <1>3 DEF JoinFound, Enter, NoJoin
<1>4. ASSUME NEW m \in net, OnJoin(m), NEW d \in Nodes, m.from # d
      PROVE  join'[d] = join[d]
  BY <1>1, <1>4 DEF OnJoin
<1>. QED  BY <1>2, <1>3, <1>4 DEF Arrives

(* What is on its way was on its way before, or is a ping of a list, or    *)
(* the request of a process that asks whom the DNS names.                  *)
LEMMA NetStep ==
  ASSUME Sound, [Next]_vars, Calm', NEW m \in net'
  PROVE  \/ m \in net
         \/ \E n \in Nodes : /\ SendPings(n) /\ m.kind = "ping" /\ m.procs = {Sent(e) : e \in list[n]}
                             /\ \E p \in pings[n] : p.stage = "started" /\ m.to = p.addr
         \/ \E a \in Nodes : /\ JoinLookup(a) /\ m.kind = "join" /\ m.from = a /\ m.to = dns
                             /\ join'[a].stage = "asked" /\ join'[a].nr = m.nr
<1>1. join \in [Nodes -> [stage : {"idle", "found", "asked", "replied"}, jt : Times, nr : Nat]]
  BY DEF Sound, TypeOK
<1>2. ASSUME NEW n \in Nodes, SendPings(n), m \notin net
      PROVE  /\ m.kind = "ping" /\ m.procs = {Sent(e) : e \in list[n]}
             /\ \E p \in pings[n] : p.stage = "started" /\ m.to = p.addr
  <2>1. PICK p \in pings[n] :
          /\ p.stage = "started"
          /\ m = [kind |-> "ping", to |-> p.addr, from |-> n, jt |-> p.jt, at |-> p.at,
                  procs |-> {Sent(e) : e \in list[n]}, read |-> FALSE]
    BY <1>2 DEF SendPings
  <2>. QED  BY <2>1
<1>3. ASSUME NEW a \in Nodes, JoinLookup(a), m \notin net
      PROVE  /\ m.kind = "join" /\ m.from = a /\ m.to = dns
             /\ join'[a].stage = "asked" /\ join'[a].nr = m.nr
  <2>1. LookupLeader(a) = {dns}
    BY <1>3, FirstLookup DEF LookupLeader
  <2>2. /\ join' = [join EXCEPT ![a] = [stage |-> "asked", jt |-> 0, nr |-> join[a].nr + 1]]
        /\ m = [kind |-> "join", to |-> dns, from |-> a, jt |-> self[a].jt,
                nr |-> join[a].nr + 1, read |-> FALSE]
    BY <1>3, <2>1 DEF JoinLookup
  <2>. QED  BY <1>1, <2>2
<1>4. ASSUME \/ \E n \in Nodes : \/ Cron(n) \/ JoinFound(n) \/ JoinReply(n) \/ JoinTimeout(n)
                                 \/ UpdateLeader(n) \/ DNSUpdate(n) \/ Crash(n)
                                 \/ \E p \in pings[n] : OnAck(n, p) \/ OnFailure(n, p)
             \/ \E k \in net : OnPing(k) \/ OnJoin(k)
             \/ DNSClear \/ UNCHANGED vars
      PROVE  net' \subseteq net
  BY <1>4 DEF Cron, JoinFound, JoinReply, JoinTimeout, UpdateLeader, DNSUpdate, Crash,
       OnAck, OnFailure, OnPing, OnJoin, DNSClear, vars
<1>. QED  BY <1>2, <1>3, <1>4, CalmStep DEF Next

(* A process keeps its join time until it crashes. *)
LEMMA JoinTimeKept ==
  ASSUME Sound, [Next]_vars, Calm', NEW n \in Nodes, self[n].jt > 0, self'[n].up
  PROVE  self'[n].jt > 0
<1>1. join[n].stage = "idle"
  <2>1. self[n].jt # 0
    BY RingBoundsAssumption DEF Sound, TypeOK, Times
  <2>. QED  BY <2>1 DEF Sound, Births
<1>2. self'[n] = self[n] \/ self'[n] = [up |-> FALSE, jt |-> 0, st |-> "Alive"]
  BY <1>1, ProcessMoves
<1>3. self'[n] = self[n]
  BY <1>2
<1>. QED  BY <1>3

(* How far the call of Join of one process has come. *)
LEMMA CallStep ==
  ASSUME Sound, [Next]_vars, Calm', NEW n \in Nodes
  PROVE  /\ join'[n].stage # "idle" => self'[n].up /\ self'[n].jt = 0
         /\ join'[n].stage = "found" => n \in Founders
         /\ join'[n].stage = "replied" => join'[n].jt > 0
<1>1. /\ join[n].stage # "idle" => self[n].up /\ self[n].jt = 0
      /\ join[n].stage = "found" => n \in Founders
      /\ join[n].stage = "replied" => join[n].jt > 0
  BY DEF Sound, Births
<1>3. ReadClock => Now > 0
  BY ClockReads DEF Sound, TypeOK, Times
<1>4. CASE self'[n] = self[n] /\ join'[n] = join[n]
  BY <1>1, <1>4
<1>5. CASE /\ JoinLookup(n) /\ self'[n] = self[n] /\ join[n].stage = "idle"
           /\ join'[n].stage \in {"found", "asked"} /\ join'[n].nr = join[n].nr + 1
  <2>1. self[n].jt = 0 /\ self[n].up
    BY <1>5, FirstLookup
  <2>2. join'[n].stage = "found" => n \in Founders
    BY <1>5 DEF JoinLookup, Sound, TypeOK
  <2>. QED  BY <1>5, <2>1, <2>2
<1>6. CASE /\ join[n].stage = "found" /\ ReadClock
           /\ self'[n] = [up |-> TRUE, jt |-> Now, st |-> "Alive"]
           /\ join'[n].stage = "idle"
  BY <1>6
<1>7. CASE /\ join[n].stage = "replied"
           /\ self'[n] = [up |-> TRUE, jt |-> join[n].jt, st |-> "Alive"]
           /\ join'[n].stage = "idle"
  BY <1>7
<1>8. CASE join'[n].stage = "idle"
  BY <1>8
<1>9. CASE /\ ReadClock /\ self'[n] = self[n] /\ join[n].stage = "asked"
           /\ join'[n].stage = "replied" /\ join'[n].jt = Now /\ join'[n].nr = join[n].nr
  BY <1>1, <1>3, <1>9
<1>. QED  BY <1>4, <1>5, <1>6, <1>7, <1>8, <1>9, ProcessMoves

(* Who is down is not born. *)
LEMMA DownUnborn ==
  ASSUME Sound, [Next]_vars, Calm', NEW n \in Nodes, ~self'[n].up
  PROVE  BornAt(n)' = 0
<1>1. join'[n].stage = "idle"
  BY CallStep
<1>2. self'[n].jt = 0
  <2>1. CASE self[n].up
    <3>1. Crash(n)
      BY <2>1, Ages
    <3>. QED  BY <3>1 DEF Crash, Sound, TypeOK
  <2>2. CASE ~self[n].up
    <3>1. self[n].jt = 0 /\ join[n].stage = "idle"
      BY <2>2 DEF Sound, Stages, Births
    <3>2. \/ self'[n] = self[n]
          \/ self'[n] = [up |-> FALSE, jt |-> 0, st |-> "Alive"]
      BY <3>1, ProcessMoves
    <3>. QED  BY <3>1, <3>2
  <2>. QED  BY <2>1, <2>2
<1>. QED  BY <1>1, <1>2 DEF BornAt

(* Every process joins at most once, and no two are born at the same time. *)
LEMMA BirthsStep ==
  ASSUME Sound, [Next]_vars, Calm'
  PROVE  Births'
<1>1. JoinedOnce'
  BY DEF Calm
<1>2. ASSUME NEW n \in Nodes, self'[n].jt > 0
      PROVE  \E e \in list'[n] : e.own
  <2>1. self'[n].up
    <3>1. Stages'
      BY <1>1, ProcessStep DEF Sound
    <3>2. self'[n].jt # 0
      BY <1>2
    <3>. QED  BY <3>1, <3>2 DEF Stages
  <2>2. ASSUME self[n].jt > 0 PROVE \E e \in list'[n] : e.own
    <3>1. PICK e \in list[n] : e.own
      BY <2>2 DEF Sound, Births
    <3>2. e.addr = n
      BY <3>1 DEF Sound, EntriesApart
    <3>. QED  BY <2>1, <3>1, <3>2, ListKeeps
  <2>3. ASSUME JoinFound(n) \/ JoinReply(n) PROVE \E e \in list'[n] : e.own
    <3>1. PICK t : Enter(n, t)
      BY <2>3 DEF JoinFound, JoinReply
    <3> DEFINE own == [addr |-> n, jt |-> t, lut |-> t, st |-> "Alive", own |-> TRUE]
    <3>2. own \in list'[n] /\ own.own
      BY <3>1 DEF Enter, Sound, TypeOK
    <3> HIDE DEF own
    <3>. QED  BY <3>2
  <2>4. \/ self'[n] = self[n] \/ JoinFound(n) \/ JoinReply(n)
        \/ self'[n] = [up |-> FALSE, jt |-> 0, st |-> "Alive"]
    BY ProcessMoves
  <2>. QED  BY <1>2, <2>1, <2>2, <2>3, <2>4
<1>3. ASSUME NEW n \in Nodes
      PROVE  BornAt(n)' <= clock'
  <2>1. BornAt(n) <= clock /\ clock <= clock' /\ BornAt(n) \in Nat /\ BornAt(n)' \in Nat
        /\ clock \in Nat /\ clock' \in Nat
    BY Ages DEF Sound, Births
  <2>2. CASE Born(n)'
    <3>1. BornAt(n)' = BornAt(n) \/ BornAt(n)' = clock'
      BY <2>2, Ages
    <3>. QED  BY <2>1, <3>1
  <2>3. CASE ~self'[n].up
    BY <2>1, <2>3, DownUnborn
  <2>4. CASE self'[n].up /\ ~Born(n)'
    <3>1. ~(BornAt(n)' > 0)
      BY <2>4 DEF Born
    <3>. QED  BY <2>1, <3>1
  <2>. QED  BY <2>2, <2>3, <2>4
<1>4. ASSUME NEW a \in Nodes, NEW b \in Nodes, Born(a)', BornAt(a)' = BornAt(b)'
      PROVE  a = b
  <2>1. BornAt(a)' > 0 /\ BornAt(a)' \in Nat /\ BornAt(b)' \in Nat
    BY <1>4, Ages DEF Born
  <2>2. Born(b)'
    <3>1. self'[b].up
      BY <1>4, <2>1, DownUnborn
    <3>. QED  BY <1>4, <2>1, <3>1 DEF Born
  <2>3. CASE Born(a) /\ Born(b)
    <3>1. BornAt(a)' = BornAt(a) /\ BornAt(b)' = BornAt(b)
      BY <1>4, <2>2, <2>3, Ages
    <3>. QED  BY <1>4, <2>3, <3>1 DEF Sound, Births
  <2>4. ASSUME NEW c \in Nodes, NEW d \in Nodes, Born(c), Born(c)', ~Born(d), Born(d)',
               BornAt(c)' = BornAt(d)'
        PROVE  FALSE
    <3>1. BornAt(c) < BornAt(d)'
      BY <2>4, Youngest
    <3>2. BornAt(c)' = BornAt(c) /\ BornAt(c) \in Nat
      BY <2>4, Ages
    <3>. QED  BY <2>4, <3>1, <3>2
  <2>5. CASE ~Born(a) /\ ~Born(b)
    <3>1. Arrives(a) /\ Arrives(b)
      BY <1>4, <2>2, <2>5, Ages
    <3>. QED  BY <3>1, OneArrives
  <2>. QED  BY <1>4, <2>2, <2>3, <2>4, <2>5
<1>5. ASSUME NEW m \in net', m.kind = "join", self'[m.from].up, self'[m.to].up
      PROVE  join'[m.from].stage = "asked" /\ join'[m.from].nr = m.nr
  <2>1. CASE m \in net
    <3>1. m.from \in Nodes /\ m.to \in Nodes
      BY <2>1, MessageIs DEF Sound, TypeOK
    <3>2. self[m.from].up /\ self[m.to].up
      BY <1>5, <3>1, Ages
    <3>3. join[m.from].stage = "asked" /\ join[m.from].nr = m.nr
      BY <1>5, <2>1, <3>2 DEF Sound, Births
    <3>4. ASSUME NEW k \in net, OnJoin(k), k.from = m.from PROVE FALSE
      <4>1. k \in JoinRequests(m.from) /\ m \in JoinRequests(m.from) /\ k \notin net'
        BY <1>5, <2>1, <3>4 DEF OnJoin, JoinRequests
      <4>. QED  BY <3>1, <4>1 DEF Sound, RequestsOnce
    <3>5. ~JoinTimeout(m.from)
      BY <1>5, <2>1, <3>1, <3>2, <3>3, CalmStep DEF JoinRequests
    <3>6. join'[m.from] = join[m.from] \/ self'[m.from] = [up |-> FALSE, jt |-> 0, st |-> "Alive"]
      BY <3>1, <3>3, <3>4, <3>5, ProcessMoves
    <3>7. join'[m.from] = join[m.from]
      BY <1>5, <3>6
    <3>. QED  BY <3>3, <3>7
  <2>2. CASE m \notin net
    BY <1>5, <2>2, NetStep
  <2>. QED  BY <2>1, <2>2
<1>6. ASSUME NEW n \in Nodes
      PROVE  /\ join'[n].stage # "idle" => self'[n].up /\ self'[n].jt = 0
             /\ join'[n].stage = "found" => n \in Founders
             /\ join'[n].stage = "replied" => join'[n].jt > 0
  BY CallStep
<1>. QED  BY <1>2, <1>3, <1>4, <1>5, <1>6 DEF Births

-----------------------------------------------------------------------------
(* The leader *)

(* The introducer of a request that is answered leads. *)
LEMMA IntroducerLeads ==
  ASSUME Sound, NEW m \in net, OnJoin(m)
  PROVE  m.to \in Nodes /\ self[m.to].up /\ Leads(m.to)
<1>1. m.to \in Nodes /\ self[m.to].up /\ m.kind = "join"
  BY MessageIs DEF Sound, TypeOK, OnJoin, Handles
<1>. QED  BY <1>1 DEF Sound, Leaders, Introducer

(* Only the first process to be born founds the ring. *)
LEMMA FoundsAlone ==
  ASSUME Sound, NEW n \in Nodes, join[n].stage = "found"
  PROVE  n \in Founders /\ \A c \in Nodes : ~Born(c)
<1>1. n \in Founders /\ self[n].up /\ self[n].jt = 0
  BY DEF Sound, Births
<1>2. \A f \in Founders : f = n
  BY <1>1 DEF Sound, OneFounder
<1>3. ASSUME NEW c \in Nodes, Born(c) PROVE FALSE
  <2>1. PICK f \in Founders : self[f].jt > 0
    BY <1>1, <1>2, <1>3 DEF Sound, Leaders
  <2>. QED  BY <1>1, <1>2, <2>1
<1>. QED  BY <1>1, <1>3

(* Two eldest processes are the same. *)
LEMMA OneEldest ==
  ASSUME Sound, NEW a \in Nodes, NEW b \in Nodes, Eldest(a), Eldest(b)
  PROVE  a = b
<1>1. BornAt(a) \in Nat /\ BornAt(b) \in Nat
  BY RingBoundsAssumption DEF Sound, TypeOK, BornAt, Times
<1>2. BornAt(a) <= BornAt(b) /\ BornAt(b) <= BornAt(a) /\ Born(a)
  BY DEF Eldest
<1>3. BornAt(a) = BornAt(b)
  BY <1>1, <1>2
<1>. QED  BY <1>2, <1>3 DEF Sound, Births

(* A list knows after a step whom it knew before, if he is still up. *)
LEMMA StillKnown ==
  ASSUME Sound, [Next]_vars, Calm', NEW n \in Nodes, self'[n].up,
         NEW b \in Nodes, self'[b].up, Knows(list[n], b)
  PROVE  Knows(list'[n], b)
<1>1. PICK e \in list[n] : e.addr = b
  BY DEF Knows
<1>2. \E d \in list'[n] : d.addr = b
  BY <1>1, ListKeeps
<1>. QED  BY <1>2 DEF Knows

(* The leader introduces whoever is born, and so it knows all seniors. *)
LEMMA LeaderKnows ==
  ASSUME Sound, [Next]_vars, Calm', NEW n \in Nodes, self'[n].up, Leads(n),
         NEW b \in Nodes, Senior(b)'
  PROVE  Knows(list'[n], b)
<1>1. Born(b)' /\ self'[b].up
  BY DEF Senior, Born
<1>2. CASE Born(b)
  <2>1. Knows(list[n], b)
    BY <1>2, SeniorBefore DEF Leads
  <2>. QED  BY <1>1, <2>1, StillKnown
<1>3. CASE ~Born(b)
  <2>1. Arrives(b)
    BY <1>1, <1>3, Ages
  <2>2. ~JoinFound(b)
    BY FoundsAlone DEF JoinFound, Leads, Eldest
  <2>3. PICK m \in net : OnJoin(m) /\ m.from = b /\ join[b].stage = "asked" /\ join'[b].stage = "replied"
    BY <2>1, <2>2 DEF Arrives
  <2>4. m.to = n
    BY <2>3, IntroducerLeads, OneEldest DEF Leads
  <2>5. ReadClock
    BY <2>3 DEF OnJoin
  <2>6. \E e \in list'[n] : e.addr = b
    BY <2>3, <2>4, <2>5, Admitted
  <2>. QED  BY <2>6 DEF Knows
<1>. QED  BY <1>2, <1>3

(* Who leads keeps leading until it crashes. *)
LEMMA LeadsStep ==
  ASSUME Sound, [Next]_vars, Calm', NEW n \in Nodes, self'[n].up, Leads(n)
  PROVE  Leads(n)'
<1>1. self'[n].jt > 0
  BY JoinTimeKept DEF Leads
<1>2. Born(n) /\ Born(n)' /\ BornAt(n)' = BornAt(n) /\ BornAt(n) \in Nat
  BY Ages DEF Leads, Eldest
<1>3. ASSUME NEW c \in Nodes, Born(c)' PROVE BornAt(n)' <= BornAt(c)'
  <2>1. CASE Born(c)
    <3>1. BornAt(c)' = BornAt(c) /\ BornAt(n) <= BornAt(c)
      BY <1>3, <2>1, Ages DEF Leads, Eldest
    <3>. QED  BY <1>2, <3>1
  <2>2. CASE ~Born(c)
    <3>1. BornAt(n) < BornAt(c)' /\ BornAt(c)' \in Nat
      BY <1>2, <1>3, <2>2, Youngest, Ages
    <3>. QED  BY <1>2, <3>1
  <2>. QED  BY <2>1, <2>2
<1>4. Eldest(n)'
  BY <1>2, <1>3 DEF Eldest
<1>5. \A b \in Nodes : Senior(b)' => Knows(list'[n], b)
  BY LeaderKnows
<1>. QED  BY <1>1, <1>4, <1>5 DEF Leads, Knows

(* Who founds the ring leads it. *)
LEMMA FounderLeads ==
  ASSUME Sound, [Next]_vars, Calm', NEW n \in Nodes, JoinFound(n)
  PROVE  /\ Leads(n)' /\ n \in Founders
         /\ \A b \in Nodes : Senior(b)' => Knows(list'[n], b)
<1>1. n \in Founders /\ \A c \in Nodes : ~Born(c)
  BY FoundsAlone DEF JoinFound
<1> DEFINE own == [addr |-> n, jt |-> Now, lut |-> Now, st |-> "Alive", own |-> TRUE]
<1>2. /\ self'[n] = [up |-> TRUE, jt |-> Now, st |-> "Alive"] /\ join'[n].stage = "idle"
      /\ own \in list'[n] /\ own.addr = n
  BY DEF JoinFound, Enter, NoJoin, Sound, TypeOK
<1> HIDE DEF own
<1>3. Now > 0 /\ Now \in Nat
  BY ClockReads DEF JoinFound, Sound, TypeOK, Times
<1>4. self'[n].up /\ self'[n].jt > 0 /\ BornAt(n)' = Now
  BY <1>2, <1>3 DEF BornAt
<1>5. ASSUME NEW b \in Nodes, Born(b)' PROVE b = n
  <2>1. Arrives(b) /\ Arrives(n)
    BY <1>1, <1>5, Ages DEF Arrives
  <2>. QED  BY <2>1, OneArrives
<1>6. Born(n)'
  BY <1>3, <1>4 DEF Born
<1>7. Eldest(n)'
  BY <1>3, <1>4, <1>5, <1>6 DEF Eldest
<1>8. Knows(list'[n], n)
  BY <1>2 DEF Knows
<1>9. \A b \in Nodes : Senior(b)' => Knows(list'[n], b)
  BY <1>5, <1>8 DEF Senior
<1>. QED  BY <1>1, <1>4, <1>7, <1>9 DEF Leads, Knows

(* Somebody is the eldest. *)
LEMMA EldestExists ==
  ASSUME Sound, NEW n \in Nodes, Born(n)
  PROVE  \E b \in Nodes : Eldest(b)
<1> DEFINE S == {BornAt(c) : c \in {d \in Nodes : Born(d)}}
<1>1. S \in SUBSET Nat /\ S # {}
  <2>1. \A c \in Nodes : BornAt(c) \in Nat
    BY RingBoundsAssumption DEF Sound, TypeOK, BornAt, Times
  <2>. QED  BY <2>1
<1>2. PICK t \in S : \A u \in S : t <= u
  <2> HIDE DEF S
  <2>. QED  BY <1>1, LeastTime
<1>3. PICK b \in Nodes : Born(b) /\ t = BornAt(b)
  OBVIOUS
<1>4. \A c \in Nodes : Born(c) => BornAt(b) <= BornAt(c)
  BY <1>2, <1>3
<1>. QED  BY <1>3, <1>4 DEF Eldest

(* Who finds itself first in its list is the eldest: its list is complete, *)
(* so that it would have the eldest, and that one would be first.          *)
LEMMA ElectedLeads ==
  ASSUME Sound, NEW n \in Nodes, n \in notified, IsFirst(n, Me(n))
  PROVE  Leads(n)
<1>1. Complete(list[n]) /\ self[n].up
  BY DEF Sound, Gossip, Informed
<1>2. PICK e \in list[n] : e.addr = n /\ e.jt = self[n].jt
  BY DEF IsFirst, Has, IsSameProcess, Me
<1>3. Born(n) /\ BornAt(n) = self[n].jt /\ Knows(list[n], n)
  BY <1>1, <1>2, RecordIs DEF Sound, RecordsTrue, Knows
<1>4. \A c \in Nodes : BornAt(c) \in Nat
  BY RingBoundsAssumption DEF Sound, TypeOK, BornAt, Times
<1>5. PICK b \in Nodes : Eldest(b)
  BY <1>3, EldestExists
<1>6. ~(BornAt(b) < BornAt(n))
  <2> SUFFICES ASSUME BornAt(b) < BornAt(n) PROVE FALSE
    OBVIOUS
  <2>1. Senior(b) /\ self[b].up
    BY <1>5 DEF Senior, Eldest, Born
  <2>2. PICK d \in list[n] : d.addr = b
    BY <1>1, <1>3, <2>1 DEF Complete, Knows
  <2>3. d.jt = BornAt(b)
    BY <2>1, <2>2, RecordIs DEF Sound, RecordsTrue
  <2>4. self[n].jt <= d.jt
    BY <2>2 DEF IsFirst, Me
  <2>. QED  BY <1>3, <1>4, <2>3, <2>4
<1>7. Eldest(n)
  <2> SUFFICES ASSUME NEW c \in Nodes, Born(c) PROVE BornAt(n) <= BornAt(c)
    BY <1>3 DEF Eldest
  <2>1. BornAt(b) <= BornAt(c)
    BY <1>5 DEF Eldest
  <2>. QED  BY <1>4, <1>6, <2>1
<1>8. self[n].jt > 0
  BY <1>3 DEF Born
<1>9. CASE \A f \in Founders : self[f].up
  <2>1. PICK f \in Founders : self[f].jt > 0
    BY <1>3, <1>9 DEF Sound, Leaders
  <2>2. f \in Nodes /\ Leads(f)
    BY <1>9, <2>1, FoundersAssumption DEF Sound, Leaders, Introducer
  <2>. QED  BY <1>7, <2>2, OneEldest DEF Leads
<1>10. CASE ~\A f \in Founders : self[f].up
  <2>1. \A c \in Nodes : Senior(c) => c = n
    BY <1>7, <1>10, OneEldest DEF Senior
  <2>. QED  BY <1>3, <1>7, <1>8, <2>1 DEF Leads
<1>. QED  BY <1>9, <1>10

(* Whom the DNS names, whoever is about to tell it, and whoever is asked   *)
(* for a place leads, or is down.                                          *)
LEMMA LeadersStep ==
  ASSUME Sound, [Next]_vars, Calm'
  PROVE  Leaders'
<1>1. ASSUME NEW n \in Nodes, self'[n].up, Introducer(n)
      PROVE  Leads(n)'
  <2>1. Leads(n)
    BY <1>1, Ages DEF Sound, Leaders
  <2>. QED  BY <1>1, <2>1, LeadsStep
<1>2. ASSUME NEW n \in Nodes, self'[n].up, UpdateLeader(n), n \in decided', n \notin decided
      PROVE  Leads(n)'
  <2>1. n \in notified /\ IsFirst(n, Me(n))
    BY <1>2 DEF UpdateLeader
  <2>. QED  BY <1>2, <2>1, ElectedLeads, LeadsStep
<1>3. ASSUME NEW n \in Nodes, n \in decided'
      PROVE  n \in decided \/ UpdateLeader(n)
  <2>1. ASSUME NEW k \in Nodes, UpdateLeader(k) PROVE decided' \subseteq decided \cup {k}
    BY <2>1 DEF UpdateLeader
  <2>2. ASSUME NEW k \in Nodes, DNSUpdate(k) \/ Crash(k) PROVE decided' \subseteq decided
    BY <2>2 DEF DNSUpdate, Crash
  <2>3. ASSUME \/ \E k \in Nodes : \/ Cron(k) \/ JoinLookup(k) \/ JoinFound(k) \/ JoinReply(k)
                                   \/ JoinTimeout(k) \/ SendPings(k)
                                   \/ \E p \in pings[k] : OnAck(k, p) \/ OnFailure(k, p)
               \/ \E m \in net : OnPing(m) \/ OnJoin(m)
               \/ DNSClear \/ UNCHANGED vars
        PROVE  UNCHANGED decided
    BY <2>3 DEF Cron, JoinLookup, JoinFound, JoinReply, JoinTimeout, SendPings, OnAck, OnFailure,
         OnPing, OnJoin,
         DNSClear, vars, nodeVars
  <2>. QED  BY <1>3, <2>1, <2>2, <2>3, CalmStep DEF Next
<1>4. ASSUME NEW n \in Nodes, dns' = n
      PROVE  dns = n \/ n \in decided
  BY <1>4, CalmStep, NobodyAssumption DEF Next, Cron, JoinLookup, JoinFound, JoinReply,
       JoinTimeout, UpdateLeader,
     DNSUpdate, Crash, SendPings, OnAck, OnFailure, OnPing, OnJoin, DNSClear, vars, nodeVars
<1>5. ASSUME NEW n \in Nodes, NEW m \in net', m.kind = "join", m.to = n
      PROVE  Introducer(n)
  BY <1>5, NetStep DEF Introducer
<1>6. ASSUME NEW n \in Nodes, n \in Founders, self'[n].up, self'[n].jt > 0
      PROVE  Introducer(n) \/ JoinFound(n)
  <2>1. CASE self'[n] = self[n]
    BY <1>6, <2>1 DEF Introducer
  <2>2. CASE join[n].stage = "replied"
    <3>1. self[n].up /\ self[n].jt = 0 /\ join[n].jt > 0
      BY <2>2 DEF Sound, Births
    <3>2. Born(n) /\ \A f \in Founders : f = n
      BY <1>6, <2>2, <3>1 DEF Born, BornAt, Sound, OneFounder
    <3>3. PICK f \in Founders : self[f].jt > 0
      BY <3>1, <3>2 DEF Sound, Leaders
    <3>. QED  BY <3>1, <3>2, <3>3
  <2>3. CASE self'[n] = [up |-> FALSE, jt |-> 0, st |-> "Alive"]
    BY <1>6, <2>3
  <2>. QED  BY <2>1, <2>2, <2>3, ProcessMoves
<1>7. ASSUME NEW n \in Nodes, self'[n].up, Introducer(n)'
      PROVE  Leads(n)'
  <2>1. CASE n \in decided'
    BY <1>1, <1>2, <1>3, <1>7, <2>1 DEF Introducer
  <2>2. CASE dns' = n
    BY <1>1, <1>4, <1>7, <2>2 DEF Introducer
  <2>3. CASE n \in Founders /\ self'[n].jt > 0
    BY <1>1, <1>6, <1>7, <2>3, FounderLeads
  <2>4. CASE \E m \in net' : m.kind = "join" /\ m.to = n
    BY <1>1, <1>5, <1>7, <2>4
  <2>. QED  BY <1>7, <2>1, <2>2, <2>3, <2>4 DEF Introducer
<1>8. ASSUME \A f \in Founders : self'[f].up, NEW n \in Nodes, Born(n)'
      PROVE  \E f \in Founders : self'[f].jt > 0
  <2>1. \A f \in Founders : f \in Nodes /\ self[f].up
    BY <1>8, Ages, FoundersAssumption
  <2>2. ASSUME NEW c \in Nodes, Born(c) PROVE \E f \in Founders : self'[f].jt > 0
    <3>1. PICK f \in Founders : self[f].jt > 0
      BY <2>1, <2>2 DEF Sound, Leaders
    <3>. QED  BY <1>8, <2>1, <3>1, JoinTimeKept
  <2>3. CASE ~Born(n)
    <3>1. Arrives(n)
      BY <1>8, <2>3, Ages
    <3>2. CASE JoinFound(n)
      BY <3>2, FounderLeads DEF Leads
    <3>3. ASSUME NEW m \in net, OnJoin(m) PROVE \E f \in Founders : self'[f].jt > 0
      BY <2>2, <3>3, IntroducerLeads DEF Leads, Eldest
    <3>. QED  BY <3>1, <3>2, <3>3 DEF Arrives
  <2>. QED  BY <2>2, <2>3
<1>. QED  BY <1>7, <1>8 DEF Leaders

-----------------------------------------------------------------------------
(* Gossip *)

(* A process that lets another in knows all seniors then. *)
LEMMA IntroducerKnows ==
  ASSUME Sound, [Next]_vars, Calm', NEW m \in net, OnJoin(m), NEW b \in Nodes, Senior(b)'
  PROVE  Knows(list'[m.to], b)
<1>1. m.to \in Nodes /\ self[m.to].up /\ Leads(m.to)
  BY IntroducerLeads
<1>2. self'[m.to].up
  BY <1>1 DEF OnJoin
<1>. QED  BY <1>1, <1>2, LeaderKnows

(* A list that is not empty has its own process. *)
LEMMA ListNamesOwn ==
  ASSUME Sound, [Next]_vars, Calm', NEW n \in Nodes, list'[n] # {}
  PROVE  self'[n].up /\ Knows(list'[n], n)
<1>1. PICK e \in list'[n] : TRUE
  OBVIOUS
<1>2. ~Crash(n)
  BY DEF Crash, Sound, TypeOK
<1>3. CASE list[n] # {}
  <2>1. self[n].up /\ Knows(list[n], n)
    BY <1>3 DEF Sound, Gossip
  <2>2. self'[n].up
    BY <1>2, <2>1, Ages
  <2>. QED  BY <2>1, <2>2, StillKnown
<1>4. ASSUME NEW m \in net, OnPing(m), m.to = n
      PROVE  self'[n].up /\ Knows(list'[n], n)
  <2>1. self[n].up /\ UNCHANGED self /\ m.kind = "ping"
    BY <1>4 DEF OnPing, Handles
  <2>2. Knows(m.procs, n)
    BY <1>4, <2>1 DEF Sound, Gossip
  <2>. QED  BY <1>4, <2>1, <2>2, PingDelivers
<1>5. ASSUME JoinFound(n) \/ JoinReply(n), e.addr = n
      PROVE  self'[n].up /\ Knows(list'[n], n)
  <2>1. self'[n].up
    BY <1>5 DEF JoinFound, JoinReply, Enter, Sound, TypeOK
  <2>. QED  BY <1>1, <1>5, <2>1 DEF Knows
<1>6. ASSUME NEW m \in net, OnJoin(m), m.to = n
      PROVE  list[n] # {}
  BY <1>6, IntroducerLeads DEF Leads, Sound, Births
<1>. QED  BY <1>1, <1>3, <1>4, <1>5, <1>6, ListSources

(* How a process that had nobody but itself in its list, or nothing, comes *)
(* to know of others or to look for the leader.                            *)
LEMMA BecomesInformed ==
  ASSUME Sound, [Next]_vars, Calm', NEW n \in Nodes, Informed(n)', ~Informed(n)
  PROVE  \/ \E m \in net : (OnPing(m) \/ OnJoin(m)) /\ m.to = n
         \/ JoinFound(n)
<1>1. n \notin notified /\ ~\E e \in list[n] : ~e.own
  BY DEF Informed
<1>2. CASE \E e \in list'[n] : ~e.own
  <2>1. PICK e \in list'[n] : ~e.own
    BY <1>2
  <2>. QED  BY <1>1, <2>1, ListSources
<1>3. CASE n \in notified'
  <2>1. ASSUME NEW k \in Nodes, Cron(k) PROVE FALSE
    <3>1. k = n
      BY <1>1, <1>3, <2>1 DEF Cron
    <3>. QED  BY <1>1, <2>1, <3>1 DEF Cron
  <2>2. ASSUME NEW m \in net, OnPing(m) \/ OnJoin(m) PROVE m.to = n
    BY <1>1, <1>3, <2>2 DEF OnPing, OnJoin
  <2>3. ASSUME NEW k \in Nodes, JoinFound(k) PROVE k = n
    BY <1>1, <1>3, <2>3 DEF JoinFound
  <2>4. ASSUME \/ \E k \in Nodes : \/ JoinLookup(k) \/ JoinReply(k) \/ JoinTimeout(k)
                                   \/ UpdateLeader(k) \/ DNSUpdate(k)
                                   \/ SendPings(k) \/ Crash(k)
                                   \/ \E p \in pings[k] : OnAck(k, p) \/ OnFailure(k, p)
               \/ DNSClear \/ UNCHANGED vars
        PROVE  notified' \subseteq notified
    BY <2>4 DEF JoinLookup, JoinReply, JoinTimeout, UpdateLeader, DNSUpdate, SendPings, Crash,
         OnAck, OnFailure,
         DNSClear, vars, nodeVars
  <2>. QED  BY <1>1, <1>3, <2>1, <2>2, <2>3, <2>4, CalmStep DEF Next
<1>. QED  BY <1>2, <1>3 DEF Informed

(* The list of a process that knows of others is complete. *)
LEMMA InformedStep ==
  ASSUME Sound, [Next]_vars, Calm', NEW n \in Nodes, Informed(n)'
  PROVE  list'[n] # {} /\ CompleteNext(list'[n])
<1>1. ~Crash(n)
  BY DEF Crash, Informed, Sound, TypeOK
<1>2. ASSUME NEW m \in net, OnPing(m), m.to = n
      PROVE  /\ self'[n].up /\ Complete(m.procs) /\ Knows(m.procs, n)
             /\ \A b \in Nodes : self'[b].up /\ Knows(m.procs, b) => Knows(list'[n], b)
             /\ \A b \in Nodes : self'[b].up /\ Knows(m.procs, b) => Born(b)
  <2>1. self[n].up /\ UNCHANGED self /\ m.kind = "ping"
    BY <1>2 DEF OnPing, Handles
  <2>2. Complete(m.procs) /\ Knows(m.procs, n)
    BY <1>2, <2>1 DEF Sound, Gossip
  <2>3. ASSUME NEW b \in Nodes, self'[b].up, Knows(m.procs, b)
        PROVE  Knows(list'[n], b) /\ Born(b)
    <3>1. self[b].up
      BY <2>1, <2>3
    <3>2. Born(b)
      BY <2>1, <2>3, <3>1, RecordIs DEF Sound, RecordsTrue, Knows
    <3>. QED  BY <1>2, <2>3, <3>1, <3>2, PingDelivers
  <2>. QED  BY <2>1, <2>2, <2>3
<1>3. ASSUME Informed(n)
      PROVE  /\ self'[n].up /\ Complete(list[n]) /\ Knows(list[n], n)
             /\ \A b \in Nodes : self'[b].up /\ Knows(list[n], b) => Knows(list'[n], b) /\ Born(b)
  <2>1. list[n] # {} /\ Complete(list[n]) /\ self[n].up /\ Knows(list[n], n)
    BY <1>3 DEF Sound, Gossip
  <2>2. self'[n].up
    BY <1>1, <2>1, Ages
  <2>3. ASSUME NEW b \in Nodes, self'[b].up, Knows(list[n], b)
        PROVE  Knows(list'[n], b) /\ Born(b)
    <3>1. self[b].up
      BY <2>3, Ages
    <3>2. Born(b)
      BY <2>3, <3>1, RecordIs DEF Sound, RecordsTrue, Knows
    <3>. QED  BY <2>2, <2>3, <3>2, StillKnown
  <2>. QED  BY <2>1, <2>2, <2>3
<1> DEFINE Carried(a) == \E S : /\ Complete(S) /\ Knows(S, a) /\ Born(a)
                                /\ \A b \in Nodes : self'[b].up /\ Knows(S, b) => Knows(list'[n], b)
           All == \A b \in Nodes : Senior(b)' => Knows(list'[n], b)
<1>4. ASSUME NEW m \in net, OnJoin(m), m.to = n PROVE All /\ list'[n] # {}
  <2>1. All
    BY <1>4, IntroducerKnows
  <2>2. Leads(n) /\ list[n] \subseteq list'[n]
    <3>1. Leads(n)
      BY <1>4, IntroducerLeads
    <3>2. list \in [Nodes -> SUBSET Entry]
      BY DEF Sound, TypeOK
    <3>3. list[n] \subseteq list'[n]
      BY <1>4, <3>2 DEF OnJoin
    <3>. QED  BY <3>1, <3>3
  <2>3. list[n] # {}
    BY <2>2 DEF Leads, Sound, Births
  <2>. QED  BY <2>1, <2>2, <2>3
<1>5. ASSUME JoinFound(n) PROVE All /\ list'[n] # {}
  <2>1. All /\ Leads(n)'
    BY <1>5, FounderLeads
  <2>2. Knows(list'[n], n)
    BY <2>1 DEF Leads, Eldest, Senior, Knows
  <2>. QED  BY <2>1, <2>2 DEF Knows
<1>6. list'[n] # {}
  <2>1. CASE Informed(n)
    BY <1>3, <2>1 DEF Knows
  <2>2. ASSUME NEW m \in net, OnPing(m), m.to = n PROVE list'[n] # {}
    BY <1>2, <2>2 DEF Knows
  <2>. QED  BY <1>4, <1>5, <2>1, <2>2, BecomesInformed
<1>7. ASSUME NEW a \in Nodes, self'[a].up, Knows(list'[n], a)
      PROVE  Carried(a) \/ All
  <2>1. PICK e \in list'[n] : e.addr = a
    BY <1>7 DEF Knows
  <2>2. ASSUME Informed(n), Knows(list[n], a) PROVE Carried(a)
    BY <1>3, <1>7, <2>2
  <2>3. ASSUME NEW m \in net, OnPing(m), m.to = n, Knows(m.procs, a) PROVE Carried(a)
    BY <1>2, <1>7, <2>3
  <2> HIDE DEF Carried, All
  <2>4. ASSUME NEW d \in list[n], d.addr = a, ~Informed(n) PROVE Carried(a) \/ All
    <3>1. d.own
      BY <2>4 DEF Informed
    <3>2. a = n
      BY <2>4, <3>1 DEF Sound, EntriesApart
    <3>. QED  BY <1>2, <1>4, <1>5, <2>3, <2>4, <3>2, BecomesInformed
  <2>5. ASSUME JoinFound(n) \/ JoinReply(n), a = n PROVE Carried(a) \/ All
    <3>1. CASE Informed(n)
      BY <1>3, <2>2, <2>5, <3>1
    <3>2. CASE ~Informed(n)
      BY <1>2, <1>4, <1>5, <2>3, <2>5, <3>2, BecomesInformed
    <3>. QED  BY <3>1, <3>2
  <2>6. CASE \E d \in list[n] : d.addr = e.addr
    BY <2>1, <2>2, <2>4, <2>6 DEF Knows
  <2>7. \/ \E d \in list[n] : d.addr = a
        \/ \E m \in net : OnPing(m) /\ m.to = n /\ Knows(m.procs, a)
        \/ (JoinFound(n) \/ JoinReply(n)) /\ a = n
        \/ \E m \in net : OnJoin(m) /\ m.to = n
    BY <2>1, ListSources
  <2>. QED  BY <1>4, <2>1, <2>3, <2>5, <2>6, <2>7
<1>8. CompleteNext(list'[n])
  BY <1>7, CompleteCarries
<1>. QED  BY <1>6, <1>8

(* Whom a process is about to ping is in its list. *)
LEMMA PingsStep ==
  ASSUME Sound, [Next]_vars, Calm', NEW n \in Nodes, NEW p \in pings'[n],
         p.stage = "started", self'[p.addr].up
  PROVE  \E e \in list'[n] : e.addr = p.addr /\ ~e.own
<1>1. /\ list \in [Nodes -> SUBSET Entry] /\ pings \in [Nodes -> SUBSET Ping]
      /\ net \subseteq PingMessage \cup JoinMessage
  BY DEF Sound, TypeOK
<1>2. CASE p \in pings[n]
  <2>1. p.addr \in Nodes
    BY <1>1, <1>2 DEF Ping
  <2>2. self[p.addr].up
    BY <2>1, Ages
  <2>3. PICK e \in list[n] : e.addr = p.addr /\ ~e.own
    BY <1>2, <2>2 DEF Sound, Gossip
  <2>4. self[n].up
    BY <2>3 DEF Sound, Gossip
  <2>5. ~Crash(n)
    BY <1>1 DEF Crash
  <2>6. self'[n].up
    BY <2>4, <2>5, Ages
  <2>7. \E d \in list'[n] : d.addr = e.addr /\ d.own = e.own
    BY <2>3, <2>6, ListKeeps
  <2>. QED  BY <2>3, <2>7
<1>3. ASSUME Cron(n) PROVE \E e \in list'[n] : e.addr = p.addr /\ ~e.own
  <2>1. PICK e \in Successors(list'[n], Me(n)) :
          p = [addr |-> e.addr, jt |-> e.jt, at |-> Now, stage |-> "started"]
    <3>1. PICK kept : /\ list' = [list EXCEPT ![n] = kept]
                      /\ pings' = [pings EXCEPT ![n] =
                           {[addr |-> e.addr, jt |-> e.jt, at |-> Now, stage |-> "started"] :
                              e \in Successors(kept, Me(n))}]
      BY <1>3 DEF Cron
    <3>2. list'[n] = kept
      BY <1>1, <3>1
    <3>. QED  BY <1>1, <3>1, <3>2
  <2>2. e \in list'[n] /\ ~IsSameProcess(e, Me(n)) /\ p.addr = e.addr
    BY <2>1 DEF Successors
  <2>3. PICK d \in list[n] : e.addr = d.addr /\ e.jt = d.jt /\ e.own = d.own
    BY <1>3, <2>2, CronRecords DEF Sound
  <2>4. ~e.own
    BY <2>2, <2>3 DEF Sound, EntriesApart, IsSameProcess, Me
  <2>. QED  BY <2>2, <2>4
<1>4. ASSUME NEW k \in Nodes, SendPings(k) PROVE p \in pings[n]
  <2>1. CASE k # n
    BY <1>1, <1>4, <2>1 DEF SendPings
  <2>2. CASE k = n
    <3>1. PICK q \in pings[n] : p = AtStage(q, "sent")
      BY <1>1, <1>4, <2>2 DEF SendPings
    <3>2. p.stage = "sent"
      BY <1>1, <3>1 DEF AtStage, Ping
    <3>. QED  BY <3>2
  <2>. QED  BY <2>1, <2>2
<1>5. ASSUME NEW m \in net, OnPing(m) PROVE p \in pings[n]
  <2>1. m.from \in Nodes
    BY <1>1, MessageIs
  <2>2. CASE m.from # n
    BY <1>1, <1>5, <2>1, <2>2 DEF OnPing
  <2>3. CASE m.from = n
    <3>1. PICK q \in pings[n] : p = q \/ p = AtStage(q, "acked")
      BY <1>1, <1>5, <2>1, <2>3 DEF OnPing
    <3>2. AtStage(q, "acked").stage = "acked"
      BY <1>1 DEF AtStage, Ping
    <3>. QED  BY <3>1, <3>2
  <2>. QED  BY <2>2, <2>3
<1>6. ASSUME NEW k \in Nodes,
             \/ (Cron(k) /\ k # n) \/ Crash(k) \/ \E q \in pings[k] : OnAck(k, q) \/ OnFailure(k, q)
      PROVE  p \in pings[n]
  BY <1>1, <1>6 DEF Cron, Crash, OnAck, OnFailure
<1>7. ASSUME \/ \E k \in Nodes : \/ JoinLookup(k) \/ JoinFound(k) \/ JoinReply(k) \/ JoinTimeout(k)
                                 \/ UpdateLeader(k) \/ DNSUpdate(k)
             \/ \E m \in net : OnJoin(m)
             \/ DNSClear \/ UNCHANGED vars
      PROVE  p \in pings[n]
  BY <1>7 DEF JoinLookup, JoinFound, JoinReply, JoinTimeout, UpdateLeader, DNSUpdate, OnJoin,
       DNSClear, vars, nodeVars
<1>. QED  BY <1>2, <1>3, <1>4, <1>5, <1>6, <1>7, CalmStep DEF Next

(* A ping names its receiver and all who are senior to those it names. *)
LEMMA MessageComplete ==
  ASSUME Sound, [Next]_vars, Calm', NEW m \in net', m.kind = "ping", self'[m.to].up
  PROVE  Knows(m.procs, m.to) /\ CompleteNext(m.procs)
<1>1. m.to \in Nodes
  BY TypeStep, MessageIs DEF Sound, TypeOK
<1>2. self[m.to].up
  BY <1>1, Ages
<1>3. CASE m \in net
  <2>1. Knows(m.procs, m.to) /\ Complete(m.procs)
    BY <1>2, <1>3 DEF Sound, Gossip
  <2>2. ASSUME NEW a \in Nodes, self'[a].up, Knows(m.procs, a) PROVE Born(a)
    <3>1. self[a].up
      BY <2>2, Ages
    <3>. QED  BY <1>3, <2>2, <3>1, RecordIs DEF Sound, RecordsTrue, Knows
  <2>. QED  BY <2>1, <2>2, CompleteCarries
<1>4. CASE m \notin net
  <2>1. PICK n \in Nodes : /\ m.procs = {Sent(e) : e \in list[n]}
                           /\ \E p \in pings[n] : p.stage = "started" /\ m.to = p.addr
    BY <1>4, NetStep
  <2>2. PICK e \in list[n] : e.addr = m.to /\ ~e.own
    BY <1>2, <2>1 DEF Sound, Gossip
  <2>3. Complete(list[n])
    BY <2>2 DEF Sound, Gossip, Informed
  <2>4. \A a : Knows(m.procs, a) <=> Knows(list[n], a)
    <3>1. \A d : Sent(d).addr = d.addr
      BY DEF Sent
    <3>. QED  BY <2>1, <3>1 DEF Knows
  <2>5. ASSUME NEW a \in Nodes, self'[a].up, Knows(m.procs, a) PROVE Born(a) /\ Knows(list[n], a)
    <3>1. self[a].up
      BY <2>5, Ages
    <3>2. Knows(list[n], a)
      BY <2>4, <2>5
    <3>. QED  BY <3>1, <3>2, RecordIs DEF Sound, RecordsTrue, Knows
  <2>6. Knows(m.procs, m.to)
    BY <2>2, <2>4 DEF Knows
  <2>. QED  BY <2>3, <2>4, <2>5, <2>6, CompleteCarries
<1>. QED  BY <1>3, <1>4

(* Lists and pings stay complete. *)
LEMMA GossipStep ==
  ASSUME Sound, [Next]_vars, Calm'
  PROVE  Gossip'
<1>1. ASSUME NEW n \in Nodes, list'[n] # {}
      PROVE  self'[n].up /\ Knows(list[n], n)'
  BY <1>1, ListNamesOwn DEF Knows
<1>2. ASSUME NEW n \in Nodes, Informed(n)'
      PROVE  list'[n] # {} /\ Complete(list[n])'
  BY <1>2, InformedStep DEF CompleteNext, Complete, Knows
<1>3. ASSUME NEW n \in Nodes, NEW p \in pings'[n], p.stage = "started", self'[p.addr].up
      PROVE  \E e \in list'[n] : e.addr = p.addr /\ ~e.own
  BY <1>3, PingsStep
<1>4. ASSUME NEW m \in net', m.kind = "ping", self'[m.to].up
      PROVE  Knows(m.procs, m.to)' /\ Complete(m.procs)'
  BY <1>4, MessageComplete DEF CompleteNext, Complete, Knows
<1>. QED  BY <1>1, <1>2, <1>3, <1>4 DEF Gossip

-----------------------------------------------------------------------------
(* The theorems *)

(* At first nobody is born, known or asked. *)
LEMMA LeaderInit == Init => LeaderInv
<1> SUFFICES ASSUME Init PROVE OneDown /\ Births /\ RecordsTrue /\ PoolsDown /\ Gossip /\ Leaders
  BY DEF LeaderInv
<1>1. \A r : r \notin Records
  BY RecordIs DEF Init
<1>2. \A n \in Nodes : /\ self[n] = [up |-> TRUE, jt |-> 0, st |-> "Alive"] /\ list[n] = {}
                       /\ pool[n] = {} /\ pings[n] = {}
                       /\ join[n] = [stage |-> "idle", jt |-> 0, nr |-> 0]
  BY DEF Init, NewRingServer, NoJoin
<1>3. \A n \in Nodes : BornAt(n) = 0 /\ ~Born(n)
  BY <1>2 DEF BornAt, Born
<1>4. OneDown /\ RecordsTrue /\ PoolsDown
  BY <1>1, <1>2 DEF OneDown, RecordsTrue, PoolsDown
<1>5. Births
  BY <1>2, <1>3 DEF Births, Init
<1>6. Gossip
  BY <1>2 DEF Gossip, Informed, Init
<1>7. Leaders
  <2>1. \A n \in Nodes : ~Introducer(n)
    BY <1>2, NobodyAssumption DEF Introducer, Init
  <2>. QED  BY <1>3, <2>1 DEF Leaders
<1>. QED  BY <1>4, <1>5, <1>6, <1>7

(* The invariant is inductive. *)
LEMMA LeaderStep == TypeOK /\ RingInv /\ LeaderInv /\ [Next]_vars => LeaderInv'
<1> SUFFICES ASSUME TypeOK, RingInv, LeaderInv, [Next]_vars, OneFounder, Calm'
             PROVE  (OneDown /\ Births /\ RecordsTrue /\ PoolsDown /\ Gossip /\ Leaders)'
  BY DEF LeaderInv
<1>1. Sound
  BY CalmBefore DEF Sound, LeaderInv, RingInv, Calm
<1>. QED
  BY <1>1, OneDownStep, BirthsStep, RecordsTrueStep, PoolsDownStep, GossipStep, LeadersStep

(* While at most one process crashes and no answer is late, lists and      *)
(* pings name, with any process, all that are senior to it, and whoever is *)
(* named by the DNS, about to be, or asked for a place is the eldest.      *)
THEOREM LeaderInductive == Spec => []LeaderInv
BY LeaderInit, LeaderStep, TypeCorrect, OneProcessPerAddress, PTL DEF Spec

(* If one process may found the ring, then from UpdateLeader's decision to *)
(* its call of the DNS no member has an earlier join time, whatever pings  *)
(* and joins come in between.                                              *)
THEOREM EarliestElected == Spec => [](OneFounder => LeaderIsEarliest)
<1>1. TypeOK /\ LeaderInv => (OneFounder => LeaderIsEarliest)
  <2> SUFFICES ASSUME TypeOK, LeaderInv, OneFounder, Calm,
                      NEW n \in Nodes, NEW m \in Nodes, n \in decided, Member(n), Member(m)
               PROVE  self[n].jt <= self[m].jt
    BY DEF LeaderIsEarliest
  <2>1. Births /\ Eldest(n)
    BY DEF LeaderInv, Leaders, Introducer, Member, Leads
  <2>2. ASSUME NEW k \in Nodes, Member(k) PROVE BornAt(k) = self[k].jt /\ Born(k)
    <3>1. join[k].stage = "idle"
      BY <2>1, <2>2 DEF Births, Member
    <3>. QED  BY <2>2, <3>1 DEF BornAt, Born, Member
  <2>. QED  BY <2>1, <2>2 DEF Eldest
<1>. QED  BY <1>1, TypeCorrect, LeaderInductive, PTL
=============================================================================

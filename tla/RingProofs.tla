------------------------------ MODULE RingProofs ------------------------------
(***************************************************************************)
(* What Ring promises for every number of processes, faults, joins and     *)
(* readings of the clock: the types, that a dead process stays dead, and,  *)
(* while nobody joins twice, that the expiration pool of a process is the  *)
(* set of addresses it suspects.                                           *)
(***************************************************************************)
EXTENDS Ring, TLAPS

-----------------------------------------------------------------------------
(* Types *)

(* A reading of the clock is a time, and later than all before it. *)
LEMMA ClockReads ==
  ASSUME clock \in Times, ReadClock
  PROVE  Now \in Times /\ Now \in Nat /\ Now > clock /\ clock' = Now
BY RingBoundsAssumption DEF ReadClock, Now, Times

(* A fault is counted. *)
LEMMA FaultCounts ==
  ASSUME faults \in [FaultKinds -> Nat], NEW k, Fault(k)
  PROVE  faults' \in [FaultKinds -> Nat]
BY RingBoundsAssumption DEF Fault

(* Stamping an entry changes its time and its status only. *)
LEMMA StampIs ==
  ASSUME NEW e \in Entry, NEW t \in Times, NEW s \in Status
  PROVE  /\ Stamp(e, t, s) \in Entry
         /\ Stamp(e, t, s).addr = e.addr /\ Stamp(e, t, s).jt = e.jt /\ Stamp(e, t, s).own = e.own
         /\ Stamp(e, t, s).lut = t /\ Stamp(e, t, s).st = s
<1> DEFINE f == [e EXCEPT !.lut = t]
<1>1. Stamp(e, t, s) = [f EXCEPT !.st = s]
  BY DEF Stamp
<1>2. f \in Entry /\ f.addr = e.addr /\ f.jt = e.jt /\ f.own = e.own /\ f.lut = t
  BY DEF Entry
<1> HIDE DEF f
<1>3. /\ [f EXCEPT !.st = s] \in Entry
      /\ [f EXCEPT !.st = s].addr = f.addr /\ [f EXCEPT !.st = s].jt = f.jt
      /\ [f EXCEPT !.st = s].own = f.own
      /\ [f EXCEPT !.st = s].lut = f.lut /\ [f EXCEPT !.st = s].st = s
  BY <1>2 DEF Entry
<1>. QED  BY <1>1, <1>2, <1>3

(* A ping that goes on is still the same ping. *)
LEMMA AtStageIs ==
  ASSUME NEW p \in Ping, NEW s \in {"started", "sent", "acked"}
  PROVE  AtStage(p, s) \in Ping
BY DEF AtStage, Ping

(* A message whose handler has been started is still the same message. *)
LEMMA StartedIs ==
  ASSUME NEW m \in PingMessage \cup JoinMessage
  PROVE  /\ Started(m) \in PingMessage \cup JoinMessage
         /\ Started(m).kind = m.kind /\ Started(m).to = m.to /\ Started(m).from = m.from
         /\ m.kind = "ping" => Started(m).procs = m.procs
<1>1. CASE m \in PingMessage
  BY <1>1 DEF Started, PingMessage
<1>2. CASE m \in JoinMessage
  <2>1. m.kind = "join"
    BY <1>2 DEF JoinMessage
  <2>. QED  BY <1>2, <2>1 DEF Started, JoinMessage
<1>. QED  BY <1>1, <1>2

(* What is known of a message by its kind. *)
LEMMA MessageIs ==
  ASSUME NEW m \in PingMessage \cup JoinMessage
  PROVE  /\ m.to \in Nodes /\ m.from \in Nodes /\ m.kind \in {"ping", "join"}
         /\ m.kind = "ping" => m \in PingMessage /\ m.procs \subseteq Process
         /\ m.kind = "join" => m \in JoinMessage /\ m.nr \in Nat
BY DEF PingMessage, JoinMessage

(* The ring as it is before any process has joined. *)
LEMMA TypeInit == Init => TypeOK
<1> SUFFICES ASSUME Init PROVE TypeOK
  OBVIOUS
<1>1. 0 \in Times
  BY RingBoundsAssumption DEF Times
<1>2. self \in [Nodes -> [up : BOOLEAN, jt : Times, st : Status]]
  BY <1>1 DEF Init, NewRingServer, Status
<1>3. join \in [Nodes -> [stage : {"idle", "found", "asked", "replied"}, jt : Times, nr : Nat]]
  BY <1>1 DEF Init, NoJoin
<1>4. /\ list \in [Nodes -> SUBSET Entry]
      /\ pool \in [Nodes -> SUBSET Nodes]
      /\ pings \in [Nodes -> SUBSET Ping]
  BY DEF Init
<1>. QED  BY <1>1, <1>2, <1>3, <1>4 DEF Init, TypeOK

(* A tick keeps or stamps entries, and pings entries of its list. *)
LEMMA CronType ==
  ASSUME TypeOK, NEW n \in Nodes, Cron(n)
  PROVE  TypeOK'
<1>1. Now \in Times /\ clock' \in Times
  BY ClockReads DEF TypeOK, Cron
<1>2. PICK expired \in SUBSET pool[n], gone \in SUBSET list[n] :
        LET kept == {Heartbeat(e) : e \in list[n] \ gone}
        IN  /\ list' = [list EXCEPT ![n] = kept]
            /\ pool' = [pool EXCEPT ![n] = @ \ {e.addr : e \in gone}]
            /\ notified' = IF gone = {} THEN notified ELSE notified \cup {n}
            /\ pings' = [pings EXCEPT ![n] =
                 {[addr |-> e.addr, jt |-> e.jt, at |-> Now, stage |-> "started"] :
                    e \in Successors(kept, Me(n))}]
  BY DEF Cron
<1> DEFINE kept == {Heartbeat(e) : e \in list[n] \ gone}
<1>3. kept \subseteq Entry
  <2>1. ASSUME NEW e \in list[n]
        PROVE  Heartbeat(e) \in Entry
    <3>1. e \in Entry /\ e.st \in Status
      BY DEF TypeOK, Entry
    <3>. QED  BY <1>1, <3>1, StampIs DEF Heartbeat
  <2>. QED  BY <2>1
<1>4. list' \in [Nodes -> SUBSET Entry]
  BY <1>2, <1>3 DEF TypeOK
<1>5. pool' \in [Nodes -> SUBSET Nodes]
  BY <1>2 DEF TypeOK
<1>6. Successors(kept, Me(n)) \subseteq kept
  BY DEF Successors
<1>7. {[addr |-> e.addr, jt |-> e.jt, at |-> Now, stage |-> "started"] :
         e \in Successors(kept, Me(n))} \subseteq Ping
  <2> HIDE DEF kept
  <2>1. \A e \in Entry :
          [addr |-> e.addr, jt |-> e.jt, at |-> Now, stage |-> "started"] \in Ping
    BY <1>1 DEF Entry, Ping
  <2>. QED  BY <1>3, <1>6, <2>1
<1>8. pings' \in [Nodes -> SUBSET Ping]
  BY <1>2, <1>7 DEF TypeOK
<1>9. notified' \subseteq Nodes
  BY <1>2 DEF TypeOK
<1>. QED  BY <1>1, <1>4, <1>5, <1>8, <1>9 DEF TypeOK, Cron

(* The message of a ping holds the list, without who owns which entry. *)
LEMMA SendPingsType ==
  ASSUME TypeOK, NEW n \in Nodes, SendPings(n)
  PROVE  TypeOK'
<1>1. pings' \in [Nodes -> SUBSET Ping]
  <2>1. \A p \in pings[n] : AtStage(p, "sent") \in Ping
    BY AtStageIs DEF TypeOK
  <2>. QED  BY <2>1 DEF TypeOK, SendPings
<1>2. {Sent(e) : e \in list[n]} \subseteq Process
  BY DEF TypeOK, Sent, Entry, Process
<1>3. \A p \in pings[n] :
        [kind |-> "ping", to |-> p.addr, from |-> n, jt |-> p.jt, at |-> p.at,
         procs |-> {Sent(e) : e \in list[n]}, read |-> FALSE] \in PingMessage
  BY <1>2 DEF TypeOK, Ping, PingMessage
<1>4. net' \subseteq PingMessage \cup JoinMessage
  BY <1>3 DEF TypeOK, SendPings
<1>. QED  BY <1>1, <1>4 DEF TypeOK, SendPings

(* OnPing inserts and updates entries from the processes of the message. *)
LEMMA OnPingType ==
  ASSUME TypeOK, NEW m \in net, OnPing(m)
  PROVE  TypeOK'
<1> DEFINE n == m.to
           news == News(n, m.procs)
           old == Refreshed(n, news)
           now == {Refresh(news, e) : e \in old}
           new == Inserted(n, news)
<1>1. /\ m \in PingMessage \cup JoinMessage /\ m.kind = "ping"
      /\ list \in [Nodes -> SUBSET Entry] /\ pool \in [Nodes -> SUBSET Nodes]
      /\ pings \in [Nodes -> SUBSET Ping] /\ notified \subseteq Nodes
  BY DEF TypeOK, OnPing
<1>2. n \in Nodes /\ m.from \in Nodes /\ news \subseteq Process
  BY <1>1, MessageIs DEF News
<1>3. now \subseteq Entry
  <2>1. ASSUME NEW e \in old
        PROVE  Refresh(news, e) \in Entry
    <3>1. e \in Entry /\ Newer(news, e) # {}
      BY <1>1, <1>2 DEF Refreshed
    <3>2. PICK p \in Newer(news, e) : Refresh(news, e) = Stamp(e, p.lut, p.st)
      BY <3>1 DEF Refresh
    <3>3. p.lut \in Times /\ p.st \in Status
      BY <1>2 DEF Newer, Process
    <3>. QED  BY <3>1, <3>2, <3>3, StampIs
  <2>. QED  BY <2>1
<1>4. {NewEntry(p) : p \in new} \subseteq Entry
  <2>1. \A p \in Process : NewEntry(p) \in Entry
    BY DEF NewEntry, Process, Entry
  <2>2. new \subseteq Process
    BY <1>2 DEF Inserted
  <2> HIDE DEF new
  <2>. QED  BY <2>1, <2>2
<1>5. list' \in [Nodes -> SUBSET Entry]
  <2>1. list' = [list EXCEPT ![n] = (list[n] \ old) \cup now \cup {NewEntry(p) : p \in new}]
    BY DEF OnPing
  <2> HIDE DEF n, old, now, new
  <2>. QED  BY <1>1, <1>2, <1>3, <1>4, <2>1
<1>6. pool' \in [Nodes -> SUBSET Nodes]
  <2> DEFINE revived == {e.addr : e \in {f \in now : f.st = "Alive"}}
             suspected == {e.addr : e \in {f \in now : f.st # "Alive"}}
  <2>1. revived \subseteq Nodes /\ suspected \subseteq Nodes
    <3> HIDE DEF now
    <3>. QED  BY <1>3 DEF Entry
  <2>2. PICK last \in SUBSET (revived \cap suspected) :
          pool' = [pool EXCEPT ![n] = (pool[n] \ revived) \cup (suspected \ revived) \cup last]
    BY DEF OnPing
  <2> HIDE DEF n, revived, suspected
  <2>. QED  BY <1>1, <1>2, <2>1, <2>2
<1>7. pings' \in [Nodes -> SUBSET Ping]
  <2>1. \A p \in pings[m.from] : p \in Ping /\ AtStage(p, "acked") \in Ping
    BY <1>1, <1>2, AtStageIs
  <2>2. pings' = [pings EXCEPT ![m.from] =
          {IF p.addr = n /\ p.jt = m.jt /\ p.at = m.at THEN AtStage(p, "acked") ELSE p :
             p \in pings[m.from]}]
    BY DEF OnPing
  <2>. QED  BY <1>1, <1>2, <2>1, <2>2
<1>8. notified' \subseteq Nodes /\ net' \subseteq net
  BY <1>1, <1>2 DEF OnPing
<1>. QED  BY <1>5, <1>6, <1>7, <1>8 DEF TypeOK, OnPing

(* An ack stamps entries, a missing one suspects them. *)
LEMMA PingEndsType ==
  ASSUME TypeOK, NEW n \in Nodes, NEW p \in pings[n], OnAck(n, p) \/ OnFailure(n, p)
  PROVE  TypeOK'
<1>1. /\ list \in [Nodes -> SUBSET Entry] /\ pool \in [Nodes -> SUBSET Nodes]
      /\ pings \in [Nodes -> SUBSET Ping] /\ p.addr \in Nodes
  BY DEF TypeOK, Ping
<1>2. Now \in Times /\ clock' \in Times
  BY ClockReads DEF TypeOK, OnAck, OnFailure
<1>3. \A e \in list[n] : e \in Entry /\ e.st \in Status /\ Stamp(e, Now, e.st) \in Entry
                         /\ Stamp(e, Now, "Timeout") \in Entry
  BY <1>1, <1>2, StampIs DEF Entry, Status
<1>4. list' \in [Nodes -> SUBSET Entry]
  <2>1. CASE OnAck(n, p)
    BY <1>1, <1>3, <2>1 DEF OnAck
  <2>2. CASE OnFailure(n, p)
    BY <1>1, <1>3, <2>2 DEF OnFailure
  <2>. QED  BY <2>1, <2>2
<1>5. pool' \in [Nodes -> SUBSET Nodes] /\ pings' \in [Nodes -> SUBSET Ping]
  BY <1>1 DEF OnAck, OnFailure
<1>6. faults' \in [FaultKinds -> Nat]
  BY FaultCounts DEF TypeOK, OnAck, OnFailure
<1>. QED  BY <1>2, <1>4, <1>5, <1>6 DEF TypeOK, OnAck, OnFailure

(* The calls and messages of Join carry nodes and readings of the clock. *)
LEMMA JoinType ==
  ASSUME TypeOK, NEW n \in Nodes,
         JoinLookup(n) \/ JoinFound(n) \/ JoinReply(n) \/ JoinTimeout(n)
  PROVE  TypeOK'
<1>1. /\ self \in [Nodes -> [up : BOOLEAN, jt : Times, st : Status]]
      /\ list \in [Nodes -> SUBSET Entry] /\ notified \subseteq Nodes
      /\ join \in [Nodes -> [stage : {"idle", "found", "asked", "replied"}, jt : Times, nr : Nat]]
      /\ net \subseteq PingMessage \cup JoinMessage /\ dns \in Nodes \cup {Nobody}
      /\ clock \in Times /\ 0 \in Times
  BY RingBoundsAssumption DEF TypeOK, Times
<1>2. CASE JoinLookup(n)
  <2>1. PICK leader \in LookupLeader(n) :
          IF leader = Nobody
            THEN /\ join' = [join EXCEPT ![n] = [stage |-> "found", jt |-> 0, nr |-> join[n].nr + 1]]
                 /\ UNCHANGED net
            ELSE /\ join' = [join EXCEPT ![n] = [stage |-> "asked", jt |-> 0, nr |-> join[n].nr + 1]]
                 /\ net' = net \cup {[kind |-> "join", to |-> leader, from |-> n, jt |-> self[n].jt,
                                      nr |-> join[n].nr + 1, read |-> FALSE]}
    BY <1>2 DEF JoinLookup
  <2>2. leader \in Nodes \cup {Nobody}
    BY <1>1 DEF LookupLeader, Entry
  <2>3. join' \in [Nodes -> [stage : {"idle", "found", "asked", "replied"}, jt : Times, nr : Nat]]
    <3>1. \A s \in {"found", "asked"} :
            [stage |-> s, jt |-> 0, nr |-> join[n].nr + 1]
              \in [stage : {"idle", "found", "asked", "replied"}, jt : Times, nr : Nat]
      BY <1>1
    <3>2. \E s \in {"found", "asked"} :
            join' = [join EXCEPT ![n] = [stage |-> s, jt |-> 0, nr |-> join[n].nr + 1]]
      BY <2>1
    <3>. QED  BY <1>1, <3>1, <3>2
  <2>4. net' \subseteq PingMessage \cup JoinMessage
    <3>1. leader # Nobody =>
            [kind |-> "join", to |-> leader, from |-> n, jt |-> self[n].jt,
             nr |-> join[n].nr + 1, read |-> FALSE] \in JoinMessage
      BY <1>1, <2>2 DEF JoinMessage
    <3>. QED  BY <1>1, <2>1, <3>1
  <2>. QED  BY <1>2, <2>3, <2>4 DEF TypeOK, JoinLookup
<1>3. ASSUME NEW t \in Times, Enter(n, t)
      PROVE  /\ self' \in [Nodes -> [up : BOOLEAN, jt : Times, st : Status]]
             /\ list' \in [Nodes -> SUBSET Entry]
             /\ join' \in [Nodes -> [stage : {"idle", "found", "asked", "replied"}, jt : Times, nr : Nat]]
  <2>1. [addr |-> n, jt |-> t, lut |-> t, st |-> "Alive", own |-> TRUE] \in Entry
    BY DEF Entry, Status
  <2>2. list' \in [Nodes -> SUBSET Entry]
    BY <1>1, <1>3, <2>1 DEF Enter
  <2>3. self' \in [Nodes -> [up : BOOLEAN, jt : Times, st : Status]]
    BY <1>1, <1>3 DEF Enter, Status
  <2>4. join' \in [Nodes -> [stage : {"idle", "found", "asked", "replied"}, jt : Times, nr : Nat]]
    BY <1>1, <1>3 DEF Enter, NoJoin
  <2>. QED  BY <2>2, <2>3, <2>4
<1>4. CASE JoinFound(n)
  <2>1. Now \in Times /\ clock' \in Times
    BY <1>1, <1>4, ClockReads DEF JoinFound
  <2>. QED  BY <1>1, <1>3, <1>4, <2>1 DEF TypeOK, JoinFound
<1>5. CASE JoinReply(n)
  <2>1. join[n].jt \in Times
    BY <1>1
  <2>. QED  BY <1>1, <1>3, <1>5, <2>1 DEF TypeOK, JoinReply
<1>6. CASE JoinTimeout(n)
  <2>1. join' \in [Nodes -> [stage : {"idle", "found", "asked", "replied"}, jt : Times, nr : Nat]]
    BY <1>1, <1>6 DEF JoinTimeout, NoJoin
  <2>2. faults' \in [FaultKinds -> Nat]
    BY <1>6, FaultCounts DEF TypeOK, JoinTimeout
  <2>. QED  BY <1>6, <2>1, <2>2 DEF TypeOK, JoinTimeout
<1>. QED  BY <1>2, <1>4, <1>5, <1>6

(* The introducer stamps the newcomer with a reading of the clock. *)
LEMMA OnJoinType ==
  ASSUME TypeOK, NEW m \in net, OnJoin(m)
  PROVE  TypeOK'
<1>1. /\ list \in [Nodes -> SUBSET Entry] /\ notified \subseteq Nodes /\ clock \in Times
      /\ join \in [Nodes -> [stage : {"idle", "found", "asked", "replied"}, jt : Times, nr : Nat]]
      /\ m.to \in Nodes /\ m.from \in Nodes /\ m.nr \in Nat
  BY MessageIs DEF TypeOK, OnJoin
<1>2. net' \subseteq net
  BY DEF OnJoin
<1>3. CASE UNCHANGED <<list, join, notified, clock>>
  BY <1>2, <1>3 DEF TypeOK, OnJoin
<1>4. CASE ~UNCHANGED <<list, join, notified, clock>>
  <2>1. /\ ReadClock
        /\ list' = [list EXCEPT ![m.to] = @ \cup
             {[addr |-> m.from, jt |-> Now, lut |-> Now, st |-> "Alive", own |-> FALSE]}]
        /\ notified' = notified \cup {m.to}
        /\ join' = [join EXCEPT ![m.from] =
             IF @.stage = "asked" /\ @.nr = m.nr
               THEN [stage |-> "replied", jt |-> Now, nr |-> m.nr] ELSE @]
    BY <1>4 DEF OnJoin
  <2>2. Now \in Times /\ clock' \in Times
    BY <1>1, <2>1, ClockReads
  <2>3. [addr |-> m.from, jt |-> Now, lut |-> Now, st |-> "Alive", own |-> FALSE] \in Entry
    BY <1>1, <2>2 DEF Entry, Status
  <2>4. list' \in [Nodes -> SUBSET Entry]
    BY <1>1, <2>1, <2>3
  <2>5. join' \in [Nodes -> [stage : {"idle", "found", "asked", "replied"}, jt : Times, nr : Nat]]
    BY <1>1, <2>1, <2>2
  <2>. QED  BY <1>1, <1>2, <2>1, <2>2, <2>4, <2>5 DEF TypeOK, OnJoin
<1>. QED  BY <1>3, <1>4

(* A process that leaves, dies or starts again. *)
LEMMA FailureType ==
  ASSUME TypeOK, NEW n \in Nodes, Leave(n) \/ Crash(n) \/ Restart(n)
  PROVE  TypeOK'
<1>1. /\ self \in [Nodes -> [up : BOOLEAN, jt : Times, st : Status]]
      /\ list \in [Nodes -> SUBSET Entry] /\ pool \in [Nodes -> SUBSET Nodes]
      /\ pings \in [Nodes -> SUBSET Ping]
      /\ join \in [Nodes -> [stage : {"idle", "found", "asked", "replied"}, jt : Times, nr : Nat]]
      /\ net \subseteq PingMessage \cup JoinMessage
      /\ 0 \in Times /\ Status = {"Alive", "Timeout", "Leaved"}
  BY RingBoundsAssumption DEF TypeOK, Times, Status
<1>2. self' \in [Nodes -> [up : BOOLEAN, jt : Times, st : Status]]
  <2>1. CASE Leave(n)
    BY <1>1, <2>1 DEF Leave
  <2>2. CASE Crash(n)
    BY <1>1, <2>2 DEF Crash
  <2>3. CASE Restart(n)
    BY <1>1, <2>3 DEF Restart, NewRingServer
  <2>. QED  BY <2>1, <2>2, <2>3
<1>3. /\ list' \in [Nodes -> SUBSET Entry] /\ pool' \in [Nodes -> SUBSET Nodes]
      /\ pings' \in [Nodes -> SUBSET Ping]
  BY <1>1 DEF Leave, Crash, Restart
<1>4. join' \in [Nodes -> [stage : {"idle", "found", "asked", "replied"}, jt : Times, nr : Nat]]
  BY <1>1 DEF Leave, Crash, Restart, NoJoin
<1>5. net' \subseteq PingMessage \cup JoinMessage
  <2>1. CASE Leave(n)
    <3>1. PICK started \in SUBSET net : net' = (net \ started) \cup {Started(m) : m \in started}
      BY <2>1 DEF Leave
    <3>. QED  BY <1>1, <3>1, StartedIs
  <2>2. CASE Crash(n) \/ Restart(n)
    BY <1>1, <2>2 DEF Crash, Restart
  <2>. QED  BY <2>1, <2>2
<1>6. faults' \in [FaultKinds -> Nat] /\ notified' \subseteq Nodes /\ decided' \subseteq Nodes
  BY FaultCounts DEF TypeOK, Leave, Crash, Restart
<1>7. UNCHANGED <<dns, clock>>
  BY DEF Leave, Crash, Restart
<1>. QED  BY <1>2, <1>3, <1>4, <1>5, <1>6, <1>7 DEF TypeOK

(* The leader that registers itself, and the operator at the DNS. *)
LEMMA LeaderType ==
  ASSUME TypeOK, (\E n \in Nodes : UpdateLeader(n) \/ DNSUpdate(n)) \/ DNSClear
  PROVE  TypeOK'
<1>1. ASSUME NEW n \in Nodes, UpdateLeader(n)
      PROVE  TypeOK'
  <2>1. notified' \subseteq Nodes /\ decided' \subseteq Nodes
    BY <1>1 DEF TypeOK, UpdateLeader
  <2>. QED  BY <1>1, <2>1 DEF TypeOK, UpdateLeader
<1>2. ASSUME NEW n \in Nodes, DNSUpdate(n)
      PROVE  TypeOK'
  <2>1. decided' \subseteq Nodes /\ dns' \in Nodes
    BY <1>2 DEF TypeOK, DNSUpdate
  <2>. QED  BY <1>2, <2>1 DEF TypeOK, DNSUpdate
<1>3. CASE DNSClear
  <2>1. faults' \in [FaultKinds -> Nat]
    BY <1>3, FaultCounts DEF TypeOK, DNSClear
  <2>. QED  BY <1>3, <2>1 DEF TypeOK, DNSClear, nodeVars
<1>. QED  BY <1>1, <1>2, <1>3

(* Every step keeps the types. *)
LEMMA TypeStep == TypeOK /\ [Next]_vars => TypeOK'
<1> SUFFICES ASSUME TypeOK, [Next]_vars PROVE TypeOK'
  OBVIOUS
<1>1. CASE UNCHANGED vars
  BY <1>1 DEF TypeOK, vars, nodeVars
<1>2. CASE Next
  BY <1>2, CronType, SendPingsType, OnPingType, PingEndsType, JoinType, OnJoinType, FailureType,
     LeaderType DEF Next
<1>. QED  BY <1>1, <1>2

(* No handler, timeout, crash or restart takes a variable of the ring or   *)
(* of the DNS out of its type; what is registered is an address.           *)
THEOREM TypeCorrect == Spec => []TypeOK
BY TypeInit, TypeStep, PTL DEF Spec

-----------------------------------------------------------------------------
(* Where the records of processes come from *)

(* A record r that a step makes of a record q: it is of the same process   *)
(* and says the same, or a ping of the process fails, whose Join is then   *)
(* not waiting for its reply.                                              *)
Follows(r, q) ==
  /\ r.addr = q.addr /\ r.jt = q.jt
  /\ \/ r.st = q.st
     \/ /\ r.st # "Alive" /\ ~(join[q.addr].stage = "replied" /\ join[q.addr].jt = q.jt)
        /\ \E n \in Nodes : \E p \in pings[n] : OnFailure(n, p) /\ IsSameProcess(q, p)

(* The records are the entries of the lists and the processes in pings. *)
LEMMA RecordIs ==
  \A r : r \in Records <=> \/ \E n \in Nodes : r \in list[n]
                           \/ \E m \in net : m.kind = "ping" /\ r \in m.procs
<1> DEFINE Entries == UNION {list[n] : n \in Nodes}
           Pinged == UNION {m.procs : m \in {k \in net : k.kind = "ping"}}
<1>1. \A r : r \in Entries <=> \E n \in Nodes : r \in list[n]
  OBVIOUS
<1>2. \A r : r \in Pinged <=> \E m \in net : m.kind = "ping" /\ r \in m.procs
  OBVIOUS
<1>3. Records = Entries \cup Pinged
  BY DEF Records
<1> HIDE DEF Entries, Pinged
<1>. QED  BY <1>1, <1>2, <1>3

(* The same after a step. *)
LEMMA RecordBecomes ==
  \A r : r \in Records' <=> \/ \E n \in Nodes : r \in list'[n]
                            \/ \E m \in net' : m.kind = "ping" /\ r \in m.procs
<1> DEFINE Entries == UNION {list'[n] : n \in Nodes}
           Pinged == UNION {m.procs : m \in {k \in net' : k.kind = "ping"}}
<1>1. \A r : r \in Entries <=> \E n \in Nodes : r \in list'[n]
  OBVIOUS
<1>2. \A r : r \in Pinged <=> \E m \in net' : m.kind = "ping" /\ r \in m.procs
  OBVIOUS
<1>3. Records' = Entries \cup Pinged
  BY DEF Records
<1> HIDE DEF Entries, Pinged
<1>. QED  BY <1>1, <1>2, <1>3

(* A tick stamps the own entry and forgets some others. *)
LEMMA CronRecords ==
  ASSUME TypeOK, NEW n \in Nodes, Cron(n)
  PROVE  \A e \in list'[n] : \E d \in list[n] :
           e.addr = d.addr /\ e.jt = d.jt /\ e.st = d.st /\ e.own = d.own /\ e = Heartbeat(d)
<1>1. Now \in Times
  BY ClockReads DEF TypeOK, Cron
<1>2. PICK gone \in SUBSET list[n] :
        list' = [list EXCEPT ![n] = {Heartbeat(e) : e \in list[n] \ gone}]
  BY DEF Cron
<1>3. ASSUME NEW d \in list[n]
      PROVE  /\ Heartbeat(d).addr = d.addr /\ Heartbeat(d).jt = d.jt
             /\ Heartbeat(d).st = d.st /\ Heartbeat(d).own = d.own
  <2>1. d \in Entry /\ d.st \in Status
    BY DEF TypeOK, Entry
  <2>. QED  BY <1>1, <2>1, StampIs DEF Heartbeat
<1>. QED  BY <1>2, <1>3 DEF TypeOK

(* A ping's handler takes entries from the list, as they were or with what *)
(* the message says of them, and inserts processes of the message.         *)
LEMMA OnPingRecords ==
  ASSUME TypeOK, NEW m \in net, OnPing(m)
  PROVE  \A e \in list'[m.to] :
           \/ e \in list[m.to] /\ Newer(News(m.to, m.procs), e) = {}
           \/ \E d \in list[m.to], p \in m.procs :
                /\ p \in Newer(News(m.to, m.procs), d)
                /\ e.addr = d.addr /\ e.jt = d.jt /\ e.own = d.own /\ e.st = p.st
                /\ e = Refresh(News(m.to, m.procs), d)
           \/ \E p \in m.procs :
                /\ p \in Inserted(m.to, News(m.to, m.procs))
                /\ e.addr = p.addr /\ e.jt = p.jt /\ ~e.own /\ e.st = p.st /\ e = NewEntry(p)
<1> DEFINE n == m.to
           news == News(n, m.procs)
           old == Refreshed(n, news)
           now == {Refresh(news, e) : e \in old}
           new == Inserted(n, news)
<1>1. /\ m \in PingMessage \cup JoinMessage /\ m.kind = "ping"
      /\ list \in [Nodes -> SUBSET Entry]
  BY DEF TypeOK, OnPing
<1>2. n \in Nodes /\ news \subseteq Process /\ news \subseteq m.procs
  BY <1>1, MessageIs DEF News
<1>3. list'[n] = (list[n] \ old) \cup now \cup {NewEntry(p) : p \in new}
  BY <1>1, <1>2 DEF OnPing
<1>4. ASSUME NEW e \in list[n] \ old
      PROVE  Newer(news, e) = {}
  BY DEF Refreshed
<1>5. ASSUME NEW d \in old
      PROVE  \E p \in m.procs :
               /\ p \in Newer(news, d)
               /\ d \in list[n]
               /\ Refresh(news, d).addr = d.addr /\ Refresh(news, d).jt = d.jt
               /\ Refresh(news, d).own = d.own /\ Refresh(news, d).st = p.st
  <2>1. d \in Entry /\ d \in list[n] /\ Newer(news, d) # {}
    BY <1>1, <1>2 DEF Refreshed
  <2>2. PICK p \in Newer(news, d) : Refresh(news, d) = Stamp(d, p.lut, p.st)
    BY <2>1 DEF Refresh
  <2>3. p.lut \in Times /\ p.st \in Status /\ p \in m.procs
    BY <1>2 DEF Newer, Process
  <2>. QED  BY <2>1, <2>2, <2>3, StampIs
<1>6. ASSUME NEW p \in new
      PROVE  /\ p \in m.procs
             /\ NewEntry(p).addr = p.addr /\ NewEntry(p).jt = p.jt /\ NewEntry(p).st = p.st
             /\ ~NewEntry(p).own
  BY <1>2 DEF Inserted, NewEntry
<1> HIDE DEF n, news, old, new
<1>7. ASSUME NEW e \in list'[n]
      PROVE  \/ e \in list[n] /\ Newer(news, e) = {}
             \/ \E d \in list[n], p \in m.procs :
                  /\ p \in Newer(news, d)
                  /\ e.addr = d.addr /\ e.jt = d.jt /\ e.own = d.own /\ e.st = p.st
                  /\ e = Refresh(news, d)
             \/ \E p \in m.procs :
                  /\ p \in new
                  /\ e.addr = p.addr /\ e.jt = p.jt /\ ~e.own /\ e.st = p.st /\ e = NewEntry(p)
  BY <1>3, <1>4, <1>5, <1>6
<1>. QED  BY <1>7 DEF n, news, new

(* An ack stamps the entries of the process; a missing one suspects them.  *)
LEMMA PingEndsRecords ==
  ASSUME TypeOK, NEW n \in Nodes, NEW p \in pings[n], OnAck(n, p) \/ OnFailure(n, p)
  PROVE  \A e \in list'[n] : \E d \in list[n] :
           /\ e.addr = d.addr /\ e.jt = d.jt /\ e.own = d.own
           /\ e.st = IF OnFailure(n, p) /\ IsSameProcess(d, p) THEN "Timeout" ELSE d.st
           /\ e = IF IsSameProcess(d, p)
                    THEN Stamp(d, Now, IF OnFailure(n, p) THEN "Timeout" ELSE d.st) ELSE d
<1>1. list \in [Nodes -> SUBSET Entry]
  BY DEF TypeOK
<1>2. Now \in Times
  BY ClockReads DEF TypeOK, OnAck, OnFailure
<1>3. ASSUME NEW d \in list[n], NEW s \in {d.st, "Timeout"}
      PROVE  /\ Stamp(d, Now, s).addr = d.addr /\ Stamp(d, Now, s).jt = d.jt
             /\ Stamp(d, Now, s).own = d.own /\ Stamp(d, Now, s).st = s
  <2>1. d \in Entry /\ s \in Status
    BY <1>1 DEF Entry, Status
  <2>. QED  BY <1>2, <2>1, StampIs
<1>4. CASE OnFailure(n, p)
  <2>1. list'[n] = {IF IsSameProcess(e, p) THEN Stamp(e, Now, "Timeout") ELSE e : e \in list[n]}
    BY <1>1, <1>4 DEF OnFailure
  <2>. QED  BY <1>3, <1>4, <2>1
<1>5. CASE OnAck(n, p) /\ ~OnFailure(n, p)
  <2>1. list'[n] = {IF IsSameProcess(e, p) THEN Stamp(e, Now, e.st) ELSE e : e \in list[n]}
    BY <1>1, <1>5 DEF OnAck
  <2>. QED  BY <1>3, <1>5, <2>1
<1>. QED  BY <1>4, <1>5

(* The record a process is born with. *)
Newborn(r, a, t) == r.addr = a /\ r.jt = t /\ r.st = "Alive"

(* Every record after a step follows one before it, or is the first of a   *)
(* process that founds the ring, is let in, or learns that it was.         *)
LEMMA RecordsStep ==
  ASSUME TypeOK, [Next]_vars, NEW r \in Records'
  PROVE  \/ \E q \in Records : Follows(r, q)
         \/ \E n \in Nodes : JoinFound(n) /\ Newborn(r, n, Now)
         \/ \E n \in Nodes : JoinReply(n) /\ Newborn(r, n, join[n].jt)
         \/ \E m \in net : OnJoin(m) /\ ReadClock /\ Newborn(r, m.from, Now)
<1> DEFINE Kept == \E q \in Records : Follows(r, q)
<1>1. /\ list \in [Nodes -> SUBSET Entry] /\ net \subseteq PingMessage \cup JoinMessage
      /\ join \in [Nodes -> [stage : {"idle", "found", "asked", "replied"}, jt : Times, nr : Nat]]
  BY DEF TypeOK
<1>2. \/ \E n \in Nodes : r \in list'[n]
      \/ \E m \in net' : m.kind = "ping" /\ r \in m.procs
  BY RecordBecomes
<1>3. ASSUME r \in Records PROVE Kept
  BY <1>3 DEF Follows
<1>4. ASSUME NEW n \in Nodes, r \in list[n] PROVE Kept
  BY <1>3, <1>4, RecordIs
<1>5. ASSUME NEW m \in net, m.kind = "ping", r \in m.procs PROVE Kept
  BY <1>3, <1>5, RecordIs
<1>6. ASSUME UNCHANGED <<list, net>> PROVE Kept
  BY <1>2, <1>4, <1>5, <1>6
<1>7. ASSUME NEW n \in Nodes, Cron(n) PROVE Kept
  <2>1. UNCHANGED net /\ \A k \in Nodes : k # n => list'[k] = list[k]
    BY <1>1, <1>7 DEF Cron
  <2>2. ASSUME r \in list'[n] PROVE Kept
    BY <1>7, <2>2, CronRecords, RecordIs DEF Follows
  <2>. QED  BY <1>2, <1>4, <1>5, <2>1, <2>2
<1>8. ASSUME NEW n \in Nodes, SendPings(n) PROVE Kept
  <2>1. UNCHANGED list
    BY <1>8 DEF SendPings
  <2>2. ASSUME NEW m \in net', m \notin net, r \in m.procs PROVE Kept
    <3>1. m.procs = {Sent(e) : e \in list[n]}
      BY <1>8, <2>2 DEF SendPings
    <3>. QED  BY <2>2, <3>1, RecordIs DEF Sent, Follows
  <2>. QED  BY <1>2, <1>4, <1>5, <2>1, <2>2
<1>9. ASSUME NEW m \in net, OnPing(m) PROVE Kept
  <2>1. /\ m.to \in Nodes /\ m.kind = "ping" /\ net' \subseteq net
        /\ \A k \in Nodes : k # m.to => list'[k] = list[k]
    BY <1>1, <1>9, MessageIs DEF OnPing
  <2>2. ASSUME r \in list'[m.to] PROVE Kept
    <3>1. CASE r \in list[m.to]
      BY <1>4, <2>1, <3>1
    <3>2. ASSUME NEW d \in list[m.to], NEW p \in m.procs, p \in Newer(News(m.to, m.procs), d),
                 r.addr = d.addr, r.jt = d.jt, r.st = p.st
          PROVE  Kept
      <4>1. r.addr = p.addr /\ r.jt = p.jt
        BY <3>2 DEF Newer, IsSameProcess
      <4>. QED  BY <2>1, <3>2, <4>1, RecordIs DEF Follows
    <3>3. ASSUME NEW p \in m.procs, r.addr = p.addr, r.jt = p.jt, r.st = p.st
          PROVE  Kept
      BY <2>1, <3>3, RecordIs DEF Follows
    <3>. QED  BY <1>9, <2>2, <3>1, <3>2, <3>3, OnPingRecords
  <2>. QED  BY <1>2, <1>4, <1>5, <2>1, <2>2
<1>10. ASSUME NEW n \in Nodes, NEW p \in pings[n], OnAck(n, p) \/ OnFailure(n, p) PROVE Kept
  <2>1. UNCHANGED net /\ \A k \in Nodes : k # n => list'[k] = list[k]
    BY <1>1, <1>10 DEF OnAck, OnFailure
  <2>2. OnFailure(n, p) => ~(join[p.addr].stage = "replied" /\ join[p.addr].jt = p.jt)
    BY DEF OnFailure
  <2>3. ASSUME r \in list'[n] PROVE Kept
    <3>1. PICK d \in list[n] :
            /\ r.addr = d.addr /\ r.jt = d.jt
            /\ r.st = IF OnFailure(n, p) /\ IsSameProcess(d, p) THEN "Timeout" ELSE d.st
      BY <1>10, <2>3, PingEndsRecords
    <3>. QED  BY <2>2, <3>1, RecordIs DEF Follows, IsSameProcess
  <2>. QED  BY <1>2, <1>4, <1>5, <2>1, <2>3
<1>11. ASSUME NEW n \in Nodes, Leave(n) PROVE Kept
  <2>1. \A k \in Nodes : list'[k] \subseteq list[k]
    BY <1>1, <1>11 DEF Leave
  <2>2. PICK started \in SUBSET net : net' = (net \ started) \cup {Started(m) : m \in started}
    BY <1>11 DEF Leave
  <2>3. ASSUME NEW m \in net', m.kind = "ping", r \in m.procs PROVE Kept
    BY <1>1, <1>5, <2>2, <2>3, StartedIs
  <2>. QED  BY <1>2, <1>4, <2>1, <2>3
<1>12. ASSUME NEW n \in Nodes, Crash(n) PROVE Kept
  <2>1. net' \subseteq net /\ \A k \in Nodes : list'[k] \subseteq list[k]
    BY <1>1, <1>12 DEF Crash
  <2>. QED  BY <1>2, <1>4, <1>5, <2>1
<1>13. ASSUME NEW n \in Nodes, JoinLookup(n) PROVE Kept
  <2>1. UNCHANGED list /\ \A m \in net' : m.kind = "ping" => m \in net
    BY <1>13 DEF JoinLookup
  <2>. QED  BY <1>2, <1>4, <1>5, <2>1
<1>14. ASSUME NEW n \in Nodes, NEW t, Enter(n, t), UNCHANGED net
       PROVE  Kept \/ Newborn(r, n, t)
  <2>1. /\ \A k \in Nodes : k # n => list'[k] = list[k]
        /\ list'[n] = list[n] \cup {[addr |-> n, jt |-> t, lut |-> t, st |-> "Alive", own |-> TRUE]}
    BY <1>1, <1>14 DEF Enter
  <2>. QED  BY <1>2, <1>4, <1>5, <1>14, <2>1 DEF Newborn
<1>15. ASSUME NEW m \in net, OnJoin(m) PROVE Kept \/ (ReadClock /\ Newborn(r, m.from, Now))
  <2>1. m.to \in Nodes /\ net' \subseteq net
    BY <1>1, <1>15, MessageIs DEF OnJoin
  <2>2. CASE UNCHANGED list
    BY <1>2, <1>4, <1>5, <2>1, <2>2
  <2>3. CASE ~UNCHANGED list
    <3>1. ReadClock /\ list' = [list EXCEPT ![m.to] = @ \cup
            {[addr |-> m.from, jt |-> Now, lut |-> Now, st |-> "Alive", own |-> FALSE]}]
      BY <1>15, <2>3 DEF OnJoin
    <3>2. /\ \A k \in Nodes : k # m.to => list'[k] = list[k]
          /\ list'[m.to] = list[m.to] \cup
               {[addr |-> m.from, jt |-> Now, lut |-> Now, st |-> "Alive", own |-> FALSE]}
      BY <1>1, <2>1, <3>1
    <3>. QED  BY <1>2, <1>4, <1>5, <2>1, <3>1, <3>2 DEF Newborn
  <2>. QED  BY <2>2, <2>3
<1>16. ASSUME \/ \E n \in Nodes : JoinTimeout(n) \/ UpdateLeader(n) \/ DNSUpdate(n) \/ Restart(n)
              \/ DNSClear \/ UNCHANGED vars
       PROVE  UNCHANGED <<list, net>>
  BY <1>16 DEF JoinTimeout, UpdateLeader, DNSUpdate, Restart, DNSClear, vars, nodeVars
<1>17. ASSUME NEW n \in Nodes, JoinFound(n) PROVE Kept \/ Newborn(r, n, Now)
  BY <1>14, <1>17 DEF JoinFound
<1>18. ASSUME NEW n \in Nodes, JoinReply(n) PROVE Kept \/ Newborn(r, n, join[n].jt)
  BY <1>14, <1>18 DEF JoinReply
<1> HIDE DEF Kept
<1>19. \/ Kept
       \/ \E n \in Nodes : JoinFound(n) /\ Newborn(r, n, Now)
       \/ \E n \in Nodes : JoinReply(n) /\ Newborn(r, n, join[n].jt)
       \/ \E m \in net : OnJoin(m) /\ ReadClock /\ Newborn(r, m.from, Now)
  BY <1>6, <1>7, <1>8, <1>9, <1>10, <1>11, <1>12, <1>13, <1>15, <1>16, <1>17, <1>18 DEF Next
<1>. QED  BY <1>19 DEF Kept

-----------------------------------------------------------------------------
(* A dead process stays dead *)

(* What is newly said alive is a process that is just being born. *)
LEMMA DeadStep ==
  ASSUME TypeOK, [Next]_vars, NEW p \in SaidAlive' \ SaidAlive
  PROVE  ~Dead(p[1], p[2])
<1>1. PICK r \in Records' : r.st = "Alive" /\ p = <<r.addr, r.jt>>
  BY DEF SaidAlive
<1>2. ~\E q \in Records : Follows(r, q)
  BY <1>1 DEF SaidAlive, Follows
<1>3. CASE \E n \in Nodes : JoinReply(n) /\ Newborn(r, n, join[n].jt)
  BY <1>1, <1>3 DEF Newborn, JoinReply, Dead
<1>4. CASE ReadClock /\ \E a : Newborn(r, a, Now)
  <2>1. clock \in Times
    BY DEF TypeOK
  <2>2. Now \in Nat /\ Now > clock /\ clock \in Nat
    BY <1>4, <2>1, ClockReads DEF Times
  <2>. QED  BY <1>1, <1>4, <2>2 DEF Newborn, Dead
<1>. QED  BY <1>2, <1>3, <1>4, RecordsStep DEF JoinFound

(* No suspicion, gossip, ack or restart revives a process once nobody says *)
(* it is alive, however many processes, crashes and rejoins there are.     *)
THEOREM NobodyRevived == Spec => DeadStaysDead
<1>1. TypeOK /\ [Next]_vars => [\A p \in SaidAlive' \ SaidAlive : ~Dead(p[1], p[2])]_vars
  BY DeadStep
<1>. QED  BY <1>1, TypeCorrect, PTL DEF Spec, DeadStaysDead

-----------------------------------------------------------------------------
(* One process per address *)

(* Calls of Join are only ever counted up. *)
LEMMA JoinsCount ==
  ASSUME TypeOK, [Next]_vars, NEW a \in Nodes
  PROVE  join[a].nr \in Nat /\ join'[a].nr \in Nat /\ join[a].nr <= join'[a].nr
<1>1. join \in [Nodes -> [stage : {"idle", "found", "asked", "replied"}, jt : Times, nr : Nat]]
  BY DEF TypeOK
<1>2. CASE UNCHANGED join
  BY <1>1, <1>2
<1>3. ASSUME NEW n \in Nodes, JoinLookup(n)
      PROVE  \E s : join' = [join EXCEPT ![n] = [stage |-> s, jt |-> 0, nr |-> join[n].nr + 1]]
  BY <1>3 DEF JoinLookup
<1>4. ASSUME NEW n \in Nodes, JoinFound(n) \/ JoinReply(n) \/ JoinTimeout(n) \/ Crash(n)
      PROVE  join' = [join EXCEPT ![n] = [stage |-> "idle", jt |-> 0, nr |-> join[n].nr]]
  BY <1>4 DEF JoinFound, JoinReply, Enter, JoinTimeout, Crash, NoJoin
<1>5. ASSUME NEW m \in net, OnJoin(m)
      PROVE  \A b \in Nodes : join'[b].nr = join[b].nr
  BY <1>1, <1>5 DEF OnJoin
<1>6. ASSUME \/ \E n \in Nodes : \/ Cron(n) \/ Leave(n) \/ UpdateLeader(n) \/ DNSUpdate(n)
                                 \/ Restart(n) \/ SendPings(n)
                                 \/ \E p \in pings[n] : OnAck(n, p) \/ OnFailure(n, p)
             \/ \E m \in net : OnPing(m)
             \/ DNSClear \/ UNCHANGED vars
      PROVE  UNCHANGED join
  BY <1>6 DEF Cron, Leave, UpdateLeader, DNSUpdate, Restart, SendPings, OnAck, OnFailure, OnPing,
       DNSClear, vars, nodeVars
<1>7. ASSUME NEW n \in Nodes, JoinLookup(n)
      PROVE  join[a].nr \in Nat /\ join'[a].nr \in Nat /\ join[a].nr <= join'[a].nr
  BY <1>1, <1>3, <1>7
<1>8. ASSUME NEW n \in Nodes, JoinFound(n) \/ JoinReply(n) \/ JoinTimeout(n) \/ Crash(n)
      PROVE  join[a].nr \in Nat /\ join'[a].nr \in Nat /\ join[a].nr <= join'[a].nr
  BY <1>1, <1>4, <1>8
<1>9. ASSUME NEW m \in net, OnJoin(m)
      PROVE  join[a].nr \in Nat /\ join'[a].nr \in Nat /\ join[a].nr <= join'[a].nr
  BY <1>1, <1>5, <1>9
<1>. QED  BY <1>2, <1>6, <1>7, <1>8, <1>9 DEF Next

(* Who has joined once has not joined twice before. *)
LEMMA OnceBefore == TypeOK /\ [Next]_vars /\ JoinedOnce' => JoinedOnce
<1> SUFFICES ASSUME TypeOK, [Next]_vars, JoinedOnce', NEW a \in Nodes
             PROVE  join[a].nr <= 1
  BY DEF JoinedOnce
<1>1. join'[a].nr <= 1
  BY DEF JoinedOnce
<1>. QED  BY <1>1, JoinsCount

(* A first call of Join finds no trace of an earlier one. *)
LEMMA FirstJoin ==
  ASSUME TypeOK, NEW n \in Nodes, JoinLookup(n), JoinedOnce'
  PROVE  /\ join[n].nr = 0 /\ join[n].stage = "idle" /\ Unborn(n)
         /\ join'[n].nr = 1 /\ join'[n].stage \in {"found", "asked"}
         /\ \A b \in Nodes : b # n => join'[b] = join[b]
<1>1. join \in [Nodes -> [stage : {"idle", "found", "asked", "replied"}, jt : Times, nr : Nat]]
  BY DEF TypeOK
<1>2. \E s \in {"found", "asked"} :
        join' = [join EXCEPT ![n] = [stage |-> s, jt |-> 0, nr |-> join[n].nr + 1]]
  BY DEF JoinLookup
<1>3. join'[n].nr <= 1
  BY DEF JoinedOnce
<1>4. join[n].nr = 0 /\ join[n].stage = "idle"
  BY <1>1, <1>2, <1>3 DEF JoinLookup
<1>. QED  BY <1>1, <1>2, <1>4 DEF Unborn

(* The requests for a place after a step were there before it, but for the *)
(* one of a first call of Join; the handler of a request consumes it.      *)
LEMMA RequestsKept ==
  ASSUME TypeOK, [Next]_vars, NEW a \in Nodes
  PROVE  \/ \A l \in JoinRequests(a)' :
              l \in JoinRequests(a) \/ \E m \in JoinRequests(a) \ net' : l = Started(m)
         \/ JoinLookup(a)
<1> DEFINE Goal == \A l \in JoinRequests(a)' :
              l \in JoinRequests(a) \/ \E m \in JoinRequests(a) \ net' : l = Started(m)
<1>1. net \subseteq PingMessage \cup JoinMessage
  BY DEF TypeOK
<1>2. ASSUME \A m \in net' : m.kind = "join" /\ m.from = a => m \in net
      PROVE  Goal
  BY <1>2 DEF JoinRequests
<1>3. ASSUME NEW n \in Nodes, Leave(n)
      PROVE  Goal
  <2>1. PICK started \in SUBSET net : net' = (net \ started) \cup {Started(m) : m \in started}
    BY <1>3 DEF Leave
  <2>2. ASSUME NEW l \in JoinRequests(a)', l \notin net
        PROVE  \E m \in JoinRequests(a) \ net' : l = Started(m)
    <3>1. PICK m \in started : l = Started(m)
      BY <2>1, <2>2 DEF JoinRequests
    <3>2. m \in JoinRequests(a)
      BY <1>1, <2>2, <3>1, StartedIs DEF JoinRequests
    <3>3. m \notin net'
      <4>1. \A k \in PingMessage \cup JoinMessage : Started(k).read
        BY DEF Started, PingMessage, JoinMessage
      <4>2. CASE m.read
        <5>1. m \in JoinMessage
          BY <1>1, <3>2, MessageIs DEF JoinRequests
        <5>2. Started(m) = m
          BY <4>2, <5>1 DEF Started, JoinMessage
        <5>. QED  BY <2>2, <3>1, <5>2
      <4>3. CASE ~m.read
        BY <1>1, <2>1, <4>1, <4>3
      <4>. QED  BY <4>2, <4>3
    <3>. QED  BY <3>1, <3>2, <3>3
  <2>. QED  BY <2>2 DEF JoinRequests
<1>4. ASSUME NEW n \in Nodes, SendPings(n)
      PROVE  Goal
  <2>1. \A m \in net' : m \in net \/ m.kind = "ping"
    BY <1>4 DEF SendPings
  <2>. QED  BY <1>2, <2>1
<1>5. ASSUME NEW n \in Nodes, n # a, JoinLookup(n)
      PROVE  Goal
  <2>1. \A m \in net' : m \in net \/ m.from = n
    BY <1>5 DEF JoinLookup
  <2>. QED  BY <1>2, <1>5, <2>1
<1>6. ASSUME \/ \E n \in Nodes : \/ Cron(n) \/ JoinFound(n) \/ JoinReply(n) \/ JoinTimeout(n)
                                 \/ UpdateLeader(n) \/ DNSUpdate(n) \/ Crash(n) \/ Restart(n)
                                 \/ \E p \in pings[n] : OnAck(n, p) \/ OnFailure(n, p)
             \/ \E m \in net : OnPing(m) \/ OnJoin(m)
             \/ DNSClear \/ UNCHANGED vars
      PROVE  net' \subseteq net
  BY <1>6 DEF Cron, JoinFound, JoinReply, JoinTimeout, UpdateLeader, DNSUpdate, Crash, Restart,
       OnAck, OnFailure, OnPing, OnJoin, DNSClear, vars
<1>7. Goal \/ JoinLookup(a)
  BY <1>2, <1>3, <1>4, <1>5, <1>6 DEF Next
<1>. QED  BY <1>7

(* How far a call of Join has come, after a step: as before, or started,   *)
(* or over, or answered by an introducer with a reading of the clock.      *)
LEMMA StagesStep ==
  ASSUME TypeOK, [Next]_vars, NEW a \in Nodes
  PROVE  \/ join'[a] = join[a]
         \/ JoinLookup(a)
         \/ join'[a].stage = "idle" /\ join'[a].nr = join[a].nr
         \/ \E m \in net : /\ OnJoin(m) /\ m.from = a /\ ReadClock
                           /\ join[a].stage = "asked" /\ join'[a].stage = "replied"
                           /\ join'[a].jt = Now /\ join'[a].nr = join[a].nr
<1>1. join \in [Nodes -> [stage : {"idle", "found", "asked", "replied"}, jt : Times, nr : Nat]]
  BY DEF TypeOK
<1>2. ASSUME NEW n \in Nodes, JoinLookup(n)
      PROVE  join'[a] = join[a] \/ JoinLookup(a)
  BY <1>1, <1>2 DEF JoinLookup
<1>3. ASSUME NEW n \in Nodes, JoinFound(n) \/ JoinReply(n) \/ JoinTimeout(n) \/ Crash(n)
      PROVE  join' = [join EXCEPT ![n] = [stage |-> "idle", jt |-> 0, nr |-> join[n].nr]]
  BY <1>3 DEF JoinFound, JoinReply, Enter, JoinTimeout, Crash, NoJoin
<1>4. ASSUME NEW n \in Nodes, JoinFound(n) \/ JoinReply(n) \/ JoinTimeout(n) \/ Crash(n)
      PROVE  join'[a] = join[a] \/ (join'[a].stage = "idle" /\ join'[a].nr = join[a].nr)
  BY <1>1, <1>3, <1>4
<1>5. ASSUME NEW m \in net, OnJoin(m)
      PROVE  \/ join'[a] = join[a]
             \/ /\ m.from = a /\ ReadClock
                /\ join[a].stage = "asked" /\ join'[a].stage = "replied"
                /\ join'[a].jt = Now /\ join'[a].nr = join[a].nr
  BY <1>1, <1>5 DEF OnJoin
<1>6. ASSUME \/ \E n \in Nodes : \/ Cron(n) \/ Leave(n) \/ UpdateLeader(n) \/ DNSUpdate(n)
                                 \/ Restart(n) \/ SendPings(n)
                                 \/ \E p \in pings[n] : OnAck(n, p) \/ OnFailure(n, p)
             \/ \E m \in net : OnPing(m)
             \/ DNSClear \/ UNCHANGED vars
      PROVE  UNCHANGED join
  BY <1>6 DEF Cron, Leave, UpdateLeader, DNSUpdate, Restart, SendPings, OnAck, OnFailure, OnPing,
       DNSClear, vars, nodeVars
<1>. QED  BY <1>2, <1>4, <1>5, <1>6 DEF Next

(* A process that was born stays born, while nobody joins twice. *)
LEMMA BornStaysBorn ==
  ASSUME TypeOK, [Next]_vars, JoinedOnce', NEW a \in Nodes, Unborn(a)'
  PROVE  Unborn(a)
<1>1. CASE JoinLookup(a)
  BY <1>1, FirstJoin
<1>2. CASE ~JoinLookup(a)
  <2>1. JoinRequests(a)' # {} => JoinRequests(a) # {}
    BY <1>2, RequestsKept
  <2>2. join'[a].nr = 0 => join[a].nr = 0
    BY JoinsCount
  <2>3. join'[a].stage = "found" => join[a].stage = "found"
    BY <1>2, StagesStep
  <2>. QED  BY <2>1, <2>2, <2>3 DEF Unborn
<1>. QED  BY <1>1, <1>2

(* Who founds the ring, or is let in by an introducer, is born. *)
LEMMA Birth ==
  ASSUME TypeOK, RequestsOnce, NEW a \in Nodes,
         JoinFound(a) \/ \E m \in net : OnJoin(m) /\ m.from = a
  PROVE  Unborn(a) /\ ~Unborn(a)'
<1>1. join \in [Nodes -> [stage : {"idle", "found", "asked", "replied"}, jt : Times, nr : Nat]]
  BY DEF TypeOK
<1>2. /\ \A l, m \in JoinRequests(a) : l = m
      /\ join[a].nr = 0 => join[a].stage = "idle"
      /\ join[a].nr = 0 \/ join[a].stage = "found" => JoinRequests(a) = {}
  BY DEF RequestsOnce
<1>3. CASE JoinFound(a)
  <2>1. /\ join[a].stage = "found" /\ UNCHANGED net
        /\ join'[a] = [stage |-> "idle", jt |-> 0, nr |-> join[a].nr]
    BY <1>1, <1>3 DEF JoinFound, Enter, NoJoin
  <2>2. JoinRequests(a)' = {}
    BY <1>2, <2>1 DEF JoinRequests
  <2>3. join[a].nr # 0
    BY <1>2, <2>1
  <2>. QED  BY <2>1, <2>2, <2>3 DEF Unborn
<1>4. ASSUME NEW m \in net, OnJoin(m), m.from = a
      PROVE  Unborn(a) /\ ~Unborn(a)'
  <2>1. m \in JoinRequests(a) /\ net' = net \ {m}
    BY <1>4 DEF OnJoin, JoinRequests
  <2>2. JoinRequests(a)' = {}
    BY <1>2, <2>1 DEF JoinRequests
  <2>3. join[a].nr # 0 /\ join[a].stage # "found"
    BY <1>2, <2>1
  <2>4. join'[a].nr = join[a].nr /\ join'[a].stage \in {join[a].stage, "replied"}
    BY <1>1, <1>4 DEF OnJoin
  <2>. QED  BY <2>1, <2>2, <2>3, <2>4 DEF Unborn
<1>. QED  BY <1>3, <1>4

(* There is at most one request of an address, and none but from a process *)
(* that is not born yet.                                                   *)
LEMMA RequestsStep ==
  ASSUME TypeOK, RequestsOnce, JoinedOnce', [Next]_vars
  PROVE  RequestsOnce'
<1> SUFFICES ASSUME NEW a \in Nodes
             PROVE  /\ \A l, m \in JoinRequests(a)' : l = m
                    /\ join'[a].nr = 0 => join'[a].stage = "idle"
                    /\ join'[a].nr = 0 \/ join'[a].stage = "found" => JoinRequests(a)' = {}
                    /\ join'[a].stage = "replied" => ~Unborn(a)'
  BY DEF RequestsOnce
<1>1. /\ \A l, m \in JoinRequests(a) : l = m
      /\ join[a].nr = 0 => join[a].stage = "idle"
      /\ join[a].nr = 0 \/ join[a].stage = "found" => JoinRequests(a) = {}
      /\ join[a].stage = "replied" => ~Unborn(a)
  BY DEF RequestsOnce
<1>2. CASE JoinLookup(a)
  <2>1. join[a].nr = 0 /\ join'[a].nr = 1 /\ join'[a].stage \in {"found", "asked"}
    BY <1>2, FirstJoin
  <2>2. JoinRequests(a) = {}
    BY <1>1, <2>1
  <2>3. PICK leader \in LookupLeader(a) :
          IF leader = Nobody
            THEN UNCHANGED net
            ELSE /\ join' = [join EXCEPT ![a] = [stage |-> "asked", jt |-> 0, nr |-> join[a].nr + 1]]
                 /\ net' = net \cup {[kind |-> "join", to |-> leader, from |-> a, jt |-> self[a].jt,
                                      nr |-> join[a].nr + 1, read |-> FALSE]}
    BY <1>2 DEF JoinLookup
  <2>4. CASE leader = Nobody
    BY <2>1, <2>2, <2>3, <2>4 DEF JoinRequests
  <2>5. CASE leader # Nobody
    <3>1. join'[a].stage = "asked"
      BY <2>3, <2>5 DEF TypeOK
    <3>2. \A l, m \in JoinRequests(a)' : l = m
      BY <2>2, <2>3, <2>5 DEF JoinRequests
    <3>. QED  BY <2>1, <3>1, <3>2
  <2>. QED  BY <2>4, <2>5
<1>3. CASE ~JoinLookup(a)
  <2>1. \A l \in JoinRequests(a)' :
          l \in JoinRequests(a) \/ \E m \in JoinRequests(a) \ net' : l = Started(m)
    BY <1>3, RequestsKept
  <2>2. JoinRequests(a)' \subseteq net'
    BY DEF JoinRequests
  <2>3. \A l, m \in JoinRequests(a)' : l = m
    BY <1>1, <2>1, <2>2
  <2>4. JoinRequests(a) = {} => JoinRequests(a)' = {}
    BY <2>1
  <2>5. Unborn(a)' => Unborn(a)
    BY BornStaysBorn
  <2>6. ASSUME NEW m \in net, OnJoin(m), m.from = a
        PROVE  ~Unborn(a)'
    BY <2>6, Birth
  <2>. QED  BY <1>1, <1>3, <2>3, <2>4, <2>5, <2>6, StagesStep
<1>. QED  BY <1>2, <1>3

(* All records of an address are of one process, and of a process that has *)
(* not had its reply nobody says but that it is alive.                     *)
LEMMA RecordsAgreeStep ==
  ASSUME TypeOK, RequestsOnce, RecordsAgree, JoinedOnce', [Next]_vars
  PROVE  RecordsAgree'
<1>1. /\ \A e, f \in Records : e.addr = f.addr => e.jt = f.jt
      /\ \A e \in Records : ~Unborn(e.addr)
      /\ \A e \in Records : join[e.addr].stage = "replied"
                              => e.jt = join[e.addr].jt /\ e.st = "Alive"
  BY DEF RecordsAgree
<1>2. ASSUME NEW e \in Records' PROVE e.addr \in Nodes
  <2>1. TypeOK'
    BY TypeStep
  <2>2. \/ \E n \in Nodes : e \in list'[n]
        \/ \E m \in net' : m.kind = "ping" /\ e \in m.procs
    BY RecordBecomes
  <2>3. CASE \E n \in Nodes : e \in list'[n]
    BY <2>1, <2>3 DEF TypeOK, Entry
  <2>4. ASSUME NEW m \in net', m.kind = "ping", e \in m.procs PROVE e.addr \in Nodes
    <3>1. m.procs \subseteq Process
      BY <2>1, <2>4, MessageIs DEF TypeOK
    <3>. QED  BY <2>4, <3>1 DEF Process
  <2>. QED  BY <2>2, <2>3, <2>4
<1> DEFINE Old(e) == \E q \in Records : Follows(e, q)
           Told(e) == /\ join[e.addr].stage = "replied" /\ join'[e.addr].stage = "idle"
                      /\ e.jt = join[e.addr].jt /\ e.st = "Alive"
           First(e) == Unborn(e.addr) /\ ~Unborn(e.addr)' /\ e.jt = Now /\ e.st = "Alive"
<1>3. ASSUME NEW e \in Records'
      PROVE  Old(e) \/ Told(e) \/ First(e)
  <2>1. ASSUME NEW n \in Nodes, JoinReply(n), Newborn(e, n, join[n].jt)
        PROVE  Told(e)
    BY <2>1 DEF JoinReply, Enter, NoJoin, Newborn, TypeOK
  <2>2. ASSUME NEW n \in Nodes, JoinFound(n), Newborn(e, n, Now)
        PROVE  First(e)
    BY <2>2, Birth DEF Newborn
  <2>3. ASSUME NEW m \in net, OnJoin(m), Newborn(e, m.from, Now)
        PROVE  First(e)
    BY <1>2, <2>3, Birth DEF Newborn
  <2>. QED  BY <2>1, <2>2, <2>3, RecordsStep
<1>4. ASSUME NEW e \in Records', NEW f \in Records', e.addr = f.addr
      PROVE  e.jt = f.jt
  <2>1. ASSUME NEW g \in Records', Old(g) PROVE ~Unborn(g.addr)
    BY <1>1, <2>1 DEF Follows
  <2>2. ASSUME NEW g \in Records', Told(g) PROVE ~Unborn(g.addr)
    BY <1>2, <2>2 DEF RequestsOnce
  <2>3. CASE First(e) \/ First(f)
    BY <1>3, <1>4, <2>1, <2>2, <2>3
  <2>4. CASE Old(e) /\ Old(f)
    BY <1>1, <1>4, <2>4 DEF Follows
  <2>5. CASE (Old(e) /\ Told(f)) \/ (Told(e) /\ Old(f)) \/ (Told(e) /\ Told(f))
    BY <1>1, <1>4, <2>5 DEF Follows
  <2>. QED  BY <1>3, <2>3, <2>4, <2>5
<1>5. ASSUME NEW e \in Records'
      PROVE  ~Unborn(e.addr)'
  <2>1. CASE Old(e)
    BY <1>1, <1>2, <2>1, BornStaysBorn DEF Follows
  <2>2. CASE Told(e)
    BY <1>2, <2>2, BornStaysBorn DEF RequestsOnce
  <2>3. CASE First(e)
    BY <2>3
  <2>. QED  BY <1>3, <2>1, <2>2, <2>3
<1>6. ASSUME NEW e \in Records', join'[e.addr].stage = "replied"
      PROVE  e.jt = join'[e.addr].jt /\ e.st = "Alive"
  <2>1. e.addr \in Nodes
    BY <1>2
  <2>2. CASE join'[e.addr] = join[e.addr]
    <3>1. ~Unborn(e.addr)
      BY <1>6, <2>1, <2>2 DEF RequestsOnce
    <3>2. Old(e)
      BY <1>3, <1>6, <2>2, <3>1
    <3>. QED  BY <1>1, <1>6, <2>2, <3>2 DEF Follows
  <2>3. CASE JoinLookup(e.addr)
    BY <1>6, <2>1, <2>3, FirstJoin
  <2>4. ASSUME NEW m \in net, OnJoin(m), m.from = e.addr, join'[e.addr].jt = Now,
               join[e.addr].stage = "asked"
        PROVE  e.jt = join'[e.addr].jt /\ e.st = "Alive"
    <3>1. Unborn(e.addr)
      BY <2>1, <2>4, Birth
    <3>2. ~Old(e) /\ ~Told(e)
      BY <1>1, <2>4, <3>1 DEF Follows
    <3>. QED  BY <1>3, <2>4, <3>2
  <2>. QED  BY <1>6, <2>1, <2>2, <2>3, <2>4, StagesStep
<1>. QED  BY <1>4, <1>5, <1>6 DEF RecordsAgree

-----------------------------------------------------------------------------
(* One entry per address *)

(* What EntriesApart says of one list. *)
Apart(n, L, t) ==
  /\ \A e \in L : e.own => e.addr = n /\ e.jt = t
  /\ \A e, f \in L : e.addr = f.addr /\ e.own = f.own /\ ~e.own => e = f
  /\ \A e, f \in L : e.addr = f.addr => e.st = f.st

(* The entries of other addresses are not the own one, so there is one of  *)
(* each.                                                                   *)
LEMMA OneEntryEach ==
  ASSUME TypeOK, EntriesApart, NEW n \in Nodes, NEW e \in list[n], NEW f \in list[n],
         e.addr = f.addr, e.addr # n
  PROVE  e = f
<1>1. ~e.own /\ ~f.own /\ e.own \in BOOLEAN /\ f.own \in BOOLEAN
  BY DEF EntriesApart, TypeOK, Entry
<1>. QED  BY <1>1 DEF EntriesApart

(* OnPing keeps the list in order: what the message says of an address is  *)
(* of the process the list knows, and it says one thing.                   *)
LEMMA OnPingApart ==
  ASSUME TypeOK, RecordsAgree, EntriesApart, MessagesApart, NEW m \in net, OnPing(m)
  PROVE  Apart(m.to, list'[m.to], self[m.to].jt)
<1> DEFINE n == m.to
           news == News(n, m.procs)
<1>1. /\ m.kind = "ping" /\ n \in Nodes /\ m.procs \subseteq Process
      /\ list[n] \subseteq Entry
  BY MessageIs DEF TypeOK, OnPing
<1>2. /\ \A e \in list[n] : e.own => e.addr = n /\ e.jt = self[n].jt
      /\ \A e, f \in list[n] : e.addr = f.addr /\ e.own = f.own /\ ~e.own => e = f
      /\ \A e, f \in list[n] : e.addr = f.addr => e.st = f.st
  BY <1>1 DEF EntriesApart
<1>3. \A x, y \in list[n] \cup m.procs : x.addr = y.addr => x.jt = y.jt
  BY <1>1, RecordIs DEF RecordsAgree
<1>4. \A p, q \in m.procs : p.addr = q.addr => p.st = q.st
  BY <1>1 DEF MessagesApart
<1> DEFINE Kept(e) == e \in list[n] /\ Newer(news, e) = {}
           Changed(e, d) == /\ \E p \in m.procs : p \in Newer(news, d) /\ e.st = p.st
                            /\ e.addr = d.addr /\ e.jt = d.jt /\ e.own = d.own
                            /\ e = Refresh(news, d)
           Added(e, p) == /\ p \in m.procs /\ p \in Inserted(n, news)
                          /\ e.addr = p.addr /\ e.jt = p.jt /\ ~e.own /\ e.st = p.st
                          /\ e = NewEntry(p)
<1>5. ASSUME NEW e \in list'[n]
      PROVE  Kept(e) \/ (\E d \in list[n] : Changed(e, d)) \/ (\E p \in m.procs : Added(e, p))
  BY <1>5, OnPingRecords
<1>6. ASSUME NEW e, NEW p \in m.procs, Added(e, p), NEW d \in list[n]
      PROVE  d.addr # p.addr
  <2>1. ~Has(list[n], p)
    BY <1>6 DEF Inserted
  <2>. QED  BY <1>3, <2>1 DEF Has, IsSameProcess
<1>7. ASSUME NEW d \in list[n], d.addr = n, d.jt = self[n].jt
      PROVE  Newer(news, d) = {}
  BY <1>7 DEF Newer, News, IsSameProcess, Me
<1>8. ASSUME NEW e \in list'[n], e.own
      PROVE  e.addr = n /\ e.jt = self[n].jt /\ Kept(e)
  <2>1. CASE Kept(e)
    BY <1>2, <1>8, <2>1
  <2>2. ASSUME NEW d \in list[n], Changed(e, d) PROVE FALSE
    BY <1>2, <1>7, <1>8, <2>2
  <2>3. ASSUME NEW p \in m.procs, Added(e, p) PROVE FALSE
    BY <1>8, <2>3
  <2>. QED  BY <1>5, <2>1, <2>2, <2>3
<1>9. ASSUME NEW e \in list'[n], NEW f \in list'[n], e.addr = f.addr, ~e.own, ~f.own
      PROVE  e = f
  <2>1. ASSUME NEW p \in m.procs, NEW q \in m.procs, Added(e, p), Added(f, q)
        PROVE  e = f
    <3>1. p.addr = q.addr /\ p.jt = q.jt /\ p.st = q.st
      BY <1>3, <1>4, <1>9, <2>1
    <3>2. p \in news /\ q \in news
      BY <2>1 DEF Inserted
    <3>3. p.lut <= q.lut /\ q.lut <= p.lut /\ p.lut \in Nat /\ q.lut \in Nat
      BY <1>1, <3>1, <3>2 DEF News, IsSameProcess, Process, Times
    <3>4. p.lut = q.lut
      BY <3>3
    <3>5. NewEntry(p) = NewEntry(q)
      BY <3>1, <3>4 DEF NewEntry
    <3>. QED  BY <2>1, <3>5
  <2>2. ASSUME NEW d \in list[n], (Kept(e) /\ d = e) \/ Changed(e, d),
               NEW c \in list[n], (Kept(f) /\ c = f) \/ Changed(f, c)
        PROVE  e = f
    <3>1. d.addr = c.addr /\ ~d.own /\ ~c.own /\ d.own \in BOOLEAN /\ c.own \in BOOLEAN
      BY <1>1, <1>9, <2>2 DEF Entry
    <3>2. d = c
      BY <1>2, <3>1
    <3>. QED  BY <2>2, <3>2
  <2>3. ASSUME NEW d \in list[n], (Kept(e) /\ d = e) \/ Changed(e, d),
               NEW q \in m.procs, Added(f, q)
        PROVE  FALSE
    BY <1>6, <1>9, <2>3
  <2>4. ASSUME NEW d \in list[n], (Kept(f) /\ d = f) \/ Changed(f, d),
               NEW q \in m.procs, Added(e, q)
        PROVE  FALSE
    BY <1>6, <1>9, <2>4
  <2> HIDE DEF Kept, Changed, Added
  <2>5. \A g : Kept(g) => g \in list[n]
    BY DEF Kept
  <2>. QED  BY <1>5, <2>1, <2>2, <2>3, <2>4, <2>5
<1>10. ASSUME NEW e \in list'[n], NEW f \in list'[n], e.addr = f.addr
       PROVE  e.st = f.st
  <2>1. ASSUME NEW g \in list'[n], NEW h \in list'[n], g.addr = h.addr, g.own
        PROVE  g.st = h.st
    <3>1. g.addr = n /\ g.jt = self[n].jt /\ g \in list[n]
      BY <1>8, <2>1
    <3>2. ASSUME NEW p \in m.procs, Added(h, p) PROVE FALSE
      BY <1>6, <2>1, <3>1, <3>2
    <3>3. ASSUME NEW d \in list[n], Changed(h, d) PROVE FALSE
      <4>1. d.addr = n /\ d.jt = self[n].jt
        BY <1>3, <2>1, <3>1, <3>3
      <4>. QED  BY <1>7, <3>3, <4>1
    <3>4. Kept(h)
      BY <1>5, <3>2, <3>3
    <3>. QED  BY <1>2, <2>1, <3>1, <3>4
  <2>. QED  BY <1>9, <1>10, <2>1
<1> HIDE DEF n
<1>11. \A e, f \in list'[n] : e.addr = f.addr /\ e.own = f.own /\ ~e.own => e = f
  BY <1>9
<1>12. Apart(n, list'[n], self[n].jt)
  BY <1>8, <1>10, <1>11 DEF Apart
<1>. QED  BY <1>12 DEF n

(* A tick, the end of a ping, and the entry of a newcomer keep it so. *)
LEMMA EntriesStep ==
  ASSUME TypeOK, RequestsOnce, RecordsAgree, EntriesApart, MessagesApart, Stages, [Next]_vars
  PROVE  EntriesApart'
<1> SUFFICES ASSUME NEW n \in Nodes PROVE Apart(n, list'[n], self'[n].jt)
  BY DEF EntriesApart, Apart
<1>1. /\ list \in [Nodes -> SUBSET Entry] /\ net \subseteq PingMessage \cup JoinMessage
      /\ self \in [Nodes -> [up : BOOLEAN, jt : Times, st : Status]]
      /\ join \in [Nodes -> [stage : {"idle", "found", "asked", "replied"}, jt : Times, nr : Nat]]
  BY DEF TypeOK
<1>2. Apart(n, list[n], self[n].jt)
  BY DEF EntriesApart, Apart
<1>3. CASE list'[n] = list[n] /\ self'[n].jt = self[n].jt
  BY <1>2, <1>3
<1>4. CASE list'[n] = {}
  BY <1>4 DEF Apart
<1>5. ASSUME NEW a \in Nodes, Unborn(a), NEW k \in Nodes, NEW e \in list[k]
      PROVE  e.addr # a
  BY <1>5, RecordIs DEF RecordsAgree
<1>6. CASE Cron(n)
  <2>1. UNCHANGED self
    BY <1>6 DEF Cron
  <2>2. ASSUME NEW e \in list'[n]
        PROVE  \E d \in list[n] : /\ e.addr = d.addr /\ e.jt = d.jt /\ e.st = d.st /\ e.own = d.own
                                  /\ ~e.own => e = d
    BY <1>6, <2>2, CronRecords DEF Heartbeat
  <2>. QED  BY <1>2, <2>1, <2>2 DEF Apart
<1>7. ASSUME NEW p \in pings[n], OnAck(n, p) \/ OnFailure(n, p)
      PROVE  Apart(n, list'[n], self'[n].jt)
  <2> DEFINE Made(d) == IF IsSameProcess(d, p)
                          THEN Stamp(d, Now, IF OnFailure(n, p) THEN "Timeout" ELSE d.st) ELSE d
             Says(d) == IF OnFailure(n, p) /\ IsSameProcess(d, p) THEN "Timeout" ELSE d.st
  <2>1. UNCHANGED self
    BY <1>7 DEF OnAck, OnFailure
  <2>2. ASSUME NEW e \in list'[n]
        PROVE  \E d \in list[n] : /\ e.addr = d.addr /\ e.jt = d.jt /\ e.own = d.own
                                  /\ e.st = Says(d) /\ e = Made(d)
    BY <1>7, <2>2, PingEndsRecords
  <2>3. \A d, c \in list[n] : d.addr = c.addr => d.jt = c.jt
    BY RecordIs DEF RecordsAgree
  <2>4. \A d, c \in list[n] : d.addr = c.addr => Says(d) = Says(c)
    BY <1>2, <2>3 DEF Apart, IsSameProcess
  <2> HIDE DEF Made, Says
  <2>5. \A e \in list'[n] : e.own => e.addr = n /\ e.jt = self'[n].jt
    BY <1>2, <2>1, <2>2 DEF Apart
  <2>6. \A e, f \in list'[n] : e.addr = f.addr /\ e.own = f.own /\ ~e.own => e = f
    BY <1>2, <2>2 DEF Apart
  <2>7. \A e, f \in list'[n] : e.addr = f.addr => e.st = f.st
    BY <2>2, <2>4
  <2>. QED  BY <2>5, <2>6, <2>7 DEF Apart
<1>8. ASSUME NEW m \in net, OnPing(m)
      PROVE  Apart(n, list'[n], self'[n].jt)
  <2>1. /\ UNCHANGED self /\ m.to \in Nodes
        /\ n # m.to => list'[n] = list[n]
    BY <1>1, <1>8, MessageIs DEF OnPing
  <2>2. CASE n = m.to
    BY <1>8, <2>1, <2>2, OnPingApart
  <2>. QED  BY <1>3, <2>1, <2>2
<1>9. ASSUME NEW t, Enter(n, t),
             \A e \in list[n] : e.addr = n => e.jt = t /\ e.st = "Alive"
      PROVE  Apart(n, list'[n], self'[n].jt)
  <2> DEFINE own == [addr |-> n, jt |-> t, lut |-> t, st |-> "Alive", own |-> TRUE]
  <2>1. list'[n] = list[n] \cup {own} /\ self'[n].jt = t
    BY <1>1, <1>9 DEF Enter
  <2>2. own.addr = n /\ own.jt = t /\ own.st = "Alive" /\ own.own
    OBVIOUS
  <2> HIDE DEF own
  <2>. QED  BY <1>2, <1>9, <2>1, <2>2 DEF Apart
<1>10. CASE JoinFound(n)
  <2>1. Unborn(n) /\ Enter(n, Now)
    BY <1>10 DEF JoinFound, Unborn
  <2>. QED  BY <1>5, <1>9, <2>1
<1>11. CASE JoinReply(n)
  <2>1. Enter(n, join[n].jt) /\ join[n].stage = "replied"
    BY <1>11 DEF JoinReply
  <2>2. \A e \in list[n] : e.addr = n => e.jt = join[n].jt /\ e.st = "Alive"
    BY <2>1, RecordIs DEF RecordsAgree
  <2>. QED  BY <1>9, <2>1, <2>2
<1>12. ASSUME NEW m \in net, OnJoin(m)
       PROVE  Apart(n, list'[n], self'[n].jt)
  <2>1. UNCHANGED self /\ m.to \in Nodes /\ m.from \in Nodes /\ Unborn(m.from)
    BY <1>1, <1>12, MessageIs, Birth DEF OnJoin
  <2>2. CASE list'[n] = list[n]
    BY <1>3, <2>1, <2>2
  <2>3. CASE list'[n] # list[n]
    <3> DEFINE new == [addr |-> m.from, jt |-> Now, lut |-> Now, st |-> "Alive", own |-> FALSE]
    <3>1. list'[n] = list[n] \cup {new}
      BY <1>1, <1>12, <2>1, <2>3 DEF OnJoin
    <3>2. new.addr = m.from /\ ~new.own
      OBVIOUS
    <3>3. \A e \in list[n] : e.addr # m.from
      BY <1>5, <2>1
    <3> HIDE DEF new
    <3>. QED  BY <1>2, <2>1, <3>1, <3>2, <3>3 DEF Apart
  <2>. QED  BY <2>2, <2>3
<1>13. ASSUME NEW k \in Nodes, Leave(k) \/ Crash(k)
       PROVE  list'[n] = {} \/ (list'[n] = list[n] /\ self'[n].jt = self[n].jt)
  BY <1>1, <1>13 DEF Leave, Crash
<1>14. ASSUME NEW k \in Nodes, Restart(k)
       PROVE  list'[n] = list[n] /\ self'[n].jt = self[n].jt
  BY <1>1, <1>14 DEF Restart, Stages, NewRingServer
<1>15. ASSUME NEW k \in Nodes, k # n,
              \/ Cron(k) \/ JoinFound(k) \/ JoinReply(k)
              \/ \E p \in pings[k] : OnAck(k, p) \/ OnFailure(k, p)
       PROVE  list'[n] = list[n] /\ self'[n].jt = self[n].jt
  BY <1>1, <1>15 DEF Cron, JoinFound, JoinReply, Enter, OnAck, OnFailure
<1>16. ASSUME \/ \E k \in Nodes : \/ JoinLookup(k) \/ JoinTimeout(k) \/ UpdateLeader(k)
                                  \/ DNSUpdate(k) \/ SendPings(k)
              \/ DNSClear \/ UNCHANGED vars
       PROVE  list'[n] = list[n] /\ self'[n].jt = self[n].jt
  BY <1>16 DEF JoinLookup, JoinTimeout, UpdateLeader, DNSUpdate, SendPings, DNSClear, vars, nodeVars
<1>. QED
  BY <1>3, <1>4, <1>6, <1>7, <1>8, <1>10, <1>11, <1>12, <1>13, <1>14, <1>15, <1>16 DEF Next

(* A ping says one thing of an address, as the list that was sent. *)
LEMMA MessagesStep ==
  ASSUME TypeOK, EntriesApart, MessagesApart, [Next]_vars
  PROVE  MessagesApart'
<1> SUFFICES ASSUME NEW m \in net', m.kind = "ping"
             PROVE  \A p, q \in m.procs : p.addr = q.addr => p.st = q.st
  BY DEF MessagesApart
<1>1. net \subseteq PingMessage \cup JoinMessage
  BY DEF TypeOK
<1>2. CASE m \in net
  BY <1>2 DEF MessagesApart
<1>3. ASSUME NEW n \in Nodes, Leave(n)
      PROVE  \E k \in net : k.kind = "ping" /\ m.procs = k.procs
  <2>1. PICK started \in SUBSET net : net' = (net \ started) \cup {Started(k) : k \in started}
    BY <1>3 DEF Leave
  <2>. QED  BY <1>1, <2>1, StartedIs
<1>4. ASSUME NEW n \in Nodes, SendPings(n), m \notin net
      PROVE  \A p, q \in m.procs : p.addr = q.addr => p.st = q.st
  <2>1. m.procs = {Sent(e) : e \in list[n]}
    BY <1>4 DEF SendPings
  <2>2. \A e, f \in list[n] : e.addr = f.addr => e.st = f.st
    BY DEF EntriesApart
  <2>. QED  BY <2>1, <2>2 DEF Sent
<1>5. ASSUME NEW n \in Nodes, JoinLookup(n)
      PROVE  m \in net
  BY <1>5 DEF JoinLookup
<1>6. ASSUME \/ \E n \in Nodes : \/ Cron(n) \/ JoinFound(n) \/ JoinReply(n) \/ JoinTimeout(n)
                                 \/ UpdateLeader(n) \/ DNSUpdate(n) \/ Crash(n) \/ Restart(n)
                                 \/ \E p \in pings[n] : OnAck(n, p) \/ OnFailure(n, p)
             \/ \E k \in net : OnPing(k) \/ OnJoin(k)
             \/ DNSClear \/ UNCHANGED vars
      PROVE  m \in net
  BY <1>6 DEF Cron, JoinFound, JoinReply, JoinTimeout, UpdateLeader, DNSUpdate, Crash, Restart,
       OnAck, OnFailure, OnPing, OnJoin, DNSClear, vars
<1>7. ASSUME NEW n \in Nodes, Leave(n)
      PROVE  \A p, q \in m.procs : p.addr = q.addr => p.st = q.st
  BY <1>3, <1>7 DEF MessagesApart
<1>. QED  BY <1>2, <1>4, <1>5, <1>6, <1>7 DEF Next

(* Who left has joined and does not join again; who is down has no join    *)
(* time.                                                                   *)
LEMMA ProcessStep ==
  ASSUME TypeOK, RequestsOnce, RecordsAgree, Stages, JoinedOnce', [Next]_vars
  PROVE  Stages'
<1> SUFFICES ASSUME NEW n \in Nodes
             PROVE  /\ self'[n].st = "Leaved" => join'[n].nr > 0 /\ join'[n].stage = "idle"
                    /\ ~self'[n].up => self'[n].jt = 0 /\ self'[n].st = "Alive"
  BY DEF Stages
<1>1. /\ self \in [Nodes -> [up : BOOLEAN, jt : Times, st : Status]]
      /\ join \in [Nodes -> [stage : {"idle", "found", "asked", "replied"}, jt : Times, nr : Nat]]
  BY DEF TypeOK
<1>2. /\ self[n].st = "Leaved" => join[n].nr > 0 /\ join[n].stage = "idle"
      /\ ~self[n].up => self[n].jt = 0 /\ self[n].st = "Alive"
  BY DEF Stages
<1>3. ASSUME join[n].nr > 0, join[n].stage = "idle"
      PROVE  join'[n].nr > 0 /\ join'[n].stage = "idle"
  <2>1. ~JoinLookup(n)
    BY <1>3, FirstJoin
  <2>. QED  BY <1>3, <2>1, StagesStep, JoinsCount
<1>4. CASE self'[n] = self[n]
  BY <1>2, <1>3, <1>4
<1>5. ASSUME NEW k \in Nodes, Leave(k)
      PROVE  \/ self'[n] = self[n]
             \/ n = k /\ self'[n].up
  BY <1>1, <1>5 DEF Leave
<1>6. ASSUME Leave(n)
      PROVE  join[n].nr > 0 /\ join[n].stage = "idle"
  <2>1. PICK e \in list[n] : e.addr = n
    BY <1>6 DEF Leave, Has, IsSameProcess, Me
  <2>2. ~Unborn(n)
    BY <2>1, RecordIs DEF RecordsAgree
  <2>. QED  BY <1>1, <1>6, <2>2 DEF Unborn, Leave
<1>7. ASSUME NEW k \in Nodes, JoinFound(k) \/ JoinReply(k)
      PROVE  self'[n] = self[n] \/ (self'[n].up /\ self'[n].st = "Alive")
  BY <1>1, <1>7 DEF JoinFound, JoinReply, Enter
<1>8. ASSUME NEW k \in Nodes, Crash(k) \/ Restart(k)
      PROVE  self'[n] = self[n] \/ (self'[n].jt = 0 /\ self'[n].st = "Alive")
  BY <1>1, <1>8 DEF Crash, Restart, NewRingServer
<1>9. ASSUME \/ \E k \in Nodes : \/ Cron(k) \/ JoinLookup(k) \/ JoinTimeout(k) \/ UpdateLeader(k)
                                 \/ DNSUpdate(k) \/ SendPings(k)
                                 \/ \E p \in pings[k] : OnAck(k, p) \/ OnFailure(k, p)
             \/ \E m \in net : OnPing(m) \/ OnJoin(m)
             \/ DNSClear \/ UNCHANGED vars
      PROVE  UNCHANGED self
  BY <1>9 DEF Cron, JoinLookup, JoinTimeout, UpdateLeader, DNSUpdate, SendPings, OnAck, OnFailure,
       OnPing, OnJoin, DNSClear, vars, nodeVars
<1>10. ASSUME NEW k \in Nodes, Leave(k)
       PROVE  /\ self'[n].st = "Leaved" => join'[n].nr > 0 /\ join'[n].stage = "idle"
              /\ ~self'[n].up => self'[n].jt = 0 /\ self'[n].st = "Alive"
  BY <1>3, <1>4, <1>5, <1>6, <1>10
<1>. QED  BY <1>4, <1>7, <1>8, <1>9, <1>10 DEF Next

(* At first nobody is known, nothing is sent and no call of Join runs. *)
LEMMA RingInit == Init => RingInv
<1> SUFFICES ASSUME Init PROVE RingInv
  OBVIOUS
<1>1. \A r : r \notin Records
  BY RecordIs DEF Init
<1>2. \A a \in Nodes : join[a].nr = 0 /\ join[a].stage = "idle" /\ JoinRequests(a) = {}
  BY DEF Init, NoJoin, JoinRequests
<1>3. RequestsOnce
  BY <1>2 DEF RequestsOnce
<1>4. RecordsAgree
  BY <1>1 DEF RecordsAgree
<1>5. EntriesApart /\ MessagesApart /\ Stages
  BY DEF Init, EntriesApart, MessagesApart, Stages, NewRingServer
<1>. QED  BY <1>3, <1>4, <1>5 DEF RingInv

(* The invariant is inductive.  JoinedOnce holds before a step if it holds *)
(* after it, so nothing is claimed of the states from which it fails.      *)
LEMMA RingStep == TypeOK /\ RingInv /\ [Next]_vars => RingInv'
<1> SUFFICES ASSUME TypeOK, RingInv, [Next]_vars, JoinedOnce'
             PROVE  /\ RequestsOnce' /\ RecordsAgree' /\ EntriesApart'
                    /\ MessagesApart' /\ Stages'
  BY DEF RingInv
<1>1. RequestsOnce /\ RecordsAgree /\ EntriesApart /\ MessagesApart /\ Stages
  BY OnceBefore DEF RingInv
<1>. QED
  BY <1>1, RequestsStep, RecordsAgreeStep, EntriesStep, MessagesStep, ProcessStep

(* While nobody joins twice, an address has one process, of which a list   *)
(* has one entry but for the own, and no process is suspected while its    *)
(* Join waits for the reply.                                               *)
THEOREM OneProcessPerAddress == Spec => []RingInv
BY TypeCorrect, RingInit, RingStep, PTL DEF Spec

-----------------------------------------------------------------------------
(* The expiration pool *)

(* The pool P of a process with the list L has the address a exactly if    *)
(* the list suspects it.                                                   *)
Agree(P, L, a) == a \in P <=> \E e \in L : e.addr = a /\ e.st # "Alive"

(* OnPing moves an address into the pool or out of it as it changes the    *)
(* one entry the address has.                                              *)
LEMMA OnPingPool ==
  ASSUME TypeOK, RecordsAgree, EntriesApart, NEW m \in net, OnPing(m),
         NEW a \in Nodes, a # m.to, Agree(pool[m.to], list[m.to], a)
  PROVE  Agree(pool'[m.to], list'[m.to], a)
<1> DEFINE n == m.to
           news == News(n, m.procs)
           old == Refreshed(n, news)
           now == {Refresh(news, e) : e \in old}
           new == Inserted(n, news)
           added == {NewEntry(p) : p \in new}
           revived == {e.addr : e \in {f \in now : f.st = "Alive"}}
           suspected == {e.addr : e \in {f \in now : f.st # "Alive"}}
<1>1. /\ m \in PingMessage \cup JoinMessage /\ m.kind = "ping"
      /\ list \in [Nodes -> SUBSET Entry] /\ pool \in [Nodes -> SUBSET Nodes]
  BY DEF TypeOK, OnPing
<1>2. n \in Nodes /\ news \subseteq Process /\ news \subseteq m.procs
  BY <1>1, MessageIs DEF News
<1>3. list'[n] = (list[n] \ old) \cup now \cup added
  BY <1>1, <1>2 DEF OnPing
<1>4. PICK last \in SUBSET (revived \cap suspected) :
        pool'[n] = (pool[n] \ revived) \cup (suspected \ revived) \cup last
  BY <1>1, <1>2 DEF OnPing
<1>5. \A d \in old : d \in list[n] /\ Refresh(news, d).addr = d.addr
  <2> SUFFICES ASSUME NEW d \in old
               PROVE  d \in list[n] /\ Refresh(news, d).addr = d.addr
    OBVIOUS
  <2>1. d \in Entry /\ d \in list[n] /\ Newer(news, d) # {}
    BY <1>1, <1>2 DEF Refreshed
  <2>2. PICK p \in Newer(news, d) : Refresh(news, d) = Stamp(d, p.lut, p.st)
    BY <2>1 DEF Refresh
  <2>3. p.lut \in Times /\ p.st \in Status
    BY <1>2 DEF Newer, Process
  <2>. QED  BY <2>1, <2>2, <2>3, StampIs
<1>6. \A e \in added : e.st = "Alive"
  BY DEF NewEntry, Inserted
<1>7. \A d, e \in list[n] : d.addr = a /\ e.addr = a => d = e
  BY <1>2, OneEntryEach
<1> HIDE DEF added, old, new, news
<1>8. \A e \in now : e.addr = a => \E d \in old : d.addr = a /\ e = Refresh(news, d)
  BY <1>5
<1>9. \A e, f \in now : e.addr = a /\ f.addr = a => e = f
  BY <1>5, <1>7, <1>8
<1>10. \A e \in now, d \in list[n] : e.addr = a /\ d.addr = a => d \in old
  BY <1>5, <1>7, <1>8
<1>11. \A d \in old : Refresh(news, d) \in now
  OBVIOUS
<1> HIDE DEF now
<1>12. a \in revived <=> \E e \in now : e.addr = a /\ e.st = "Alive"
  OBVIOUS
<1>13. a \in suspected <=> \E e \in now : e.addr = a /\ e.st # "Alive"
  OBVIOUS
<1>14. a \notin revived \cap suspected
  BY <1>9, <1>12, <1>13
<1> HIDE DEF revived, suspected
<1>15. CASE \E e \in now : e.addr = a
  <2>1. PICK e \in now : e.addr = a
    BY <1>15
  <2>2. \A f \in list'[n] : f.addr = a => f = e \/ f.st = "Alive"
    BY <1>3, <1>6, <1>9, <1>10, <2>1
  <2>3. e \in list'[n]
    BY <1>3
  <2>4. a \in pool'[n] <=> e.st # "Alive"
    BY <1>4, <1>9, <1>12, <1>13, <1>14, <2>1
  <2> HIDE DEF n
  <2>5. Agree(pool'[n], list'[n], a)
    BY <2>1, <2>2, <2>3, <2>4 DEF Agree
  <2>. QED  BY <2>5 DEF n
<1>16. CASE ~\E e \in now : e.addr = a
  <2>1. a \in pool'[n] <=> a \in pool[n]
    BY <1>4, <1>12, <1>13, <1>16
  <2>2. \A d \in list[n] : d.addr = a => d \in list'[n]
    BY <1>3, <1>5, <1>11, <1>16
  <2>3. \A f \in list'[n] : f.addr = a => f \in list[n] \/ f.st = "Alive"
    BY <1>3, <1>6, <1>16
  <2> HIDE DEF n
  <2>4. Agree(pool[n], list[n], a)
    BY DEF n
  <2>5. Agree(pool'[n], list'[n], a)
    BY <2>1, <2>2, <2>3, <2>4 DEF Agree
  <2>. QED  BY <2>5 DEF n
<1>. QED  BY <1>15, <1>16

(* The pool of a process that has not left keeps agreeing with its list on *)
(* every other address, whatever the step.                                 *)
LEMMA PoolStep ==
  ASSUME TypeOK, RecordsAgree, EntriesApart, Stages, [Next]_vars,
         NEW n \in Nodes, NEW a \in Nodes, a # n,
         self[n].st # "Leaved" => Agree(pool[n], list[n], a),
         self'[n].st # "Leaved"
  PROVE  Agree(pool'[n], list'[n], a)
<1> DEFINE Before == Agree(pool[n], list[n], a)
           After == Agree(pool'[n], list'[n], a)
<1>1. /\ list \in [Nodes -> SUBSET Entry] /\ pool \in [Nodes -> SUBSET Nodes]
      /\ self \in [Nodes -> [up : BOOLEAN, jt : Times, st : Status]]
      /\ pings \in [Nodes -> SUBSET Ping] /\ net \subseteq PingMessage \cup JoinMessage
  BY DEF TypeOK
<1>2. self[n].st = "Leaved" => join[n].stage = "idle" /\ self[n].up
  BY <1>1 DEF Stages
<1>3. \A d, e \in list[n] : d.addr = a /\ e.addr = a => d = e
  BY OneEntryEach
<1>4. CASE pool'[n] = pool[n] /\ list'[n] = list[n] /\ Before
  BY <1>4
<1>5. CASE Before /\ Cron(n)
  <2>1. Now \in Times
    BY <1>5, ClockReads DEF TypeOK, Cron
  <2>2. PICK gone \in SUBSET list[n] :
          /\ list' = [list EXCEPT ![n] = {Heartbeat(e) : e \in list[n] \ gone}]
          /\ pool' = [pool EXCEPT ![n] = @ \ {e.addr : e \in gone}]
    BY <1>5 DEF Cron
  <2>3. \A d \in list[n] : Heartbeat(d).addr = d.addr /\ Heartbeat(d).st = d.st
    <3> SUFFICES ASSUME NEW d \in list[n]
                 PROVE  Heartbeat(d).addr = d.addr /\ Heartbeat(d).st = d.st
      OBVIOUS
    <3>1. d \in Entry /\ d.st \in Status
      BY <1>1 DEF Entry
    <3>. QED  BY <2>1, <3>1, StampIs DEF Heartbeat
  <2>4. a \in pool'[n] <=> a \in pool[n] /\ \A d \in gone : d.addr # a
    BY <1>1, <2>2
  <2>5. \A e : e \in list'[n] <=> \E d \in list[n] \ gone : e = Heartbeat(d)
    BY <1>1, <2>2
  <2>. QED  BY <1>3, <1>5, <2>3, <2>4, <2>5 DEF Agree
<1>6. ASSUME NEW p \in pings[n], Before, OnAck(n, p)
      PROVE  After
  <2>1. Now \in Times
    BY <1>6, ClockReads DEF TypeOK, OnAck
  <2>2. \A d \in list[n] : Stamp(d, Now, d.st).addr = d.addr /\ Stamp(d, Now, d.st).st = d.st
    <3> SUFFICES ASSUME NEW d \in list[n]
                 PROVE  Stamp(d, Now, d.st).addr = d.addr /\ Stamp(d, Now, d.st).st = d.st
      OBVIOUS
    <3>1. d \in Entry /\ d.st \in Status
      BY <1>1 DEF Entry
    <3>. QED  BY <2>1, <3>1, StampIs
  <2>3. /\ pool' = pool
        /\ list'[n] = {IF IsSameProcess(e, p) THEN Stamp(e, Now, e.st) ELSE e : e \in list[n]}
    BY <1>1, <1>6 DEF OnAck
  <2>. QED  BY <1>6, <2>2, <2>3 DEF Agree
<1>7. ASSUME NEW p \in pings[n], Before, OnFailure(n, p)
      PROVE  After
  <2>1. Now \in Times
    BY <1>7, ClockReads DEF TypeOK, OnFailure
  <2>2. \A d \in list[n] : /\ Stamp(d, Now, "Timeout").addr = d.addr
                           /\ Stamp(d, Now, "Timeout").st = "Timeout"
    <3> SUFFICES ASSUME NEW d \in list[n]
                 PROVE  Stamp(d, Now, "Timeout").addr = d.addr /\ Stamp(d, Now, "Timeout").st = "Timeout"
      OBVIOUS
    <3>1. d \in Entry /\ "Timeout" \in Status
      BY <1>1 DEF Status
    <3>. QED  BY <2>1, <3>1, StampIs
  <2>3. /\ pool'[n] = IF Has(list[n], p) THEN pool[n] \cup {p.addr} ELSE pool[n]
        /\ list'[n] = {IF IsSameProcess(e, p) THEN Stamp(e, Now, "Timeout") ELSE e : e \in list[n]}
    BY <1>1, <1>7 DEF OnFailure
  <2>4. a \in pool'[n] <=>
          (a \in pool[n] \/ (a = p.addr /\ \E d \in list[n] : IsSameProcess(d, p)))
    BY <2>3 DEF Has
  <2>5. \A d \in list[n] : IsSameProcess(d, p) => d.addr = p.addr
    BY DEF IsSameProcess
  <2>. QED  BY <1>3, <1>7, <2>2, <2>3, <2>4, <2>5 DEF Agree
<1>8. ASSUME NEW m \in net, Before, OnPing(m)
      PROVE  After
  <2>1. m.to \in Nodes /\ (n # m.to => list'[n] = list[n] /\ pool'[n] = pool[n])
    BY <1>1, <1>8, MessageIs DEF OnPing
  <2>2. CASE n = m.to
    BY <1>8, <2>2, OnPingPool
  <2>. QED  BY <1>4, <1>8, <2>1, <2>2
<1>9. ASSUME NEW m \in net, Before, OnJoin(m)
      PROVE  After
  <2>1. pool' = pool /\ m.to \in Nodes
    BY <1>1, <1>9, MessageIs DEF OnJoin
  <2>2. CASE list'[n] = list[n]
    BY <1>4, <1>9, <2>1, <2>2
  <2>3. CASE list'[n] # list[n]
    <3> DEFINE new == [addr |-> m.from, jt |-> Now, lut |-> Now, st |-> "Alive", own |-> FALSE]
    <3>1. list'[n] = list[n] \cup {new}
      BY <1>1, <1>9, <2>1, <2>3 DEF OnJoin
    <3>2. new.st = "Alive"
      OBVIOUS
    <3> HIDE DEF new
    <3>. QED  BY <1>9, <2>1, <3>1, <3>2 DEF Agree
  <2>. QED  BY <2>2, <2>3
<1>10. ASSUME Before, JoinFound(n) \/ JoinReply(n)
       PROVE  After
  <2>1. PICK t : Enter(n, t) /\ pool' = pool
    BY <1>10 DEF JoinFound, JoinReply
  <2> DEFINE own == [addr |-> n, jt |-> t, lut |-> t, st |-> "Alive", own |-> TRUE]
  <2>2. list'[n] = list[n] \cup {own}
    BY <1>1, <2>1 DEF Enter
  <2>3. own.st = "Alive"
    OBVIOUS
  <2> HIDE DEF own
  <2>. QED  BY <1>10, <2>1, <2>2, <2>3 DEF Agree
<1>11. CASE Crash(n)
  <2>1. pool'[n] = {} /\ list'[n] = {}
    BY <1>1, <1>11 DEF Crash
  <2>. QED  BY <2>1 DEF Agree
<1>12. ~Leave(n)
  BY <1>1 DEF Leave
<1>13. ASSUME NEW k \in Nodes, k # n,
              \/ Cron(k) \/ JoinFound(k) \/ JoinReply(k) \/ Leave(k) \/ Crash(k)
              \/ \E p \in pings[k] : OnAck(k, p) \/ OnFailure(k, p)
       PROVE  list'[n] = list[n] /\ pool'[n] = pool[n]
  BY <1>1, <1>13 DEF Cron, JoinFound, JoinReply, Enter, Leave, Crash, OnAck, OnFailure
<1>14. ASSUME \/ \E k \in Nodes : \/ JoinLookup(k) \/ JoinTimeout(k) \/ UpdateLeader(k)
                                  \/ DNSUpdate(k) \/ SendPings(k) \/ Restart(k)
              \/ DNSClear \/ UNCHANGED vars
       PROVE  list'[n] = list[n] /\ pool'[n] = pool[n]
  BY <1>14 DEF JoinLookup, JoinTimeout, UpdateLeader, DNSUpdate, SendPings, Restart, DNSClear,
       vars, nodeVars
<1>15. Before \/ Crash(n)
  <2> SUFFICES ASSUME self[n].st = "Leaved", ~Crash(n) PROVE FALSE
    OBVIOUS
  <2>1. ~JoinFound(n) /\ ~JoinReply(n) /\ ~Restart(n)
    BY <1>2 DEF JoinFound, JoinReply, Restart
  <2>2. ASSUME NEW k \in Nodes, k # n,
               JoinFound(k) \/ JoinReply(k) \/ Leave(k) \/ Crash(k) \/ Restart(k)
        PROVE  self'[n] = self[n]
    BY <1>1, <2>2 DEF JoinFound, JoinReply, Enter, Leave, Crash, Restart
  <2>3. ASSUME \/ \E k \in Nodes : \/ Cron(k) \/ JoinLookup(k) \/ JoinTimeout(k) \/ UpdateLeader(k)
                                   \/ DNSUpdate(k) \/ SendPings(k)
                                   \/ \E p \in pings[k] : OnAck(k, p) \/ OnFailure(k, p)
               \/ \E m \in net : OnPing(m) \/ OnJoin(m)
               \/ DNSClear \/ UNCHANGED vars
        PROVE  self'[n] = self[n]
    BY <2>3 DEF Cron, JoinLookup, JoinTimeout, UpdateLeader, DNSUpdate, SendPings, OnAck, OnFailure,
         OnPing, OnJoin, DNSClear, vars, nodeVars
  <2>. QED  BY <1>12, <2>1, <2>2, <2>3 DEF Next
<1> HIDE DEF Before, After
<1>16. ASSUME NEW k \in Nodes,
              \/ Cron(k) \/ JoinFound(k) \/ JoinReply(k) \/ Leave(k) \/ Crash(k)
              \/ \E p \in pings[k] : OnAck(k, p) \/ OnFailure(k, p)
       PROVE  After
  <2>1. CASE k = n /\ Before
    BY <1>5, <1>6, <1>7, <1>10, <1>11, <1>12, <1>16, <2>1 DEF After
  <2>2. CASE k # n /\ Before
    BY <1>4, <1>13, <1>16, <2>2 DEF After
  <2>. QED  BY <1>11, <1>15, <2>1, <2>2 DEF After
<1>17. After
  BY <1>4, <1>8, <1>9, <1>11, <1>14, <1>15, <1>16 DEF Next, After
<1>. QED  BY <1>17 DEF After

(* What PoolIsSuspects says of each address. *)
LEMMA PoolMeaning ==
  TypeOK => (PoolIsSuspects <=>
    (JoinedOnce => \A n, a \in Nodes : self[n].st # "Leaved" /\ a # n => Agree(pool[n], list[n], a)))
<1> SUFFICES ASSUME TypeOK
             PROVE  PoolIsSuspects <=> (JoinedOnce =>
                      \A n, a \in Nodes :
                        self[n].st # "Leaved" /\ a # n => Agree(pool[n], list[n], a))
  OBVIOUS
<1>1. ASSUME NEW n \in Nodes
      PROVE  /\ pool[n] \subseteq Nodes /\ Suspects(n) \subseteq Nodes
             /\ \A a : a \in Suspects(n) <=> \E e \in list[n] : e.addr = a /\ e.st # "Alive"
  <2>1. list[n] \subseteq Entry /\ pool[n] \subseteq Nodes
    BY DEF TypeOK
  <2>2. \A e \in list[n] : e.addr \in Nodes
    BY <2>1 DEF Entry
  <2>3. \A a : a \in Suspects(n) <=> \E e \in list[n] : e.addr = a /\ e.st # "Alive"
    BY DEF Suspects
  <2>. QED  BY <2>1, <2>2, <2>3
<1>2. ASSUME NEW n \in Nodes
      PROVE  pool[n] \ {n} = Suspects(n) \ {n}
               <=> \A a \in Nodes : a # n => Agree(pool[n], list[n], a)
  BY <1>1 DEF Agree
<1>. QED  BY <1>2 DEF PoolIsSuspects

(* The step for all processes and addresses at once. *)
LEMMA PoolsStep == TypeOK /\ RingInv /\ PoolIsSuspects /\ [Next]_vars => PoolIsSuspects'
<1> SUFFICES ASSUME TypeOK, RingInv, PoolIsSuspects, [Next]_vars
             PROVE  PoolIsSuspects'
  OBVIOUS
<1>1. TypeOK' /\ (PoolIsSuspects' <=> (JoinedOnce' =>
        \A n, a \in Nodes : self'[n].st # "Leaved" /\ a # n => Agree(pool'[n], list'[n], a)))
  <2>1. TypeOK'
    BY TypeStep
  <2>2. (TypeOK => (PoolIsSuspects <=> (JoinedOnce =>
          \A n, a \in Nodes : self[n].st # "Leaved" /\ a # n => Agree(pool[n], list[n], a))))'
    BY PoolMeaning, PTL
  <2>. QED  BY <2>1, <2>2 DEF Agree
<1>2. ASSUME JoinedOnce', NEW n \in Nodes, NEW a \in Nodes, self'[n].st # "Leaved", a # n
      PROVE  Agree(pool'[n], list'[n], a)
  <2>1. JoinedOnce /\ RecordsAgree /\ EntriesApart /\ Stages
    BY <1>2, OnceBefore DEF RingInv
  <2>2. self[n].st # "Leaved" => Agree(pool[n], list[n], a)
    BY <1>2, <2>1, PoolMeaning
  <2>. QED  BY <1>2, <2>1, <2>2, PoolStep
<1>. QED  BY <1>1, <1>2

(* While nobody joins twice, the expiration pool of a process that has not *)
(* left is the set of the other addresses its list suspects.               *)
THEOREM PoolFollowsList == Spec => []PoolIsSuspects
<1>1. Init => PoolIsSuspects
  BY DEF Init, PoolIsSuspects, Suspects
<1>. QED  BY <1>1, TypeCorrect, OneProcessPerAddress, PoolsStep, PTL DEF Spec
=============================================================================

--------------------------------- MODULE Ring ---------------------------------
(***************************************************************************)
(* The membership ring (ring/) and the DNS process (dns/) it registers its *)
(* leader with.                                                            *)
(*                                                                         *)
(* A process is known by its address and the time at which an introducer   *)
(* let it join; the address alone keys the expiration pool.  Times are     *)
(* readings of one clock that moves at every reading.  A process that has  *)
(* not joined has the zero JoinTime.  The list is a set: its order is that *)
(* of the join times, and sort.Sort is not stable, so two entries of the   *)
(* same process are in no order.                                           *)
(*                                                                         *)
(* The pings one Cron tick starts end before the next tick (PING_TIMEOUT   *)
(* is half of INTERVAL); the message of one that timed out may arrive much *)
(* later, or never.                                                        *)
(***************************************************************************)
EXTENDS Naturals, FiniteSets

CONSTANTS
  Nodes,             \* addresses
  Nobody,            \* the empty address
  Founders,          \* nodes that may call Join while the DNS knows nobody
  MAX_SUCCESSORS,    \* how many successors a tick pings
  MaxClock,          \* bound: readings of the clock
  MaxJoins,          \* bound: calls of Join at one address; with 1, none after a Leave
  Faults,            \* bound: the kinds of fault that happen
  MaxFaults          \* bound: how many faults happen, of all kinds

(* A crashed process may start again at any time: that is no further fault. *)
FaultKinds == {"crash", "leave", "late", "clear"}

ASSUME NobodyAssumption == Nobody \notin Nodes
ASSUME FoundersAssumption == Founders \subseteq Nodes
ASSUME RingBoundsAssumption ==
  /\ MAX_SUCCESSORS \in Nat /\ MaxClock \in Nat /\ MaxJoins \in Nat
  /\ Faults \subseteq FaultKinds /\ MaxFaults \in Nat

VARIABLES
  self,      \* self[n]: server.Process, and whether it is running
  list,      \* list[n]: MembershipList
  pool,      \* pool[n]: the addresses in ExpirationPool
  pings,     \* pings[n]: the pings of the last tick that have not ended
  join,      \* join[n]: the running call of Join, and how many there were
  notified,  \* nodes with UpdateLeader goroutines that have not looked yet
  decided,   \* nodes with UpdateLeader goroutines about to call the DNS
  net,       \* messages sent; read: handled even if the receiver has left since
  dns,       \* DNSFile
  clock,     \* the last reading of the clock
  faults     \* faults[k]: the faults of kind k so far

nodeVars == <<self, list, pool, pings, join, notified, decided>>
vars == <<nodeVars, net, dns, clock, faults>>

Status == {"Alive", "Timeout", "Leaved"}
Times == 0 .. MaxClock

(* A process as it is sent, and as it stands in a list: own is the entry   *)
(* that is server.Process itself, which only Join appends.                 *)
Process == [addr : Nodes, jt : Times, lut : Times, st : Status]
Entry == [addr : Nodes, jt : Times, lut : Times, st : Status, own : BOOLEAN]
Ping == [addr : Nodes, jt : Times, at : Times, stage : {"started", "sent", "acked"}]
PingMessage == [kind : {"ping"}, to : Nodes, from : Nodes, jt : Times, at : Times,
                procs : SUBSET Process, read : BOOLEAN]
JoinMessage == [kind : {"join"}, to : Nodes, from : Nodes, jt : Times, nr : Nat, read : BOOLEAN]

IsSameProcess(p, q) == p.addr = q.addr /\ p.jt = q.jt
Me(n) == [addr |-> n, jt |-> self[n].jt]
Sent(e) == [addr |-> e.addr, jt |-> e.jt, lut |-> e.lut, st |-> e.st]
Stamp(e, t, s) == [e EXCEPT !.lut = t, !.st = s]
AtStage(p, s) == [p EXCEPT !.stage = s]
Has(S, p) == \E e \in S : IsSameProcess(e, p)

NewRingServer == [up |-> TRUE, jt |-> 0, st |-> "Alive"]
NoJoin(k) == [stage |-> "idle", jt |-> 0, nr |-> k]

Init ==
  /\ self = [n \in Nodes |-> NewRingServer]
  /\ list = [n \in Nodes |-> {}]
  /\ pool = [n \in Nodes |-> {}]
  /\ pings = [n \in Nodes |-> {}]
  /\ join = [n \in Nodes |-> NoJoin(0)]
  /\ notified = {}
  /\ decided = {}
  /\ net = {}
  /\ dns = Nobody
  /\ clock = 0
  /\ faults = [k \in FaultKinds |-> 0]

Fault(k) ==
  /\ k \in Faults
  /\ faults["crash"] + faults["leave"] + faults["late"] + faults["clear"] < MaxFaults
  /\ faults' = [faults EXCEPT ![k] = @ + 1]

(* CurrentTimestamp() *)
Now == clock + 1
ReadClock == clock < MaxClock /\ clock' = Now

(* list[0] after sort.Sort: the process with the smallest join time. *)
IsFirst(n, p) == Has(list[n], p) /\ \A e \in list[n] : p.jt <= e.jt

(***************************************************************************)
(* Successors: walk the sorted list L from the process p itself, wrapping  *)
(* around, and stop at the first entry that is the process again.  A       *)
(* process that is not in its list starts at the head.                     *)
(***************************************************************************)
Successors(L, p) ==
  LET twins == {e \in L : IsSameProcess(e, p)}
      before(e) == IF twins = {} THEN {f \in L : f.jt < e.jt}
                   ELSE IF p.jt < e.jt THEN {f \in L : p.jt < f.jt /\ f.jt < e.jt}
                   ELSE {f \in L : p.jt < f.jt \/ f.jt < e.jt}
  IN  IF Cardinality(twins) > 1 THEN {}
      ELSE {e \in L \ twins : Cardinality(before(e)) < MAX_SUCCESSORS}

(***************************************************************************)
(* Cron: RecyclePool removes, for each expired address, the first entry    *)
(* with that address; an expired address without an entry stays in the     *)
(* pool.  Then the process stamps itself and starts a ping per successor.  *)
(* The ticks of a process that knows no other change nothing others see.   *)
(***************************************************************************)
FirstEntries(L, expired, gone) ==
  /\ \A e \in L : e.addr \in expired => \E f \in gone : f.addr = e.addr
  /\ \A e, f \in gone : e.addr = f.addr => e = f

Heartbeat(e) == IF e.own THEN Stamp(e, Now, e.st) ELSE e

Cron(n) ==
  /\ self[n].up
  /\ pings[n] = {}
  /\ \E e \in list[n] : ~e.own
  /\ ReadClock
  /\ \E expired \in SUBSET pool[n] : \E gone \in SUBSET {e \in list[n] : e.addr \in expired} :
       LET kept == {Heartbeat(e) : e \in list[n] \ gone}
       IN  /\ FirstEntries(list[n], expired, gone)
           /\ list' = [list EXCEPT ![n] = kept]
           /\ pool' = [pool EXCEPT ![n] = @ \ {e.addr : e \in gone}]
           /\ notified' = IF gone = {} THEN notified ELSE notified \cup {n}
           /\ pings' = [pings EXCEPT ![n] =
                {[addr |-> e.addr, jt |-> e.jt, at |-> Now, stage |-> "started"] :
                   e \in Successors(kept, Me(n))}]
  /\ UNCHANGED <<self, join, decided, net, dns, faults>>

(* The ping goroutines of a tick marshal the whole list under the lock and *)
(* send it; nothing happens between the first of them and the last.        *)
SendPings(n) ==
  LET started == {p \in pings[n] : p.stage = "started"}
  IN  /\ self[n].up
      /\ started # {}
      /\ pings' = [pings EXCEPT ![n] = {AtStage(p, "sent") : p \in @}]
      /\ net' = net \cup {[kind |-> "ping", to |-> p.addr, from |-> n, jt |-> p.jt, at |-> p.at,
                           procs |-> {Sent(e) : e \in list[n]}, read |-> FALSE] : p \in started}
      /\ UNCHANGED <<self, list, pool, join, notified, decided, dns, clock, faults>>

(* Listen starts the handler of a message unless the process has left; a   *)
(* handler that was started before the process left runs to its end.       *)
Started(m) == [m EXCEPT !.read = TRUE]
Handles(m) == self[m.to].up /\ (m.read \/ self[m.to].st # "Leaved")

(***************************************************************************)
(* OnPing.  An unknown process is inserted if it is alive; a known one     *)
(* takes the time and the status of the message when that is strictly      *)
(* newer.  When two processes of one address are updated in the same ping, *)
(* the order of the list decides what becomes of the pool's entry.         *)
(***************************************************************************)
News(n, procs) ==
  {p \in procs : /\ ~IsSameProcess(p, Me(n))
                 /\ \A q \in procs : IsSameProcess(p, q) => q.lut <= p.lut}
Newer(news, e) == {p \in news : IsSameProcess(p, e) /\ p.lut > e.lut}
InsertedWhateverStatus(n, news) == {p \in news : ~Has(list[n], p)}
Inserted(n, news) == {p \in news : p.st = "Alive" /\ ~Has(list[n], p)}
Refreshed(n, news) == {e \in list[n] : Newer(news, e) # {}}
Refresh(news, e) ==
  LET p == CHOOSE q \in Newer(news, e) : TRUE
  IN  Stamp(e, p.lut, p.st)
NewEntry(p) == [addr |-> p.addr, jt |-> p.jt, lut |-> p.lut, st |-> p.st, own |-> FALSE]

OnPing(m) ==
  LET n == m.to
      news == News(n, m.procs)
      old == Refreshed(n, news)
      now == {Refresh(news, e) : e \in old}
      new == Inserted(n, news)
      revived == {e.addr : e \in {f \in now : f.st = "Alive"}}
      suspected == {e.addr : e \in {f \in now : f.st # "Alive"}}
  IN  /\ m.kind = "ping"
      /\ Handles(m)
      /\ list' = [list EXCEPT ![n] = (@ \ old) \cup now \cup {NewEntry(p) : p \in new}]
      /\ \E last \in SUBSET (revived \cap suspected) :
           pool' = [pool EXCEPT ![n] = (@ \ revived) \cup (suspected \ revived) \cup last]
      /\ notified' = IF new = {} THEN notified ELSE notified \cup {n}
      /\ net' = net \ {m}
      /\ pings' = [pings EXCEPT ![m.from] =
           {IF p.addr = n /\ p.jt = m.jt /\ p.at = m.at THEN AtStage(p, "acked") ELSE p :
              p \in @}]
      /\ UNCHANGED <<self, join, decided, dns, clock, faults>>

OnAckRevives(n, p) ==
  /\ self[n].up
  /\ p.stage = "acked"
  /\ ReadClock
  /\ list' = [list EXCEPT ![n] =
       {IF IsSameProcess(e, p) THEN Stamp(e, Now, "Alive") ELSE e : e \in @}]
  /\ pings' = [pings EXCEPT ![n] = @ \ {p}]
  /\ UNCHANGED <<self, pool, join, notified, decided, net, dns, faults>>

(* The ack of a ping arrives: OnAck stamps the entry and keeps its status. *)
OnAck(n, p) ==
  /\ self[n].up
  /\ p.stage = "acked"
  /\ ReadClock
  /\ list' = [list EXCEPT ![n] = {IF IsSameProcess(e, p) THEN Stamp(e, Now, e.st) ELSE e : e \in @}]
  /\ pings' = [pings EXCEPT ![n] = @ \ {p}]
  /\ UNCHANGED <<self, pool, join, notified, decided, net, dns, faults>>

Answers(a) == self[a].up /\ self[a].st # "Leaved"

(* No ack in time: OnFailure.  It is a fault when the process could answer.  *)
(* A ping of a process that still waits for the reply to its Join was sent   *)
(* after that reply and has the same READ_TIMEOUT, so it does not end first. *)
OnFailure(n, p) ==
  /\ self[n].up
  /\ p.stage \in {"sent", "acked"}
  /\ ~(join[p.addr].stage = "replied" /\ join[p.addr].jt = p.jt)
  /\ IF Answers(p.addr) THEN Fault("late") ELSE UNCHANGED faults
  /\ ReadClock
  /\ list' = [list EXCEPT ![n] =
       {IF IsSameProcess(e, p) THEN Stamp(e, Now, "Timeout") ELSE e : e \in @}]
  /\ pool' = [pool EXCEPT ![n] = IF Has(list[n], p) THEN @ \cup {p.addr} ELSE @]
  /\ pings' = [pings EXCEPT ![n] = @ \ {p}]
  /\ UNCHANGED <<self, join, notified, decided, net, dns>>

(***************************************************************************)
(* Join: look the introducer up, in the own list if there is one and in    *)
(* the DNS otherwise; found a ring if there is none, else ask it and wait. *)
(***************************************************************************)
LookupLeader(n) ==
  IF list[n] = {} THEN {dns} ELSE {e.addr : e \in {f \in list[n] : IsFirst(n, f)}}

MayJoin(n) == join[n].nr < MaxJoins /\ (self[n].st = "Leaved" => MaxJoins > 1)

JoinLookup(n) ==
  /\ self[n].up
  /\ join[n].stage = "idle" /\ MayJoin(n)
  /\ ~Has(list[n], Me(n))
  /\ \E leader \in LookupLeader(n) :
       IF leader = Nobody
         THEN /\ n \in Founders
              /\ join' = [join EXCEPT ![n] = [stage |-> "found", jt |-> 0, nr |-> @.nr + 1]]
              /\ UNCHANGED net
         ELSE /\ join' = [join EXCEPT ![n] = [stage |-> "asked", jt |-> 0, nr |-> @.nr + 1]]
              /\ net' = net \cup {[kind |-> "join", to |-> leader, from |-> n, jt |-> self[n].jt,
                                   nr |-> join[n].nr + 1, read |-> FALSE]}
  /\ UNCHANGED <<self, list, pool, pings, notified, decided, dns, clock, faults>>

(* server.Process becomes the process of join time t, and is appended. *)
Enter(n, t) ==
  /\ self' = [self EXCEPT ![n] = [up |-> TRUE, jt |-> t, st |-> "Alive"]]
  /\ list' = [list EXCEPT ![n] =
       @ \cup {[addr |-> n, jt |-> t, lut |-> t, st |-> "Alive", own |-> TRUE]}]
  /\ join' = [join EXCEPT ![n] = NoJoin(@.nr)]

JoinFound(n) ==
  /\ join[n].stage = "found"
  /\ ReadClock
  /\ Enter(n, Now)
  /\ notified' = notified \cup {n}
  /\ UNCHANGED <<pool, pings, decided, net, dns, faults>>

(* The introducer stamps the process, replies, and appends it. *)
OnJoin(m) ==
  LET n == m.to
      p == [addr |-> m.from, jt |-> m.jt]
  IN  /\ m.kind = "join"
      /\ Handles(m)
      /\ net' = net \ {m}
      /\ \/ /\ Has(list[n], p)
            /\ UNCHANGED <<list, join, notified, clock>>
         \/ /\ ~Has(list[n], p)
            /\ ReadClock
            /\ list' = [list EXCEPT ![n] =
                 @ \cup {[addr |-> m.from, jt |-> Now, lut |-> Now, st |-> "Alive", own |-> FALSE]}]
            /\ notified' = notified \cup {n}
            /\ join' = [join EXCEPT ![m.from] =
                 IF @.stage = "asked" /\ @.nr = m.nr
                   THEN [stage |-> "replied", jt |-> Now, nr |-> m.nr] ELSE @]
      /\ UNCHANGED <<self, pool, pings, decided, dns, faults>>

JoinReplyNotifies(n) ==
  /\ join[n].stage = "replied"
  /\ Enter(n, join[n].jt)
  /\ notified' = notified \cup {n}
  /\ UNCHANGED <<pool, pings, decided, net, dns, clock, faults>>

(* Only OnMemberUpdate is called: a new member does not look for the leader. *)
JoinReply(n) ==
  /\ join[n].stage = "replied"
  /\ Enter(n, join[n].jt)
  /\ UNCHANGED <<pool, pings, notified, decided, net, dns, clock, faults>>

(* No reply in time: Join returns an error.  It is a fault when the reply  *)
(* was sent, or the introducer can still handle the request.               *)
JoinAnswered(n) ==
  \/ join[n].stage = "replied"
  \/ \E m \in net : m.kind = "join" /\ m.from = n /\ m.nr = join[n].nr /\ Handles(m)

JoinTimeout(n) ==
  /\ join[n].stage \in {"asked", "replied"}
  /\ IF JoinAnswered(n) THEN Fault("late") ELSE UNCHANGED faults
  /\ join' = [join EXCEPT ![n] = NoJoin(@.nr)]
  /\ UNCHANGED <<self, list, pool, pings, notified, decided, net, dns, clock>>

(* Leave empties the list and tells nobody; the pool is kept.  Handlers of *)
(* some messages have been started by then.                                *)
Leave(n) ==
  /\ self[n].up /\ Has(list[n], Me(n))
  /\ join[n].stage = "idle"
  /\ Fault("leave")
  /\ self' = [self EXCEPT ![n] = [up |-> TRUE, jt |-> @.jt, st |-> "Leaved"]]
  /\ list' = [list EXCEPT ![n] = {}]
  /\ \E started \in SUBSET {m \in net : m.to = n} :
       net' = (net \ started) \cup {Started(m) : m \in started}
  /\ UNCHANGED <<pool, pings, join, notified, decided, dns, clock>>

(* UpdateLeader decides under the lock and calls the DNS without it.  The  *)
(* goroutines are not counted: there may be another after each.            *)
UpdateLeader(n) ==
  /\ n \in notified
  /\ notified' \in {notified, notified \ {n}}
  /\ decided' = IF IsFirst(n, Me(n)) THEN decided \cup {n} ELSE decided
  /\ UNCHANGED <<self, list, pool, pings, join, net, dns, clock, faults>>

DNSUpdateProcess(n) ==
  /\ n \in decided
  /\ decided' \in {decided, decided \ {n}}
  /\ dns' = Me(n)
  /\ UNCHANGED <<self, list, pool, pings, join, notified, net, clock, faults>>

DNSUpdate(n) ==
  /\ n \in decided
  /\ decided' \in {decided, decided \ {n}}
  /\ dns' = n
  /\ UNCHANGED <<self, list, pool, pings, join, notified, net, clock, faults>>

(* The operator's command at the DNS process. *)
DNSClear ==
  /\ dns # Nobody
  /\ Fault("clear")
  /\ dns' = Nobody
  /\ UNCHANGED <<nodeVars, net, clock>>

Crash(n) ==
  /\ self[n].up /\ (list[n] # {} \/ join[n].stage # "idle")
  /\ Fault("crash")
  /\ self' = [self EXCEPT ![n] = [up |-> FALSE, jt |-> 0, st |-> "Alive"]]
  /\ list' = [list EXCEPT ![n] = {}]
  /\ pool' = [pool EXCEPT ![n] = {}]
  /\ pings' = [pings EXCEPT ![n] = {}]
  /\ join' = [join EXCEPT ![n] = NoJoin(@.nr)]
  /\ notified' = notified \ {n}
  /\ decided' = decided \ {n}
  /\ net' = {m \in net : ~(m.read /\ m.to = n)}
  /\ UNCHANGED <<dns, clock>>

Restart(n) ==
  /\ ~self[n].up
  /\ self' = [self EXCEPT ![n] = NewRingServer]
  /\ UNCHANGED <<list, pool, pings, join, notified, decided, net, dns, clock, faults>>

Next ==
  \/ \E n \in Nodes :
       \/ Cron(n) \/ JoinLookup(n) \/ JoinFound(n) \/ JoinReply(n) \/ JoinTimeout(n)
       \/ Leave(n) \/ UpdateLeader(n) \/ DNSUpdate(n) \/ Crash(n) \/ Restart(n)
       \/ SendPings(n)
       \/ \E p \in pings[n] : OnAck(n, p) \/ OnFailure(n, p)
  \/ \E m \in net : OnPing(m) \/ OnJoin(m)
  \/ DNSClear

Spec == Init /\ [][Next]_vars
-----------------------------------------------------------------------------
TypeOK ==
  /\ self \in [Nodes -> [up : BOOLEAN, jt : Times, st : Status]]
  /\ list \in [Nodes -> SUBSET Entry]
  /\ pool \in [Nodes -> SUBSET Nodes]
  /\ pings \in [Nodes -> SUBSET Ping]
  /\ join \in [Nodes -> [stage : {"idle", "found", "asked", "replied"}, jt : Times, nr : Nat]]
  /\ notified \subseteq Nodes /\ decided \subseteq Nodes
  /\ net \subseteq PingMessage \cup JoinMessage
  /\ dns \in Nodes \cup {Nobody}
  /\ clock \in Times /\ faults \in [FaultKinds -> Nat]

(* What is said of a process: in the lists and in the pings on their way. *)
Records ==
  (UNION {list[n] : n \in Nodes}) \cup (UNION {m.procs : m \in {k \in net : k.kind = "ping"}})

Member(n) == self[n].up /\ self[n].jt > 0 /\ self[n].st = "Alive"

(***************************************************************************)
(* While nobody joins twice, the expiration pool of a process that has not *)
(* left holds exactly the other addresses that it suspects: none is        *)
(* forgotten (it would stay in the list for ever), and no address waits    *)
(* for an entry that is not there (SDFS serves and converges only while    *)
(* the pool is empty).  The pool and the list are updated by OnPing,       *)
(* OnFailure and RecyclePool, each its own way.  It is not so for the      *)
(* process's own address, which may be in its list twice (join_race): the  *)
(* recycling of one entry leaves the other suspected and in no pool.       *)
(***************************************************************************)
JoinedOnce == \A a \in Nodes : join[a].nr <= 1
Suspects(n) == {e.addr : e \in {f \in list[n] : f.st # "Alive"}}
PoolIsSuspects ==
  JoinedOnce => \A n \in Nodes : self[n].st # "Leaved" => pool[n] \ {n} = Suspects(n) \ {n}

(***************************************************************************)
(* Why it holds.  Every record of a process, in a list or on its way, is   *)
(* of the one process its address ever had: there is none before the join  *)
(* time is given out, and nobody suspects a process whose Join still waits *)
(* for the reply.  So a list has one entry per address, but for the own.   *)
(***************************************************************************)
JoinRequests(a) == {m \in net : m.kind = "join" /\ m.from = a}
Unborn(a) == join[a].nr = 0 \/ join[a].stage = "found" \/ JoinRequests(a) # {}

RequestsOnce ==
  \A a \in Nodes :
    /\ \A l, m \in JoinRequests(a) : l = m
    /\ join[a].nr = 0 => join[a].stage = "idle"
    /\ join[a].nr = 0 \/ join[a].stage = "found" => JoinRequests(a) = {}
    /\ join[a].stage = "replied" => ~Unborn(a)
RecordsAgree ==
  /\ \A e, f \in Records : e.addr = f.addr => e.jt = f.jt
  /\ \A e \in Records : ~Unborn(e.addr)
  /\ \A e \in Records : join[e.addr].stage = "replied" => e.jt = join[e.addr].jt /\ e.st = "Alive"
EntriesApart ==
  \A n \in Nodes :
    /\ \A e \in list[n] : e.own => e.addr = n /\ e.jt = self[n].jt
    /\ \A e, f \in list[n] : e.addr = f.addr /\ e.own = f.own /\ ~e.own => e = f
    /\ \A e, f \in list[n] : e.addr = f.addr => e.st = f.st
MessagesApart ==
  \A m \in net : m.kind = "ping" => \A p, q \in m.procs : p.addr = q.addr => p.st = q.st
Stages ==
  \A n \in Nodes :
    /\ self[n].st = "Leaved" => join[n].nr > 0 /\ join[n].stage = "idle"
    /\ ~self[n].up => self[n].jt = 0 /\ self[n].st = "Alive"

RingInv ==
  JoinedOnce => RequestsOnce /\ RecordsAgree /\ EntriesApart /\ MessagesApart /\ Stages

(***************************************************************************)
(* Once no list and no message has a dead process alive, none ever has it  *)
(* alive again: suspicions, gossip and the acks that a restarted process   *)
(* sends for its dead predecessor at the same address revive nobody.       *)
(***************************************************************************)
Dead(a, t) ==
  /\ t <= clock
  /\ ~(self[a].up /\ self[a].jt = t)
  /\ ~(join[a].stage = "replied" /\ join[a].jt = t)
SaidAlive == {<<r.addr, r.jt>> : r \in {q \in Records : q.st = "Alive"}}
DeadStaysDead == [][\A p \in SaidAlive' \ SaidAlive : ~Dead(p[1], p[2])]_vars

(***************************************************************************)
(* The comment on UpdateLeader: only the process with the earliest join    *)
(* time elects itself.  It holds between the decision and the call of the  *)
(* DNS if one process founded the ring, at most one crashed, none left,    *)
(* restarted or called Join twice, and no answer was late.                 *)
(***************************************************************************)
Calm ==
  /\ JoinedOnce
  /\ faults["leave"] = 0 /\ faults["late"] = 0 /\ faults["crash"] <= 1
  /\ faults["crash"] = 1 => \E n \in Nodes : ~self[n].up
LeaderIsEarliest ==
  Calm => \A n, m \in Nodes : n \in decided /\ Member(n) /\ Member(m) => self[n].jt <= self[m].jt

(***************************************************************************)
(* Why it holds with one founder.  While the founder is up it is the only  *)
(* introducer, so its list has everybody who was born, and a list that     *)
(* names a process names all who were born before it.  Once it is down     *)
(* that is still so of the eldest, which is all an election needs; whoever *)
(* is elected is the eldest, and introduces everybody who is born later.   *)
(* A process is born when its join time is given out, which may be long    *)
(* before it learns of it.                                                 *)
(***************************************************************************)
OneFounder == \A a, b \in Founders : a = b
BornAt(n) == IF join[n].stage = "replied" THEN join[n].jt ELSE self[n].jt
Born(n) == self[n].up /\ BornAt(n) > 0
Eldest(b) == Born(b) /\ \A c \in Nodes : Born(c) => BornAt(b) <= BornAt(c)
Senior(b) == Born(b) /\ ((\A f \in Founders : self[f].up) \/ Eldest(b))
Knows(S, a) == \E r \in S : r.addr = a
Complete(S) ==
  \A a, b \in Nodes :
    self[a].up /\ Knows(S, a) /\ Senior(b) /\ BornAt(b) < BornAt(a) => Knows(S, b)
Leads(n) ==
  /\ self[n].jt > 0 /\ Eldest(n)
  /\ \A b \in Nodes : Senior(b) => Knows(list[n], b)

OneDown ==
  /\ faults["crash"] = 0 => \A n \in Nodes : self[n].up
  /\ \A a, b \in Nodes : ~self[a].up /\ ~self[b].up => a = b
  /\ \A n \in Nodes : self[n].st = "Alive"
Births ==
  /\ \A n \in Nodes :
       /\ join[n].stage # "idle" => self[n].up /\ self[n].jt = 0
       /\ join[n].stage = "found" => n \in Founders
       /\ join[n].stage = "replied" => join[n].jt > 0
       /\ self[n].jt > 0 => \E e \in list[n] : e.own
       /\ BornAt(n) <= clock
  /\ \A a, b \in Nodes : Born(a) /\ BornAt(a) = BornAt(b) => a = b
  /\ \A m \in net : m.kind = "join" /\ self[m.from].up /\ self[m.to].up =>
       join[m.from].stage = "asked" /\ join[m.from].nr = m.nr
RecordsTrue ==
  \A r \in Records : self[r.addr].up =>
    r.jt = BornAt(r.addr) /\ Born(r.addr) /\ r.st = "Alive"
PoolsDown == \A n, a \in Nodes : a \in pool[n] => ~self[a].up
Informed(n) == n \in notified \/ \E e \in list[n] : ~e.own
Gossip ==
  /\ \A n \in Nodes : list[n] # {} => self[n].up /\ Knows(list[n], n)
  /\ \A n \in Nodes : Informed(n) => list[n] # {} /\ Complete(list[n])
  /\ \A n \in Nodes : \A p \in pings[n] : p.stage = "started" /\ self[p.addr].up =>
       \E e \in list[n] : e.addr = p.addr /\ ~e.own
  /\ \A m \in net : m.kind = "ping" /\ self[m.to].up =>
       Knows(m.procs, m.to) /\ Complete(m.procs)
Introducer(n) ==
  \/ n \in decided \/ dns = n \/ (n \in Founders /\ self[n].jt > 0)
  \/ \E m \in net : m.kind = "join" /\ m.to = n
Leaders ==
  /\ \A n \in Nodes : self[n].up /\ Introducer(n) => Leads(n)
  /\ (\A f \in Founders : self[f].up) =>
       \A n \in Nodes : Born(n) => \E f \in Founders : self[f].jt > 0

LeaderInv ==
  OneFounder /\ Calm => OneDown /\ Births /\ RecordsTrue /\ PoolsDown /\ Gossip /\ Leaders

(***************************************************************************)
(* The comment on Cron: it pings the next successors in the ring.  A       *)
(* member of a ring no larger than MAX_SUCCESSORS + 1 pings every other    *)
(* process it knows.                                                       *)
(***************************************************************************)
PingsEveryOther ==
  \A n \in Nodes : Member(n) /\ Cardinality(list[n]) <= MAX_SUCCESSORS + 1 =>
    Successors(list[n], Me(n)) = {e \in list[n] : ~IsSameProcess(e, Me(n))}
=============================================================================

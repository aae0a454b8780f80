--------------------------------- MODULE SDFS ---------------------------------
(***************************************************************************)
(* SDFS: the servers that hold the versions of files (sdfs/server.go,      *)
(* service.go, file_table.go) and the clients that read and write them     *)
(* with quorums (sdfs/client*.go).                                         *)
(*                                                                         *)
(* The membership list and the expiration pool of a server belong to the   *)
(* ring, module Ring; here they change one server at a time, and every     *)
(* change starts a goroutine that will push a signal.  The content of a    *)
(* version is its sequence number: no two Puts have the same.  A request   *)
(* may be handled long after the client stopped waiting for it.            *)
(***************************************************************************)
EXTENDS HashRing

CONSTANTS
  Founding,             \* the servers of the ring at the beginning
  JoinTime,             \* JoinTime[s]: the order in which servers join
  Clients,              \* servers whose command line is used
  Commands,             \* bound: Commands[i] are the types the i-th command may have
  REPLICA_COUNT, READ_CONSISTENCY, WRITE_CONSISTENCY,
  MaxChanges,           \* bound: servers that join or crash
  MaxErrors             \* bound: failed disk writes and requests, and reads of half a hash ring

Types == {"PUT", "GET", "DELETE", "LIST"}
Min2(a, b) == IF a < b THEN a ELSE b

ASSUME JoinTimeAssumption ==
  /\ Founding \subseteq Servers /\ Founding # {} /\ Clients \subseteq Servers
  /\ JoinTime \in [Servers -> Nat]
  /\ \A s, t \in Servers : JoinTime[s] = JoinTime[t] => s = t
ASSUME NewcomersAssumption ==
  \A s \in Founding, t \in Servers \ Founding : JoinTime[s] < JoinTime[t]
ASSUME ConsistencyAssumption ==
  /\ REPLICA_COUNT \in Nat \ {0} /\ READ_CONSISTENCY \in Nat /\ WRITE_CONSISTENCY \in Nat
  /\ READ_CONSISTENCY + WRITE_CONSISTENCY > REPLICA_COUNT
  /\ READ_CONSISTENCY <= REPLICA_COUNT /\ WRITE_CONSISTENCY <= REPLICA_COUNT
ASSUME SDFSBoundsAssumption ==
  /\ Commands \in Seq(SUBSET Types) /\ MaxChanges \in Nat /\ MaxErrors \in Nat

VARIABLES
  up,        \* the servers that run
  members,   \* members[s]: Ring.MembershipList
  suspects,  \* suspects[s]: Ring.ExpirationPool
  callbacks, \* callbacks[s]: OnMemberUpdate goroutines that have not run
  signal,    \* servers whose Signal queue is not empty
  hashRing,  \* hashRing[s]: HashRing
  counter,   \* counter[s]: SeqCounter
  table,     \* table[s][f]: the versions in FileTable
  disk,      \* disk[s]: the versions in files on the disk
  storing,   \* Write handlers between the file table and the disk
  trash,     \* trash[s]: DeletePool
  transfers, \* transfers[s]: what Converge has still to send
  converging,\* servers in the middle of Converge
  ops,       \* the commands given so far
  changes,   \* membership changes so far
  errors     \* failed disk writes and requests, and reads of half a hash ring so far

ringVars == <<up, members, suspects, callbacks>>
serverVars == <<signal, hashRing, counter, table, disk, storing, trash, transfers, converging>>
vars == <<ringVars, serverVars, ops, changes, errors>>

Seqs == [time : Nat, count : Nat]
NoSeq == [time |-> 0, count |-> 0]
Less(a, b) == a.time < b.time \/ (a.time = b.time /\ a.count < b.count)
Version == [seq : Seqs, id : Nat]
Stored == [file : Files, seq : Seqs]
Op == [type : Types, file : Files, client : Servers,
       stage : {"fetched", "waiting", "ok", "failed", "notfound"},
       seq : Seqs, asked : SUBSET Servers, acks : SUBSET [from : Servers, seq : Seqs],
       need : Nat, before : SUBSET Nat, whole : BOOLEAN, done : 0 .. MaxChanges]
Job == [to : Servers, files : SUBSET Files, items : SUBSET [file : Files, seq : Seqs, id : Nat],
        looked : BOOLEAN]

(* The membership list in the order of the join times.  The code may also  *)
(* place the list as it was appended to: that is the same hash ring unless *)
(* two keys collide, which no instance has.                                *)
Sorted(S) == InOrder(S, JoinTime)

(* HashRing.Refresh(MembershipList), which changes nothing while the list is the same. *)
RingOf(hr, S) == IF {hr[i].proc : i \in DOMAIN hr} = S THEN hr ELSE Refresh(Sorted(S))

Init ==
  /\ up = Founding
  /\ members = [s \in Servers |-> IF s \in Founding THEN Founding ELSE {}]
  /\ suspects = [s \in Servers |-> {}]
  /\ callbacks = [s \in Servers |-> 0]
  /\ signal = {}
  /\ hashRing = [s \in Servers |-> Refresh(Sorted(members[s]))]
  /\ counter = [s \in Servers |-> 0]
  /\ table = [s \in Servers |-> [f \in Files |-> {}]]
  /\ disk = [s \in Servers |-> {}]
  /\ storing = {}
  /\ trash = [s \in Servers |-> {}]
  /\ transfers = [s \in Servers |-> {}]
  /\ converging = {}
  /\ ops = <<>>
  /\ changes = 0
  /\ errors = 0

HasFile(s, f) == table[s][f] # {}
Stable(s) == s \notin signal /\ suspects[s] = {}
-----------------------------------------------------------------------------
(* What the ring does to a server. *)

LookupLeader(c) == CHOOSE s \in members[c] : \A t \in members[c] : JoinTime[s] <= JoinTime[t]

Notified(S) == callbacks' = [s \in Servers |-> callbacks[s] + IF s \in S THEN 1 ELSE 0]

(* The introducer i, its own leader, inserts the newcomer, which then knows itself only. *)
Join(s, i) ==
  /\ s \notin up /\ members[s] = {}
  /\ i \in up /\ i = LookupLeader(i)
  /\ changes < MaxChanges /\ changes' = changes + 1
  /\ up' = up \cup {s}
  /\ members' = [members EXCEPT ![s] = {s}, ![i] = @ \cup {s}]
  /\ Notified({s, i})
  /\ UNCHANGED <<suspects, serverVars, ops, errors>>

(* s hears of t in a ping. *)
Insert(s, t) ==
  /\ s \in up /\ t \in up \ members[s]
  /\ \E u \in up \ {s} : {s, t} \subseteq members[u]
  /\ members' = [members EXCEPT ![s] = @ \cup {t}]
  /\ Notified({s})
  /\ UNCHANGED <<up, suspects, serverVars, ops, changes, errors>>

(* The process and its goroutines are gone; the disk keeps the files. *)
Crash(s) ==
  /\ s \in up
  /\ changes < MaxChanges /\ changes' = changes + 1
  /\ up' = up \ {s}
  /\ members' = [members EXCEPT ![s] = {s}]
  /\ suspects' = [suspects EXCEPT ![s] = {}]
  /\ callbacks' = [callbacks EXCEPT ![s] = 0]
  /\ signal' = signal \ {s}
  /\ hashRing' = [hashRing EXCEPT ![s] = <<>>]
  /\ table' = [table EXCEPT ![s] = [f \in Files |-> {}]]
  /\ storing' = {w \in storing : w.at # s}
  /\ trash' = [trash EXCEPT ![s] = {}]
  /\ transfers' = [transfers EXCEPT ![s] = {}]
  /\ converging' = converging \ {s}
  /\ UNCHANGED <<counter, disk, ops, errors>>

Suspect(s, t) ==
  /\ s \in up /\ t \in members[s] \ (up \cup suspects[s])
  /\ suspects' = [suspects EXCEPT ![s] = @ \cup {t}]
  /\ UNCHANGED <<up, members, callbacks, serverVars, ops, changes, errors>>

Expire(s, t) ==
  /\ s \in up /\ t \in suspects[s]
  /\ suspects' = [suspects EXCEPT ![s] = @ \ {t}]
  /\ members' = [members EXCEPT ![s] = @ \ {t}]
  /\ Notified({s})
  /\ UNCHANGED <<up, serverVars, ops, changes, errors>>

(* The goroutine pushes the signal. *)
OnMemberUpdate(s) ==
  /\ s \in up /\ callbacks[s] > 0
  /\ callbacks' = [callbacks EXCEPT ![s] = @ - 1]
  /\ signal' = signal \cup {s}
  /\ UNCHANGED <<up, members, suspects, hashRing, counter, table, disk, storing, trash, transfers,
                 converging, ops, changes, errors>>
-----------------------------------------------------------------------------
(***************************************************************************)
(* The clients.  A command fetches a sequence number from the leader, over *)
(* and over while the leader has not converged, then sends a request to    *)
(* each replica of the client's own hash ring and waits for enough answers *)
(* or a timeout.                                                           *)
(***************************************************************************)
Finished(o) == ops[o].stage \in {"ok", "failed", "notfound"}

(* The handler at the leader, under its lock, once it is Stable. *)
CountOnly(leader) == [time |-> 0, count |-> counter[leader] + 1]
NextSequence(leader) == [time |-> JoinTime[leader], count |-> counter[leader] + 1]

FetchSequence(c, type, f) ==
  LET leader == LookupLeader(c)
  IN  /\ Len(ops) < Len(Commands) /\ type \in Commands[Len(ops) + 1]
      /\ c \in up /\ leader \in up
      /\ \A o \in DOMAIN ops : ops[o].client = c => Finished(o)
      /\ Stable(leader)
      /\ counter' = [counter EXCEPT ![leader] = @ + 1]
      /\ ops' = Append(ops, [type |-> type, file |-> f, client |-> c, stage |-> "fetched",
                             seq |-> NextSequence(leader), asked |-> {}, acks |-> {}, need |-> 0,
                             before |-> {o \in DOMAIN ops : ops[o].stage = "ok"},
                             whole |-> TRUE, done |-> 0])
      /\ UNCHANGED <<ringVars, signal, hashRing, table, disk, storing, trash, transfers, converging,
                     changes, errors>>

(* The commands.  Each executes its task until the leader gives it a number. *)
Put(c, f) == FetchSequence(c, "PUT", f)
Get(c, f) == FetchSequence(c, "GET", f)
DeleteFile(c, f) == FetchSequence(c, "DELETE", f)
List(c, f) == FetchSequence(c, "LIST", f)

LevelOfOneRead(type) ==
  CASE type = "GET" -> 1
    [] type = "PUT" -> WRITE_CONSISTENCY
    [] OTHER -> REPLICA_COUNT
Level(type) ==
  CASE type = "GET" -> READ_CONSISTENCY
    [] type = "PUT" -> WRITE_CONSISTENCY
    [] OTHER -> REPLICA_COUNT
GetConsistencyLevel(type, hr) == Min2(Level(type), Len(hr))

(***************************************************************************)
(* ExecuteTask finds the replicas, then the number of answers it waits for *)
(* (with none to wait for there is no result to handle: an error).  It     *)
(* reads the hash ring without the lock.  While Recycle or Converge        *)
(* rebuilds it, it may find only the processes that have been placed       *)
(* again, unsorted, and later some more of them.                           *)
(***************************************************************************)
Routed(op, hr, sized) ==
  LET need == GetConsistencyLevel(op.type, sized)
  IN  [op EXCEPT !.stage = IF need = 0 THEN "failed" ELSE "waiting", !.need = need,
                 !.asked = FindReplicas(hr, op.file, REPLICA_COUNT)]

RouteTask(o) ==
  LET c == ops[o].client
      placed(k) == SubSeq(Place(Sorted(members[c])), 1, k)
  IN  /\ ops[o].stage = "fetched"
      /\ c \in up
      /\ \/ /\ ops' = [ops EXCEPT ![o] = Routed(@, hashRing[c], hashRing[c])]
            /\ UNCHANGED errors
         \/ /\ suspects[c] = {} /\ c \notin converging
            /\ errors < MaxErrors /\ errors' = errors + 1
            /\ \E k \in 0 .. Cardinality(members[c]) - 1 : \E more \in k .. Cardinality(members[c]) :
                 ops' = [ops EXCEPT ![o] = [Routed(@, placed(k), placed(more)) EXCEPT !.whole = FALSE]]
      /\ UNCHANGED <<ringVars, serverVars, changes>>

(***************************************************************************)
(* HandleTaskResults: a Get keeps the newest of the sequence numbers       *)
(* answered.  The requests of a Get or a List that nobody waits for any    *)
(* more change nothing, and are forgotten; those of a Put or Delete stay.  *)
(***************************************************************************)
NewestAnswer(acks) == CHOOSE a \in acks : \A b \in acks : ~Less(a.seq, b.seq)
Newest(acks) == (CHOOSE a \in acks : \A b \in acks : ~Less(a.seq, b.seq)).seq
Reads == {"GET", "LIST"}
Finish(op, stage) ==
  [op EXCEPT !.stage = stage, !.acks = {}, !.need = 0, !.done = changes,
             !.asked = IF op.type \in Reads THEN {} ELSE @,
             !.seq = IF op.type = "GET" /\ stage = "ok" THEN Newest(op.acks) ELSE @]

(* The answer of s to a command, which is over once there are enough. *)
Acknowledged(op, s, seq) ==
  LET heard == [op EXCEPT !.acks = @ \cup {[from |-> s, seq |-> seq]}]
  IN  IF op.stage # "waiting" \/ op.client \notin up THEN op
      ELSE IF Cardinality(heard.acks) >= op.need THEN Finish(heard, "ok") ELSE heard
Asked(o, s) == s \in up /\ s \in ops[o].asked
Handled(op, s) == [op EXCEPT !.asked = @ \ {s}]

(* The call fails before the server handles it, and is not repeated: an    *)
(* error of the network, unless the server is down.                        *)
RequestFails(o, s) ==
  /\ s \in ops[o].asked
  /\ IF s \in up THEN errors < MaxErrors /\ errors' = errors + 1 ELSE UNCHANGED errors
  /\ ops' = [ops EXCEPT ![o] = Handled(@, s)]
  /\ UNCHANGED <<ringVars, serverVars, changes>>

Timeout(o) ==
  /\ ops[o].stage = "waiting" /\ ops[o].client \in up
  /\ ops' = [ops EXCEPT ![o] = Finish(@, IF @.type \in Reads THEN "notfound" ELSE "failed")]
  /\ UNCHANGED <<ringVars, serverVars, changes, errors>>
-----------------------------------------------------------------------------
(* The handlers of a server. *)

Insertable(s, f, v) == \A w \in table[s][f] : w.id # v.id /\ w.seq # v.seq

Write(o, s) ==
  LET f == ops[o].file
      v == [seq |-> ops[o].seq, id |-> o]
  IN  /\ ops[o].type = "PUT" /\ Asked(o, s)
      /\ IF Insertable(s, f, v)
           THEN /\ table' = [table EXCEPT ![s][f] = @ \cup {v}]
                /\ storing' = storing \cup {[at |-> s, file |-> f, seq |-> v.seq, op |-> o,
                                            by |-> ops[o].client]}
                /\ ops' = [ops EXCEPT ![o] = Handled(@, s)]
           ELSE /\ ops' = [ops EXCEPT ![o] = Acknowledged(Handled(@, s), s, v.seq)]
                /\ UNCHANGED <<table, storing>>
      /\ UNCHANGED <<ringVars, signal, hashRing, counter, disk, trash, transfers, converging,
                     changes, errors>>

(* Write stores the file without the lock, and answers. *)
WriteSDFSFile(w) ==
  /\ w.at \in up
  /\ storing' = storing \ {w}
  /\ disk' = [disk EXCEPT ![w.at] = @ \cup {[file |-> w.file, seq |-> w.seq]}]
  /\ ops' = IF w.op = 0 THEN ops ELSE [ops EXCEPT ![w.op] = Acknowledged(@, w.at, w.seq)]
  /\ UNCHANGED <<ringVars, signal, hashRing, counter, table, trash, transfers, converging, changes,
                 errors>>

(* The error is answered; the version stays in the file table. *)
WriteFails(w) ==
  /\ w.at \in up
  /\ errors < MaxErrors /\ errors' = errors + 1
  /\ storing' = storing \ {w}
  /\ UNCHANGED <<ringVars, signal, hashRing, counter, table, disk, trash, transfers, converging, ops,
                 changes>>

(* The latest version, from the cache or else from the disk. *)
Latest(s, f) == CHOOSE v \in table[s][f] : \A w \in table[s][f] : ~Less(v.seq, w.seq)

Read(o, s) ==
  LET f == ops[o].file
      v == Latest(s, f)
      found == HasFile(s, f) /\ [file |-> f, seq |-> v.seq] \in disk[s]
  IN  /\ ops[o].type = "GET" /\ Asked(o, s)
      /\ \/ /\ HasFile(s, f)
            /\ ops' = [ops EXCEPT ![o] = Acknowledged(Handled(@, s), s, v.seq)]
         \/ /\ ~found
            /\ ops' = [ops EXCEPT ![o] = Handled(@, s)]
      /\ UNCHANGED <<ringVars, serverVars, changes, errors>>

(* The ConcatNames of the versions of some files. *)
Names(s, F) == UNION {{[file |-> f, seq |-> v.seq] : v \in table[s][f]} : f \in F}

DiscardLater(s, f) ==
  /\ trash' = [trash EXCEPT ![s] = @ \cup Names(s, {f})]
  /\ UNCHANGED table
Discard(s, f) ==
  /\ trash' = [trash EXCEPT ![s] = @ \cup Names(s, {f})]
  /\ table' = [table EXCEPT ![s][f] = {}]

Delete(o, s) ==
  /\ ops[o].type = "DELETE" /\ Asked(o, s)
  /\ Discard(s, ops[o].file)
  /\ ops' = [ops EXCEPT ![o] = Acknowledged(Handled(@, s), s, NoSeq)]
  /\ UNCHANGED <<ringVars, signal, hashRing, counter, disk, storing, transfers, converging, changes,
                 errors>>

Lookup(o, s) ==
  /\ ops[o].type = "LIST" /\ Asked(o, s)
  /\ ops' = [ops EXCEPT ![o] =
       IF HasFile(s, ops[o].file) THEN Acknowledged(Handled(@, s), s, NoSeq) ELSE Handled(@, s)]
  /\ UNCHANGED <<ringVars, serverVars, changes, errors>>
-----------------------------------------------------------------------------
(***************************************************************************)
(* Cron: Recycle and Converge in turn.  Here either may be next: a Recycle *)
(* that has nothing to do changes nothing.  It deletes one file that is in *)
(* the delete pool, then drops the files it is no replica of.              *)
(***************************************************************************)
NotRoutedHere(s, hr) == {f \in Files : HasFile(s, f) /\ ~RoutesTo(hr, f, s)}
NoReplicaOf(s, hr) == {f \in Files : HasFile(s, f) /\ s \notin FindReplicas(hr, f, REPLICA_COUNT)}

Recycle(s) ==
  LET hr == RingOf(hashRing[s], members[s])
      dropped == IF Stable(s) THEN NoReplicaOf(s, hr) ELSE {}
  IN  /\ s \in up \ converging
      /\ hashRing' = IF Stable(s) THEN [hashRing EXCEPT ![s] = hr] ELSE hashRing
      /\ \E deleted \in SUBSET trash[s] :
           /\ Cardinality(deleted) = Min2(1, Cardinality(trash[s]))
           /\ disk' = [disk EXCEPT ![s] = @ \ deleted]
           /\ trash' = [trash EXCEPT ![s] = (@ \ deleted) \cup Names(s, dropped)]
      /\ table' = [table EXCEPT ![s] = [f \in Files |-> IF f \in dropped THEN {} ELSE @[f]]]
      /\ UNCHANGED <<ringVars, signal, counter, storing, transfers, converging, ops, changes, errors>>

(***************************************************************************)
(* Converge: the files that were routed to this server and now are to its  *)
(* predecessor go there, the files routed to this server go to its next    *)
(* REPLICA_COUNT - 1 successors.  A transfer of no file has no effect.     *)
(***************************************************************************)
MainFiles(s, hr) == {f \in Files : HasFile(s, f) /\ RoutesTo(hr, f, s)}
TransferJob(t, F) == [to |-> t, files |-> F, items |-> {}, looked |-> FALSE]

Converge(s) ==
  LET hr == RingOf(hashRing[s], members[s])
      prev == MainFiles(s, hashRing[s])
      curr == MainFiles(s, hr)
  IN  /\ s \in (up \cap signal) \ converging
      /\ members[s] # {} /\ suspects[s] = {}
      /\ hashRing' = [hashRing EXCEPT ![s] = hr]
      /\ transfers' = [transfers EXCEPT ![s] =
           {j \in {TransferJob(p, {f \in prev : RoutesTo(hr, f, p)}) : p \in FindPredecessor(hr, s)}
                    \cup {TransferJob(t, curr) : t \in FindSuccessors(hr, s, REPLICA_COUNT - 1)} :
              j.files # {}}]
      /\ converging' = converging \cup {s}
      /\ UNCHANGED <<ringVars, signal, counter, table, disk, storing, trash, ops, changes, errors>>

(* TransferFiles asks which of the files the other server has none of. *)
BulkLookup(s, j) ==
  /\ s \in up /\ ~j.looked
  /\ transfers' = [transfers EXCEPT ![s] = (@ \ {j}) \cup
       IF j.to \in up
         THEN {[j EXCEPT !.files = {f \in @ : ~HasFile(j.to, f)}, !.looked = TRUE]}
         ELSE {}]
  /\ UNCHANGED <<ringVars, signal, hashRing, counter, table, disk, storing, trash, converging, ops,
                 changes, errors>>

(* It goes through the files it was told are missing one after the other,  *)
(* and through the versions that each has by then.                         *)
GetVersions(s, j, f) ==
  /\ s \in up /\ j.looked /\ j.items = {} /\ f \in j.files
  /\ transfers' = [transfers EXCEPT ![s] = (@ \ {j}) \cup
       {[j EXCEPT !.files = @ \ {f},
                  !.items = {[file |-> f, seq |-> v.seq, id |-> v.id] : v \in table[s][f]}]}]
  /\ UNCHANGED <<ringVars, signal, hashRing, counter, table, disk, storing, trash, converging, ops,
                 changes, errors>>

(* One version is read from the disk and written to the other server; one  *)
(* that cannot be is given up.                                             *)
TransferFile(s, j, i) ==
  LET v == [seq |-> i.seq, id |-> i.id]
      sent == [file |-> i.file, seq |-> i.seq] \in disk[s] /\ j.to \in up /\ Insertable(j.to, i.file, v)
  IN  /\ s \in up /\ i \in j.items
      /\ transfers' = [transfers EXCEPT ![s] = (@ \ {j}) \cup {[j EXCEPT !.items = @ \ {i}]}]
      /\ table' = IF sent THEN [table EXCEPT ![j.to][i.file] = @ \cup {v}] ELSE table
      /\ storing' = IF sent
           THEN storing \cup {[at |-> j.to, file |-> i.file, seq |-> i.seq, op |-> 0, by |-> s]}
           ELSE storing
      /\ UNCHANGED <<ringVars, signal, hashRing, counter, disk, trash, converging, ops, changes, errors>>

(* Signal.Clear(): of the signals that came during the transfers, too. *)
Converged(s) ==
  /\ s \in up \cap converging
  /\ \A j \in transfers[s] : j.looked /\ j.files = {} /\ j.items = {}
  /\ \A w \in storing : ~(w.op = 0 /\ w.by = s)
  /\ signal' = signal \ {s}
  /\ transfers' = [transfers EXCEPT ![s] = {}]
  /\ converging' = converging \ {s}
  /\ UNCHANGED <<ringVars, hashRing, counter, table, disk, storing, trash, ops, changes, errors>>
-----------------------------------------------------------------------------
Next ==
  \/ \E s \in Servers : Crash(s) \/ OnMemberUpdate(s) \/ Recycle(s) \/ Converge(s) \/ Converged(s)
  \/ \E s, t \in Servers : Join(s, t) \/ Insert(s, t) \/ Suspect(s, t) \/ Expire(s, t)
  \/ \E c \in Clients, f \in Files : Put(c, f) \/ Get(c, f) \/ DeleteFile(c, f) \/ List(c, f)
  \/ \E o \in DOMAIN ops :
       \/ RouteTask(o) \/ Timeout(o)
       \/ \E s \in Servers : \/ RequestFails(o, s) \/ Write(o, s) \/ Read(o, s)
                            \/ Delete(o, s) \/ Lookup(o, s)
  \/ \E w \in storing : WriteSDFSFile(w) \/ WriteFails(w)
  \/ \E s \in Servers : \E j \in transfers[s] :
       \/ BulkLookup(s, j)
       \/ \E f \in j.files : GetVersions(s, j, f)
       \/ \E i \in j.items : TransferFile(s, j, i)

Spec == Init /\ [][Next]_vars
-----------------------------------------------------------------------------
TypeOK ==
  /\ up \subseteq Servers /\ callbacks \in [Servers -> Nat] /\ signal \subseteq Servers
  /\ converging \subseteq Servers
  /\ members \in [Servers -> SUBSET Servers] /\ suspects \in [Servers -> SUBSET Servers]
  /\ hashRing \in [Servers -> Seq([key : Nat, proc : Servers])] /\ counter \in [Servers -> Nat]
  /\ table \in [Servers -> [Files -> SUBSET Version]]
  /\ disk \in [Servers -> SUBSET Stored] /\ trash \in [Servers -> SUBSET Stored]
  /\ transfers \in [Servers -> SUBSET Job]
  /\ storing \subseteq [at : Servers, file : Files, seq : Seqs, op : Nat, by : Servers]
  /\ ops \in Seq(Op)
  /\ changes \in 0 .. MaxChanges /\ errors \in 0 .. MaxErrors

Succeeded(o, type) == ops[o].type = type /\ ops[o].stage = "ok"
SameFile(o, p) == ops[o].file = ops[p].file

(***************************************************************************)
(* A Get returns a version at least as new as that of every Put that had   *)
(* succeeded before it began, if there was no Delete of the file: enough   *)
(* replicas answer for one of them to have it.  It holds while membership  *)
(* does not change, if both commands saw a whole hash ring.                *)
(***************************************************************************)
GetSeesEarlierPuts ==
  changes = 0 =>
    \A g, p \in DOMAIN ops :
      /\ Succeeded(g, "GET") /\ Succeeded(p, "PUT") /\ SameFile(g, p) /\ p \in ops[g].before
      /\ ops[g].whole /\ ops[p].whole
      /\ \A d \in DOMAIN ops : ops[d].type = "DELETE" => ~SameFile(d, p)
      => ~Less(ops[g].seq, ops[p].seq)

(***************************************************************************)
(* A Delete that succeeded is final: no later Get succeeds if the file had *)
(* one Put, which had succeeded before the Delete began, although some     *)
(* replicas may handle their part of that Put only afterwards: they are    *)
(* too few for a Get.  (The replicas that are late with one of two Puts    *)
(* may together be enough.)                                                *)
(***************************************************************************)
OnlyPut(p) ==
  ops[p].type = "PUT" /\ \A q \in DOMAIN ops : ops[q].type = "PUT" /\ SameFile(q, p) => q = p
DeletedStaysDeleted ==
  changes = 0 =>
    \A g, d, p \in DOMAIN ops :
      /\ ops[g].type = "GET" /\ ops[d].type = "DELETE" /\ OnlyPut(p)
      /\ SameFile(g, d) /\ SameFile(d, p)
      /\ d \in ops[g].before /\ p \in ops[d].before
      /\ ops[g].whole /\ ops[d].whole /\ ops[p].whole
      => ops[g].stage # "ok"

(***************************************************************************)
(* Why the two hold.  While membership does not change, every whole hash   *)
(* ring is the same, and a server answers a command once.  The replicas    *)
(* that answered a Put that succeeded are a write quorum: they keep the    *)
(* version, and have nothing of that Put left to handle.  Once a Get or a  *)
(* Delete has begun, what it hears from that quorum is fixed.              *)
(***************************************************************************)
FoundingRing == Refresh(Sorted(Founding))
Replicas(f) == FindReplicas(FoundingRing, f, REPLICA_COUNT)
WriteQuorums(f) ==
  {Q \in SUBSET Replicas(f) : Cardinality(Q) >= Min2(WRITE_CONSISTENCY, Len(FoundingRing))}

Settled ==
  /\ up = Founding /\ signal = {} /\ converging = {}
  /\ \A s \in Servers : suspects[s] = {} /\ callbacks[s] = 0 /\ transfers[s] = {}
  /\ \A s \in Founding : members[s] = Founding /\ hashRing[s] = FoundingRing

(* The answers to a command. *)
Answered(op) ==
  /\ op.stage = "fetched" => op.asked = {}
  /\ op.stage # "waiting" => op.acks = {}
  /\ \A a, b \in op.acks : a.from = b.from => a = b
  /\ \A a \in op.acks : a.from \notin op.asked
  /\ \A a \in op.acks : op.type = "PUT" => a.seq = op.seq
  /\ op.whole => op.asked \subseteq Replicas(op.file) /\ \A a \in op.acks : a.from \in Replicas(op.file)
  /\ op.whole /\ op.stage = "waiting" => op.need = Min2(Level(op.type), Len(FoundingRing)) /\ op.need > 0
Commanded ==
  \A o \in DOMAIN ops :
    Answered(ops[o]) /\ \A p \in ops[o].before : p \in DOMAIN ops /\ ops[p].stage = "ok"

(* What is in the file tables, or on its way to the disk, is of Puts. *)
Written ==
  /\ \A s \in Servers, f \in Files : \A v \in table[s][f] :
       v.id \in DOMAIN ops /\ ops[v.id].type = "PUT" /\ ops[v.id].file = f /\ ops[v.id].seq = v.seq
  /\ \A w \in storing :
       /\ w.op \in DOMAIN ops /\ ops[w.op].type = "PUT"
       /\ ops[w.op].file = w.file /\ ops[w.op].seq = w.seq
       /\ ops[w.op].stage # "fetched" /\ w.at \notin ops[w.op].asked
       /\ ops[w.op].whole => w.at \in Replicas(w.file)

Holds(s, p) == \E v \in table[s][ops[p].file] : v.seq = ops[p].seq
WholePut(p) == ops[p].type = "PUT" /\ ops[p].whole
Undeleted(p) == \A d \in DOMAIN ops : ops[d].type = "DELETE" => ~SameFile(d, p)

PutsHeld ==
  \A p \in DOMAIN ops : WholePut(p) =>
    /\ Undeleted(p) => /\ \A a \in ops[p].acks : Holds(a.from, p)
                       /\ \A w \in storing : w.op = p => Holds(w.at, p)
    /\ ops[p].stage = "ok" =>
         \E Q \in WriteQuorums(ops[p].file) :
           \A s \in Q : s \notin ops[p].asked /\ (Undeleted(p) => Holds(s, p))

GetsHear ==
  \A g, p \in DOMAIN ops :
    /\ ops[g].type = "GET" /\ ops[g].whole
    /\ WholePut(p) /\ Undeleted(p) /\ SameFile(g, p) /\ p \in ops[g].before
    => \E Q \in WriteQuorums(ops[p].file) :
         /\ \A s \in Q : Holds(s, p)
         /\ \A a \in ops[g].acks : a.from \in Q => ~Less(a.seq, ops[p].seq)

DeletedPut(d, p) ==
  /\ ops[d].type = "DELETE" /\ ops[d].whole /\ SameFile(d, p) /\ p \in ops[d].before
  /\ WholePut(p) /\ OnlyPut(p)
DeletesEmpty ==
  \A d, p \in DOMAIN ops : DeletedPut(d, p) =>
    \E Q \in WriteQuorums(ops[p].file) : \A s \in Q :
      /\ s \notin ops[p].asked
      /\ ops[d].stage = "ok" \/ (\E a \in ops[d].acks : a.from = s) => table[s][ops[p].file] = {}
GetsMiss ==
  \A g, d, p \in DOMAIN ops :
    /\ ops[g].type = "GET" /\ ops[g].whole /\ SameFile(g, d) /\ d \in ops[g].before
    /\ DeletedPut(d, p)
    => /\ ops[g].stage # "ok"
       /\ \E Q \in WriteQuorums(ops[p].file) : \A s \in Q :
            s \notin ops[p].asked /\ table[s][ops[p].file] = {} /\ \A a \in ops[g].acks : a.from # s

(***************************************************************************)
(* Puts have different sequence numbers, and a server handles a Put once:  *)
(* it never answers that it has the version already, while the disk does   *)
(* not.  A replica drops no file that is not deleted, so the quorum of a   *)
(* Put that succeeded keeps the version on its disks, too.                 *)
(***************************************************************************)
Numbered ==
  /\ \A o, p \in DOMAIN ops :
       ops[o].type = "PUT" /\ ops[p].type = "PUT" /\ ops[o].seq = ops[p].seq => o = p
  /\ \A o \in DOMAIN ops, s \in Servers :
       ops[o].type = "PUT" /\ ops[o].seq.time = JoinTime[s] => ops[o].seq.count <= counter[s]
  /\ \A s \in Servers, f \in Files : \A v \in table[s][f] :
       ops[v.id].stage # "fetched" /\ s \notin ops[v.id].asked

OnDisk(s, p) == [file |-> ops[p].file, seq |-> ops[p].seq] \in disk[s]
Kept(f) == \A d \in DOMAIN ops : ops[d].type = "DELETE" => ops[d].file # f

NotInTrash == \A f \in Files : Kept(f) => \A s \in Replicas(f) : \A x \in trash[s] : x.file # f
PutsStored ==
  \A p \in DOMAIN ops : WholePut(p) /\ Undeleted(p) =>
    /\ \A a \in ops[p].acks : OnDisk(a.from, p)
    /\ ops[p].stage = "ok" =>
         \E Q \in WriteQuorums(ops[p].file) : Q # {} /\ \A s \in Q : Holds(s, p) /\ OnDisk(s, p)

QuorumInv ==
  changes = 0 => /\ Settled /\ Commanded /\ Written /\ Numbered
                 /\ PutsHeld /\ GetsHear /\ DeletesEmpty /\ GetsMiss
                 /\ NotInTrash /\ PutsStored

(***************************************************************************)
(* A version whose Put succeeded is on the disk and in the file table of   *)
(* some running server, until its file is deleted: one crash, or one       *)
(* newcomer that makes old replicas drop the file, does not lose it.       *)
(***************************************************************************)
Durable ==
  \A p \in DOMAIN ops :
    /\ Succeeded(p, "PUT") /\ ops[p].whole
    /\ \A d \in DOMAIN ops : ops[d].type = "DELETE" => ~SameFile(d, p)
    => \E s \in up :
         LET x == [file |-> ops[p].file, seq |-> ops[p].seq]
         IN  x \in disk[s] /\ \E v \in table[s][x.file] : v.seq = x.seq

(***************************************************************************)
(* A Put that began after another had succeeded gets a larger sequence     *)
(* number, so that its version is the latest, although the number comes    *)
(* from another leader if that of the first crashed in between.  It holds  *)
(* of commands at founding members: a newcomer knows only itself at first, *)
(* and numbers its own commands by its own, later join time.               *)
(***************************************************************************)
LaterPutIsNewer ==
  \A o \in DOMAIN ops : \A p \in ops[o].before :
    /\ ops[o].type = "PUT" /\ ops[p].type = "PUT"
    /\ {ops[o].client, ops[p].client} \subseteq Founding
    => Less(ops[p].seq, ops[o].seq)

(***************************************************************************)
(* Why it holds.  No founding member that runs is ever missing from the    *)
(* list of another, so no founding member got a number from a leader that  *)
(* is younger than one of those that still run.                            *)
(***************************************************************************)
Elders == up \cap Founding
PutOfFounder(o) == ops[o].type = "PUT" /\ ops[o].client \in Founding
NumberInv ==
  /\ \A s \in Founding : s \in members[s]
  /\ \A s \in Elders : Elders \subseteq members[s]
  /\ \A s \in Servers : suspects[s] \cap Elders = {}
  /\ \A o \in DOMAIN ops : ops[o].before \subseteq DOMAIN ops
  /\ \A o \in DOMAIN ops, s \in Elders : PutOfFounder(o) =>
       \/ ops[o].seq.time < JoinTime[s]
       \/ ops[o].seq.time = JoinTime[s] /\ ops[o].seq.count <= counter[s]

(***************************************************************************)
(* What Converge is for: once all servers know each other, their signals   *)
(* are cleared and no request is left, a version whose Put succeeded       *)
(* before the membership changed is at every replica of its file, if the   *)
(* Put had to be answered by all replicas.  The comment in Converge says   *)
(* what it takes: to refresh the hash ring after looking at the files of   *)
(* the old one.  The code does not keep it.                                *)
(***************************************************************************)
Quiet ==
  /\ \A s \in up : members[s] = up /\ Stable(s) /\ callbacks[s] = 0 /\ s \notin converging
  /\ storing = {} /\ \A o \in DOMAIN ops : ops[o].asked = {}
ReplicatedOnceConverged ==
  Quiet =>
    \A p \in DOMAIN ops :
      /\ Succeeded(p, "PUT") /\ ops[p].done = 0 /\ ops[p].whole
      /\ \A d \in DOMAIN ops : ops[d].type = "DELETE" => ~SameFile(d, p)
      => \A s \in FindReplicas(Refresh(Sorted(up)), ops[p].file, REPLICA_COUNT) :
           \E v \in table[s][ops[p].file] : v.seq = ops[p].seq
=============================================================================

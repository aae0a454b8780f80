----------------------------- MODULE QuorumProofs -----------------------------
(***************************************************************************)
(* Proofs about the quorums of SDFS: while membership does not change, a   *)
(* Get sees the Puts before it, what was deleted stays so, and what a Put  *)
(* stored is not lost, for every number of servers, files and commands and *)
(* for all read and write quorums that overlap.  QuorumInv of SDFS is the  *)
(* inductive invariant.  And whatever membership does, a later Put has the *)
(* larger number; NumberInv is the inductive invariant of that.            *)
(***************************************************************************)
EXTENDS SDFSProofs

-----------------------------------------------------------------------------
(* Quorums *)

(* The servers that some answers are from are as many as the answers, if   *)
(* no server answers twice.                                                *)
LEMMA Senders ==
  ASSUME NEW acks \in SUBSET [from : Servers, seq : Seqs], IsFiniteSet(acks),
         \A a, b \in acks : a.from = b.from => a = b
  PROVE  LET F == {a.from : a \in acks}
         IN  IsFiniteSet(F) /\ Cardinality(acks) <= Cardinality(F)
<1> DEFINE F == {a.from : a \in acks}
           h == [a \in acks |-> a.from]
<1>1. IsFiniteSet(F)
  <2>1. F \in SUBSET Servers
    OBVIOUS
  <2> HIDE DEF F
  <2>. QED  BY <2>1, HashAssumption, FS_Subset
<1>2. h \in Injection(acks, F)
  BY DEF Injection, IsInjective
<1> HIDE DEF F, h
<1>3. IsFiniteSet(F) /\ Cardinality(acks) <= Cardinality(F)
  BY <1>1, <1>2, FS_Injection
<1>. QED  BY <1>3 DEF F

(* The replicas of a file in the hash ring of the founding members. *)
LEMMA FoundingReplicas ==
  ASSUME NEW f \in Files
  PROVE  /\ FoundingRing \in Seq(Node) /\ Len(FoundingRing) \in Nat
         /\ Replicas(f) \in SUBSET Servers /\ IsFiniteSet(Replicas(f))
         /\ Cardinality(Replicas(f)) \in Nat
         /\ Cardinality(Replicas(f)) <= Min2(REPLICA_COUNT, Len(FoundingRing))
<1>1. FoundingRing \in Seq(Node)
  <2>1. Founding \in SUBSET Servers /\ <<>> \in Seq(Node)
    BY JoinTimeAssumption
  <2>. QED  BY <2>1, RingOfIs DEF FoundingRing
<1>2. Len(FoundingRing) \in Nat /\ REPLICA_COUNT \in Nat
  BY <1>1, ConsistencyAssumption
<1>3. /\ Replicas(f) \in SUBSET Servers /\ IsFiniteSet(Replicas(f))
      /\ Cardinality(Replicas(f)) <=
           IF Len(FoundingRing) < REPLICA_COUNT THEN Len(FoundingRing) ELSE REPLICA_COUNT
  BY <1>1, <1>2, ReplicasAre DEF Replicas
<1>4. Cardinality(Replicas(f)) \in Nat
  BY <1>3, FS_CardinalityType
<1>. QED  BY <1>1, <1>2, <1>3, <1>4 DEF Min2

(* They are founding members. *)
LEMMA ReplicasFounding ==
  ASSUME NEW f \in Files
  PROVE  Replicas(f) \subseteq Founding
<1> DEFINE P == Sorted(Founding)
<1>1. P \in Seq(Servers) /\ Len(P) \in Nat /\ \A i \in 1 .. Len(P) : P[i] \in Founding
  BY JoinTimeAssumption, SortedIs
<1>2. FoundingRing = Refresh(P)
  BY DEF FoundingRing
<1> HIDE DEF P
<1>3. /\ FoundingRing \in Seq(Node) /\ Len(FoundingRing) = Len(P)
      /\ \A i \in 1 .. Len(P) : \E k \in 1 .. Len(P) : FoundingRing[i].proc = P[k]
  BY <1>1, <1>2, RefreshIs
<1>4. \A i \in 1 .. Len(FoundingRing) : FoundingRing[i].proc \in Founding
  BY <1>1, <1>3
<1>5. \A r \in Replicas(f) : \E i \in 1 .. Len(FoundingRing) : r = FoundingRing[i].proc
  BY <1>3, ConsistencyAssumption, ReplicasAre DEF Replicas
<1>. QED  BY <1>4, <1>5

(* A read quorum and a write quorum of a file have a replica in common. *)
LEMMA QuorumsMeet ==
  ASSUME NEW f \in Files, NEW Q \in WriteQuorums(f), NEW F \in SUBSET Replicas(f),
         Cardinality(F) >= Min2(READ_CONSISTENCY, Len(FoundingRing)),
         Min2(READ_CONSISTENCY, Len(FoundingRing)) > 0
  PROVE  \E s \in Q : s \in F
<1> DEFINE n == Len(FoundingRing)
<1>1. /\ n \in Nat /\ IsFiniteSet(Replicas(f)) /\ Cardinality(Replicas(f)) \in Nat
      /\ Cardinality(Replicas(f)) <= Min2(REPLICA_COUNT, n)
  BY FoundingReplicas
<1>2. Q \in SUBSET Replicas(f) /\ Cardinality(Q) >= Min2(WRITE_CONSISTENCY, n)
  BY DEF WriteQuorums
<1>3. Cardinality(Q) \in Nat /\ Cardinality(F) \in Nat
  BY <1>1, <1>2, FS_Subset, FS_CardinalityType
<1>4. Cardinality(F) >= Min2(READ_CONSISTENCY, n) /\ Min2(READ_CONSISTENCY, n) > 0
  OBVIOUS
<1> HIDE DEF n
<1>5. Cardinality(F) + Cardinality(Q) > Cardinality(Replicas(f))
  BY <1>1, <1>2, <1>3, <1>4, ConsistencyAssumption DEF Min2
<1>6. F \cap Q # {}
  BY <1>1, <1>2, <1>5, FS_MajoritiesIntersect
<1>. QED  BY <1>6

(* As many answers as a Delete waits for are from all replicas. *)
LEMMA EveryReplica ==
  ASSUME NEW f \in Files, NEW F \in SUBSET Replicas(f),
         Cardinality(F) >= Min2(REPLICA_COUNT, Len(FoundingRing))
  PROVE  F = Replicas(f)
<1>1. /\ IsFiniteSet(Replicas(f)) /\ Cardinality(Replicas(f)) \in Nat
      /\ Cardinality(Replicas(f)) <= Min2(REPLICA_COUNT, Len(FoundingRing))
      /\ Min2(REPLICA_COUNT, Len(FoundingRing)) \in Nat
  BY FoundingReplicas, ConsistencyAssumption DEF Min2
<1>2. /\ Cardinality(F) \in Nat /\ Cardinality(F) <= Cardinality(Replicas(f))
      /\ Cardinality(F) = Cardinality(Replicas(f)) => F = Replicas(f)
  BY <1>1, FS_Subset, FS_CardinalityType
<1>. QED  BY <1>1, <1>2

-----------------------------------------------------------------------------
(***************************************************************************)
(* What a step does while membership does not change, as far as the        *)
(* invariant tells.                                                        *)
(***************************************************************************)

(* A command x goes on as y. *)
Continues(x, y) ==
  /\ y.type = x.type /\ y.file = x.file /\ y.before = x.before /\ (y.whole => x.whole)
  /\ x.stage = "ok" => y.stage = "ok"
  /\ x.type # "GET" \/ x.stage = "ok" => y.seq = x.seq
  /\ x.stage # "fetched" => y.asked \subseteq x.asked /\ y.stage # "fetched"

(* After the step, s has the version of the Put o on its disk. *)
Persisted(s, o) == [file |-> ops[o].file, seq |-> ops[o].seq] \in disk'[s]

(* The step is the answer a to the command o. *)
Answer(o, a) ==
  /\ ops[o].stage = "waiting" /\ a \in [from : Servers, seq : Seqs]
  /\ \A b \in ops[o].acks : b.from = a.from => b = a
  /\ a.from \notin ops'[o].asked
  /\ ops[o].whole => a.from \in Replicas(ops[o].file)
  /\ WholePut(o) /\ Undeleted(o) => Holds(a.from, o)
  /\ ops[o].type = "GET" => /\ table[a.from][ops[o].file] # {}
                            /\ \A v \in table[a.from][ops[o].file] : ~Less(a.seq, v.seq)
  /\ ops[o].type = "DELETE" => table'[a.from][ops[o].file] = {}
  /\ ops[o].type = "PUT" => Persisted(a.from, o)

(* It is no answer to o, or one more, or the last one that o needs. *)
Hears(o) ==
  \/ ops'[o].acks \subseteq ops[o].acks /\ (ops'[o].stage = "ok" => ops[o].stage = "ok")
  \/ \E a : Answer(o, a) /\ ops'[o].stage = "waiting" /\ ops'[o].acks = ops[o].acks \cup {a}
  \/ \E a : /\ Answer(o, a) /\ ops'[o].stage = "ok" /\ ops'[o].acks = {}
            /\ Cardinality(ops[o].acks \cup {a}) >= ops[o].need
            /\ ops[o].type = "GET" => ops'[o].seq = Newest(ops[o].acks \cup {a})

(* The step begins the command o. *)
Begins(o) ==
  /\ DOMAIN ops' = DOMAIN ops \cup {o}
  /\ ops'[o].stage = "fetched" /\ ops'[o].asked = {} /\ ops'[o].acks = {}
  /\ ops'[o].before = {q \in DOMAIN ops : ops[q].stage = "ok"}
  /\ \E l \in Servers : /\ ops'[o].seq = [time |-> JoinTime[l], count |-> counter[l] + 1]
                        /\ counter'[l] = counter[l] + 1

(* v is a version that s gets from a Put. *)
Arrives(v, s, f) ==
  /\ v.id \in DOMAIN ops /\ ops[v.id].type = "PUT" /\ ops[v.id].file = f /\ ops[v.id].seq = v.seq
  /\ s \in ops[v.id].asked /\ s \notin ops'[v.id].asked /\ ops[v.id].stage # "fetched"

(* w is a Write handler that the step starts. *)
Starts(w) ==
  /\ w.op \in DOMAIN ops /\ ops[w.op].type = "PUT"
  /\ ops[w.op].file = w.file /\ ops[w.op].seq = w.seq
  /\ ops[w.op].stage # "fetched" /\ w.at \notin ops'[w.op].asked
  /\ ops[w.op].whole => w.at \in Replicas(w.file)
  /\ \E v \in table'[w.at][w.file] : v.seq = w.seq

(* s keeps what it has of the file f, in its file table and on its disk,   *)
(* and puts none of it into the trash.                                     *)
Keeps(s, f) ==
  /\ table[s][f] \subseteq table'[s][f]
  /\ \A x \in disk[s] : x.file = f => x \in disk'[s]
  /\ \A x \in trash'[s] : x.file = f => x \in trash[s]

Onward ==
  /\ DOMAIN ops \subseteq DOMAIN ops'
  /\ \A o \in DOMAIN ops : Continues(ops[o], ops'[o]) /\ Answered(ops'[o]) /\ Hears(o)
  /\ \A o \in DOMAIN ops' : o \in DOMAIN ops \/ Begins(o)
  /\ \A s \in Servers, f \in Files : \A v \in table'[s][f] : v \in table[s][f] \/ Arrives(v, s, f)
  /\ \A s \in Servers : counter[s] <= counter'[s]
  /\ \A f \in Files : Kept(f) => \A s \in Replicas(f) : Keeps(s, f)
  /\ \A w \in storing' : w \in storing \/ Starts(w)

(* What one command is to another does not change, but a Delete or a Put   *)
(* of the file may come.                                                   *)
LEMMA Frame ==
  ASSUME Onward, NEW p \in DOMAIN ops
  PROVE  /\ p \in DOMAIN ops' /\ Continues(ops[p], ops'[p])
         /\ WholePut(p)' => WholePut(p)
         /\ Undeleted(p)' => Undeleted(p)
         /\ OnlyPut(p)' => OnlyPut(p)
         /\ \A q \in DOMAIN ops : SameFile(p, q)' = SameFile(p, q)
<1>1. /\ DOMAIN ops \subseteq DOMAIN ops'
      /\ \A o \in DOMAIN ops : Continues(ops[o], ops'[o])
  BY DEF Onward
<1>2. \A o \in DOMAIN ops : ops'[o].type = ops[o].type /\ ops'[o].file = ops[o].file
  BY <1>1 DEF Continues
<1>3. \A q \in DOMAIN ops : SameFile(p, q)' = SameFile(p, q) /\ SameFile(q, p)' = SameFile(q, p)
  BY <1>2 DEF SameFile
<1>4. WholePut(p)' => WholePut(p)
  BY <1>1, <1>2 DEF WholePut, Continues
<1>5. Undeleted(p)' => Undeleted(p)
  BY <1>1, <1>2, <1>3 DEF Undeleted
<1>6. OnlyPut(p)' => OnlyPut(p)
  BY <1>1, <1>2, <1>3 DEF OnlyPut
<1>. QED  BY <1>1, <1>3, <1>4, <1>5, <1>6

(* A replica keeps what it has of a file that is not deleted. *)
LEMMA HoldsStays ==
  ASSUME TypeInv, Onward, NEW p \in DOMAIN ops, ops[p].type = "PUT", Undeleted(p)',
         NEW s \in Replicas(ops[p].file), Holds(s, p)
  PROVE  Holds(s, p)'
<1>1. ops[p] \in Command
  BY DEF TypeInv
<1>2. ops[p].file \in Files
  BY <1>1 DEF Command, Op
<1>3. Undeleted(p) /\ ops'[p].file = ops[p].file /\ ops'[p].seq = ops[p].seq
  BY Frame DEF Continues
<1>4. table[s][ops[p].file] \subseteq table'[s][ops[p].file]
  BY <1>2, <1>3 DEF Onward, Undeleted, SameFile, Kept, Keeps
<1>. QED  BY <1>3, <1>4 DEF Holds

(* A replica keeps it on its disk, too. *)
LEMMA OnDiskStays ==
  ASSUME TypeInv, Onward, NEW p \in DOMAIN ops, ops[p].type = "PUT", Undeleted(p)',
         NEW s \in Replicas(ops[p].file), OnDisk(s, p)
  PROVE  OnDisk(s, p)'
<1>1. ops[p] \in Command
  BY DEF TypeInv
<1>2. ops[p].file \in Files
  BY <1>1 DEF Command, Op
<1>3. Undeleted(p) /\ ops'[p].file = ops[p].file /\ ops'[p].seq = ops[p].seq
  BY Frame DEF Continues
<1>4. Keeps(s, ops[p].file)
  BY <1>2, <1>3 DEF Onward, Undeleted, SameFile, Kept
<1>. QED  BY <1>3, <1>4 DEF OnDisk, Keeps

(* A server that has no version of a file, and no request of its only Put, *)
(* gets none.                                                              *)
LEMMA EmptyStays ==
  ASSUME TypeInv, Onward, NEW p \in DOMAIN ops, OnlyPut(p)', NEW s \in Servers,
         s \notin ops[p].asked, table[s][ops[p].file] = {}
  PROVE  table'[s][ops[p].file] = {}
<1>1. ops[p] \in Command
  BY DEF TypeInv
<1>2. ops[p].file \in Files
  BY <1>1 DEF Command, Op
<1>3. OnlyPut(p)
  BY Frame
<1>. QED  BY <1>2, <1>3 DEF Onward, Arrives, OnlyPut, SameFile

(* Commands that are before another are over, and stay. *)
LEMMA CommandedStep ==
  ASSUME Commanded, Onward
  PROVE  Commanded'
<1> SUFFICES ASSUME NEW o \in DOMAIN ops'
             PROVE  Answered(ops'[o]) /\ \A p \in ops'[o].before : p \in DOMAIN ops' /\ ops'[p].stage = "ok"
  BY DEF Commanded
<1>1. CASE o \in DOMAIN ops
  <2>1. Answered(ops'[o]) /\ ops'[o].before = ops[o].before
    BY <1>1, Frame DEF Onward, Continues
  <2>2. \A p \in ops[o].before : p \in DOMAIN ops /\ ops[p].stage = "ok"
    BY <1>1 DEF Commanded
  <2>. QED  BY <2>1, <2>2, Frame DEF Continues
<1>2. CASE o \notin DOMAIN ops
  <2>1. Begins(o)
    BY <1>2 DEF Onward
  <2>2. Answered(ops'[o])
    BY <2>1 DEF Begins, Answered
  <2>. QED  BY <2>1, <2>2, Frame DEF Begins, Continues
<1>. QED  BY <1>1, <1>2

(* They were over before the step. *)
LEMMA EarlierIsOver ==
  ASSUME Commanded, Onward, NEW o \in DOMAIN ops', NEW p \in ops'[o].before
  PROVE  p \in DOMAIN ops /\ ops[p].stage = "ok"
<1>1. CASE o \in DOMAIN ops
  BY <1>1, Frame DEF Commanded, Continues
<1>2. CASE Begins(o)
  BY <1>2 DEF Begins
<1>. QED  BY <1>1, <1>2 DEF Onward

(* What is stored, or being stored, is of Puts. *)
LEMMA WrittenStep ==
  ASSUME TypeInv, Written, Onward
  PROVE  Written'
<1>1. \A o \in DOMAIN ops : o \in DOMAIN ops' /\ Continues(ops[o], ops'[o])
  BY DEF Onward
<1>2. ASSUME NEW s \in Servers, NEW f \in Files, NEW v \in table'[s][f]
      PROVE  v.id \in DOMAIN ops' /\ ops'[v.id].type = "PUT" /\ ops'[v.id].file = f /\ ops'[v.id].seq = v.seq
  <2>1. v.id \in DOMAIN ops /\ ops[v.id].type = "PUT" /\ ops[v.id].file = f /\ ops[v.id].seq = v.seq
    BY DEF Onward, Arrives, Written
  <2>. QED  BY <1>1, <2>1 DEF Continues
<1>3. ASSUME NEW w \in storing'
      PROVE  /\ w.op \in DOMAIN ops' /\ ops'[w.op].type = "PUT"
             /\ ops'[w.op].file = w.file /\ ops'[w.op].seq = w.seq
             /\ ops'[w.op].stage # "fetched" /\ w.at \notin ops'[w.op].asked
             /\ ops'[w.op].whole => w.at \in Replicas(w.file)
  <2>1. /\ w.op \in DOMAIN ops /\ ops[w.op].type = "PUT"
        /\ ops[w.op].file = w.file /\ ops[w.op].seq = w.seq
        /\ ops[w.op].stage # "fetched"
        /\ w.at \notin ops[w.op].asked \/ w.at \notin ops'[w.op].asked
        /\ ops[w.op].whole => w.at \in Replicas(w.file)
    BY DEF Onward, Starts, Written
  <2>. QED  BY <1>1, <2>1 DEF Continues
<1>. QED  BY <1>2, <1>3 DEF Written

-----------------------------------------------------------------------------
(* Puts, Gets and Deletes *)

(* The answers to a command once there is one more. *)
LEMMA OneMore ==
  ASSUME TypeInv, Commanded, NEW o \in DOMAIN ops, NEW a, Answer(o, a)
  PROVE  LET acks == ops[o].acks \cup {a}
             F == {b.from : b \in acks}
         IN  /\ acks \in SUBSET [from : Servers, seq : Seqs] /\ IsFiniteSet(acks)
             /\ ops[o].whole /\ Cardinality(acks) >= ops[o].need =>
                  /\ F \in SUBSET Replicas(ops[o].file) /\ F # {}
                  /\ Cardinality(F) >= Min2(Level(ops[o].type), Len(FoundingRing))
                  /\ Min2(Level(ops[o].type), Len(FoundingRing)) > 0
<1> DEFINE acks == ops[o].acks \cup {a}
           F == {b.from : b \in acks}
<1>1. ops[o] \in Command
  BY DEF TypeInv
<1>2. /\ ops[o].acks \in SUBSET [from : Servers, seq : Seqs] /\ IsFiniteSet(ops[o].acks)
      /\ ops[o].file \in Files /\ ops[o].type \in Types /\ ops[o].need \in Nat
  BY <1>1 DEF Command, Op
<1>3. acks \in SUBSET [from : Servers, seq : Seqs] /\ IsFiniteSet(acks)
  BY <1>2, FS_AddElement DEF Answer
<1>4. Answered(ops[o])
  BY DEF Commanded
<1>5. \A b, c \in acks : b.from = c.from => b = c
  BY <1>4 DEF Answered, Answer
<1>6. ops[o].whole => F \in SUBSET Replicas(ops[o].file)
  BY <1>4 DEF Answered, Answer
<1>7. F # {}
  OBVIOUS
<1> HIDE DEF acks
<1>8. IsFiniteSet(F) /\ Cardinality(acks) <= Cardinality(F)
  BY <1>3, <1>5, Senders
<1>9. Cardinality(F) \in Nat /\ Cardinality(acks) \in Nat
  BY <1>3, <1>8, FS_CardinalityType
<1>10. ops[o].whole => ops[o].need = Min2(Level(ops[o].type), Len(FoundingRing)) /\ ops[o].need > 0
  BY <1>4 DEF Answered, Answer
<1> HIDE DEF F
<1>11. ASSUME ops[o].whole, Cardinality(acks) >= ops[o].need
       PROVE  /\ F \in SUBSET Replicas(ops[o].file) /\ F # {}
              /\ Cardinality(F) >= Min2(Level(ops[o].type), Len(FoundingRing))
              /\ Min2(Level(ops[o].type), Len(FoundingRing)) > 0
  BY <1>2, <1>6, <1>7, <1>8, <1>9, <1>10, <1>11
<1>. QED  BY <1>3, <1>11 DEF F, acks

(* Whatever answered a Put, or is about to, holds its version; those that  *)
(* answered one that succeeded are a write quorum.                         *)
LEMMA PutsHeldStep ==
  ASSUME TypeInv, Commanded, Written, PutsHeld, Onward
  PROVE  PutsHeld'
<1> SUFFICES ASSUME NEW p \in DOMAIN ops', WholePut(p)'
             PROVE  /\ Undeleted(p)' => /\ \A a \in ops'[p].acks : Holds(a.from, p)'
                                        /\ \A w \in storing' : w.op = p => Holds(w.at, p)'
                    /\ ops'[p].stage = "ok" =>
                         \E Q \in WriteQuorums(ops'[p].file) :
                           \A s \in Q : s \notin ops'[p].asked /\ (Undeleted(p)' => Holds(s, p)')
  BY DEF PutsHeld
<1>1. CASE p \notin DOMAIN ops
  <2>1. ops'[p].acks = {} /\ ops'[p].stage = "fetched"
    BY <1>1 DEF Onward, Begins
  <2>2. \A w \in storing' : w.op # p
    BY <1>1 DEF Onward, Starts, Written
  <2>. QED  BY <2>1, <2>2
<1>2. CASE p \in DOMAIN ops
  <2>1. /\ WholePut(p) /\ ops'[p].file = ops[p].file /\ ops'[p].seq = ops[p].seq
        /\ ops[p].stage # "fetched" => ops'[p].asked \subseteq ops[p].asked
        /\ Undeleted(p)' => Undeleted(p)
    BY <1>2, Frame DEF WholePut, Continues
  <2>2. ops[p].type = "PUT" /\ ops[p].whole /\ Answered(ops[p])
    BY <1>2, <2>1 DEF WholePut, Commanded
  <2>3. ops[p] \in Command
    BY <1>2 DEF TypeInv
  <2>4. ops[p].file \in Files
    BY <2>3 DEF Command, Op
  <2>5. ASSUME Undeleted(p)', NEW s \in Replicas(ops[p].file), Holds(s, p)
        PROVE  Holds(s, p)'
    BY <1>2, <2>2, <2>5, HoldsStays
  <2>6. ASSUME NEW a, Answer(p, a), Undeleted(p)'
        PROVE  Holds(a.from, p)' /\ \A b \in ops[p].acks : Holds(b.from, p)'
    <3>1. a.from \in Replicas(ops[p].file) /\ Holds(a.from, p)
      BY <2>1, <2>2, <2>6 DEF Answer
    <3>2. \A b \in ops[p].acks : b.from \in Replicas(ops[p].file) /\ Holds(b.from, p)
      BY <1>2, <2>1, <2>2, <2>6 DEF PutsHeld, Answered
    <3>. QED  BY <2>5, <2>6, <3>1, <3>2
  <2>7. ASSUME Undeleted(p)', NEW a \in ops'[p].acks PROVE Holds(a.from, p)'
    <3>1. CASE a \in ops[p].acks
      <4>1. a.from \in Replicas(ops[p].file) /\ Holds(a.from, p)
        BY <1>2, <2>1, <2>2, <2>7, <3>1 DEF PutsHeld, Answered
      <4>. QED  BY <2>5, <2>7, <4>1
    <3>2. CASE a \notin ops[p].acks
      <4>1. Answer(p, a)
        BY <1>2, <3>2 DEF Onward, Hears
      <4>. QED  BY <2>6, <2>7, <4>1
    <3>. QED  BY <3>1, <3>2
  <2>8. ASSUME Undeleted(p)', NEW w \in storing', w.op = p PROVE Holds(w.at, p)'
    <3>1. CASE w \in storing
      <4>1. w.at \in Replicas(ops[p].file) /\ Holds(w.at, p)
        BY <1>2, <2>1, <2>2, <2>8, <3>1 DEF PutsHeld, Written
      <4>. QED  BY <2>5, <2>8, <4>1
    <3>2. CASE Starts(w)
      BY <2>1, <2>8, <3>2 DEF Starts, Holds
    <3>. QED  BY <3>1, <3>2 DEF Onward
  <2>9. ASSUME ops'[p].stage = "ok"
        PROVE  \E Q \in WriteQuorums(ops[p].file) :
                 \A s \in Q : s \notin ops'[p].asked /\ (Undeleted(p)' => Holds(s, p)')
    <3>1. CASE ops[p].stage = "ok"
      <4>1. PICK Q \in WriteQuorums(ops[p].file) :
              \A s \in Q : s \notin ops[p].asked /\ (Undeleted(p) => Holds(s, p))
        BY <1>2, <2>1, <3>1 DEF PutsHeld
      <4>2. Q \subseteq Replicas(ops[p].file)
        BY DEF WriteQuorums
      <4>. QED  BY <2>1, <2>5, <3>1, <4>1, <4>2
    <3>2. CASE ops[p].stage # "ok"
      <4>1. PICK a : /\ Answer(p, a) /\ Cardinality(ops[p].acks \cup {a}) >= ops[p].need
        BY <1>2, <2>9, <3>2 DEF Onward, Hears
      <4> DEFINE Q == {b.from : b \in ops[p].acks \cup {a}}
      <4>2. Q \in SUBSET Replicas(ops[p].file) /\ Cardinality(Q) >= Min2(Level("PUT"), Len(FoundingRing))
        BY <1>2, <2>2, <4>1, OneMore
      <4>3. Q \in WriteQuorums(ops[p].file)
        BY <4>2 DEF WriteQuorums, Level
      <4>4. \A s \in Q : s \notin ops'[p].asked
        <5>1. \A b \in ops[p].acks : b.from \notin ops[p].asked
          BY <2>2 DEF Answered
        <5>2. ops'[p].asked \subseteq ops[p].asked /\ a.from \notin ops'[p].asked
          BY <2>1, <4>1 DEF Answer
        <5>. QED  BY <5>1, <5>2
      <4>5. Undeleted(p)' => \A s \in Q : Holds(s, p)'
        BY <2>6, <4>1
      <4>. QED  BY <4>3, <4>4, <4>5
    <3>. QED  BY <3>1, <3>2
  <2>. QED  BY <2>1, <2>7, <2>8, <2>9
<1>. QED  BY <1>1, <1>2

(* A Put gets a number that no earlier one has, and a server is not asked  *)
(* for a version that it has.                                              *)
LEMMA NumberedStep ==
  ASSUME TypeInv, TypeInv', Written, Numbered, Onward
  PROVE  Numbered'
<1>1. \A o \in DOMAIN ops : o \in DOMAIN ops' /\ Continues(ops[o], ops'[o])
  BY DEF Onward
<1>2. \A o \in DOMAIN ops : ops'[o].type = "PUT" => ops[o].type = "PUT" /\ ops'[o].seq = ops[o].seq
  BY <1>1 DEF Continues
<1>3. /\ \A s \in Servers : /\ counter[s] \in Nat /\ counter'[s] \in Nat /\ counter[s] <= counter'[s]
                            /\ JoinTime[s] \in Nat
      /\ \A s, t \in Servers : JoinTime[s] = JoinTime[t] => s = t
  BY JoinTimeAssumption DEF TypeInv, TypeOK, Onward
<1>4. ASSUME NEW o \in DOMAIN ops PROVE ops[o].seq.count \in Nat
  <2>1. ops[o] \in Command
    BY DEF TypeInv
  <2>. QED  BY <2>1 DEF Command, Op, Seqs
<1>5. ASSUME NEW o \in DOMAIN ops', NEW s \in Servers, ops'[o].type = "PUT",
             ops'[o].seq.time = JoinTime[s]
      PROVE  ops'[o].seq.count <= counter'[s]
  <2>1. CASE o \in DOMAIN ops
    <3>1. ops[o].seq.count <= counter[s] /\ ops'[o].seq = ops[o].seq
      BY <1>2, <1>5, <2>1 DEF Numbered
    <3>. QED  BY <1>3, <1>4, <2>1, <3>1
  <2>2. CASE Begins(o)
    <3>1. PICK l \in Servers : /\ ops'[o].seq = [time |-> JoinTime[l], count |-> counter[l] + 1]
                               /\ counter'[l] = counter[l] + 1
      BY <2>2 DEF Begins
    <3>2. s = l /\ ops'[o].seq.count = counter[l] + 1
      BY <1>3, <1>5, <3>1
    <3>. QED  BY <1>3, <3>1, <3>2
  <2>. QED  BY <2>1, <2>2 DEF Onward
<1>6. ASSUME NEW o \in DOMAIN ops', Begins(o), NEW p \in DOMAIN ops, ops'[p].type = "PUT"
      PROVE  ops'[o].seq # ops'[p].seq
  <2>1. PICK l \in Servers : ops'[o].seq = [time |-> JoinTime[l], count |-> counter[l] + 1]
    BY <1>6 DEF Begins
  <2>2. ops'[p].seq = ops[p].seq /\ (ops[p].seq.time = JoinTime[l] => ops[p].seq.count <= counter[l])
    BY <1>2, <1>6 DEF Numbered
  <2>3. ops'[o].seq.time = JoinTime[l] /\ ops'[o].seq.count = counter[l] + 1
    BY <2>1
  <2>. QED  BY <1>3, <1>4, <2>2, <2>3
<1>7. ASSUME NEW o \in DOMAIN ops', NEW p \in DOMAIN ops', ops'[o].type = "PUT", ops'[p].type = "PUT",
             ops'[o].seq = ops'[p].seq
      PROVE  o = p
  <2>1. CASE o \in DOMAIN ops /\ p \in DOMAIN ops
    BY <1>2, <1>7, <2>1 DEF Numbered
  <2>2. CASE o \notin DOMAIN ops
    <3>1. Begins(o)
      BY <2>2 DEF Onward
    <3>. QED  BY <1>6, <1>7, <3>1 DEF Begins
  <2>3. CASE p \notin DOMAIN ops
    <3>1. Begins(p)
      BY <2>3 DEF Onward
    <3>. QED  BY <1>6, <1>7, <3>1 DEF Begins
  <2>. QED  BY <2>1, <2>2, <2>3
<1>8. ASSUME NEW s \in Servers, NEW f \in Files, NEW v \in table'[s][f]
      PROVE  ops'[v.id].stage # "fetched" /\ s \notin ops'[v.id].asked
  <2>1. CASE v \in table[s][f]
    <3>1. v.id \in DOMAIN ops /\ ops[v.id].stage # "fetched" /\ s \notin ops[v.id].asked
      BY <2>1 DEF Written, Numbered
    <3>. QED  BY <1>1, <3>1 DEF Continues
  <2>2. CASE Arrives(v, s, f)
    BY <1>1, <2>2 DEF Arrives, Continues
  <2>. QED  BY <2>1, <2>2 DEF Onward
<1>. QED  BY <1>5, <1>7, <1>8 DEF Numbered

(* A replica puts nothing of a file into the trash until a Delete. *)
LEMMA NotInTrashStep ==
  ASSUME TypeInv, NotInTrash, Onward
  PROVE  NotInTrash'
<1> SUFFICES ASSUME NEW f \in Files, Kept(f)', NEW s \in Replicas(f), NEW x \in trash'[s]
             PROVE  x.file # f
  BY DEF NotInTrash
<1>1. Kept(f)
  <2>1. \A d \in DOMAIN ops : d \in DOMAIN ops' /\ Continues(ops[d], ops'[d])
    BY DEF Onward
  <2>. QED  BY <2>1 DEF Kept, Continues
<1>. QED  BY <1>1 DEF Onward, Keeps, NotInTrash

(* Whatever answered a Put has its version on the disk. *)
LEMMA PutsStoredStep ==
  ASSUME TypeInv, Commanded, Written, PutsHeld, PutsStored, Onward
  PROVE  PutsStored'
<1> SUFFICES ASSUME NEW p \in DOMAIN ops', WholePut(p)', Undeleted(p)'
             PROVE  /\ \A a \in ops'[p].acks : OnDisk(a.from, p)'
                    /\ ops'[p].stage = "ok" =>
                         \E Q \in WriteQuorums(ops'[p].file) :
                           Q # {} /\ \A s \in Q : Holds(s, p)' /\ OnDisk(s, p)'
  BY DEF PutsStored
<1>1. CASE p \notin DOMAIN ops
  BY <1>1 DEF Onward, Begins
<1>2. CASE p \in DOMAIN ops
  <2>1. /\ WholePut(p) /\ ops'[p].file = ops[p].file /\ ops'[p].seq = ops[p].seq
        /\ Undeleted(p)
    BY <1>2, Frame DEF WholePut, Continues
  <2>2. ops[p].type = "PUT" /\ ops[p].whole /\ Answered(ops[p])
    BY <1>2, <2>1 DEF WholePut, Commanded
  <2>3. ASSUME NEW s \in Replicas(ops[p].file)
        PROVE  (Holds(s, p) => Holds(s, p)') /\ (OnDisk(s, p) => OnDisk(s, p)')
    BY <1>2, <2>2, HoldsStays, OnDiskStays
  <2>4. ASSUME NEW b \in ops[p].acks
        PROVE  b.from \in Replicas(ops[p].file) /\ Holds(b.from, p)' /\ OnDisk(b.from, p)'
    <3>1. b.from \in Replicas(ops[p].file) /\ Holds(b.from, p) /\ OnDisk(b.from, p)
      BY <1>2, <2>1, <2>2 DEF PutsHeld, PutsStored, Answered
    <3>. QED  BY <2>3, <3>1
  <2>5. ASSUME NEW a, Answer(p, a)
        PROVE  a.from \in Replicas(ops[p].file) /\ Holds(a.from, p)' /\ OnDisk(a.from, p)'
    <3>1. a.from \in Replicas(ops[p].file) /\ Holds(a.from, p) /\ Persisted(a.from, p)
      BY <2>1, <2>2, <2>5 DEF Answer
    <3>2. OnDisk(a.from, p)'
      BY <2>1, <3>1 DEF Persisted, OnDisk
    <3>. QED  BY <2>3, <3>1, <3>2
  <2>6. ASSUME NEW a \in ops'[p].acks PROVE OnDisk(a.from, p)'
    <3>1. a \in ops[p].acks \/ Answer(p, a)
      BY <1>2 DEF Onward, Hears
    <3>. QED  BY <2>4, <2>5, <3>1
  <2>7. ASSUME ops'[p].stage = "ok"
        PROVE  \E Q \in WriteQuorums(ops[p].file) :
                 Q # {} /\ \A s \in Q : Holds(s, p)' /\ OnDisk(s, p)'
    <3>1. CASE ops[p].stage = "ok"
      <4>1. PICK Q \in WriteQuorums(ops[p].file) :
              Q # {} /\ \A s \in Q : Holds(s, p) /\ OnDisk(s, p)
        BY <1>2, <2>1, <3>1 DEF PutsStored
      <4>2. Q \subseteq Replicas(ops[p].file)
        BY DEF WriteQuorums
      <4>. QED  BY <2>3, <4>1, <4>2
    <3>2. CASE ops[p].stage # "ok"
      <4>1. PICK a : Answer(p, a) /\ Cardinality(ops[p].acks \cup {a}) >= ops[p].need
        BY <1>2, <2>7, <3>2 DEF Onward, Hears
      <4> DEFINE Q == {b.from : b \in ops[p].acks \cup {a}}
      <4>2. Q \in SUBSET Replicas(ops[p].file) /\ Cardinality(Q) >= Min2(Level("PUT"), Len(FoundingRing))
        BY <1>2, <2>2, <4>1, OneMore
      <4>3. Q \in WriteQuorums(ops[p].file) /\ Q # {}
        BY <4>2 DEF WriteQuorums, Level
      <4>4. \A s \in Q : Holds(s, p)' /\ OnDisk(s, p)'
        BY <2>4, <2>5, <4>1
      <4>. QED  BY <4>3, <4>4
    <3>. QED  BY <3>1, <3>2
  <2>. QED  BY <2>1, <2>6, <2>7
<1>. QED  BY <1>1, <1>2

(* What a Get hears from the quorum of an earlier Put is not older. *)
LEMMA GetsHearStep ==
  ASSUME TypeInv, Commanded, PutsHeld, GetsHear, Onward
  PROVE  GetsHear'
<1> SUFFICES ASSUME NEW g \in DOMAIN ops', NEW p \in DOMAIN ops',
                    ops'[g].type = "GET", ops'[g].whole, WholePut(p)', Undeleted(p)',
                    SameFile(g, p)', p \in ops'[g].before
             PROVE  \E Q \in WriteQuorums(ops'[p].file) :
                      /\ \A s \in Q : Holds(s, p)'
                      /\ \A a \in ops'[g].acks : a.from \in Q => ~Less(a.seq, ops'[p].seq)
  BY DEF GetsHear
<1>1. p \in DOMAIN ops /\ ops[p].stage = "ok"
  BY EarlierIsOver
<1>2. /\ WholePut(p) /\ Undeleted(p) /\ ops[p].type = "PUT"
      /\ ops'[p].file = ops[p].file /\ ops'[p].seq = ops[p].seq
  BY <1>1, Frame DEF WholePut, Continues
<1>3. ASSUME NEW s \in Replicas(ops[p].file), Holds(s, p) PROVE Holds(s, p)'
  BY <1>1, <1>2, <1>3, HoldsStays
<1>4. CASE g \notin DOMAIN ops
  <2>1. ops'[g].acks = {}
    BY <1>4 DEF Onward, Begins
  <2>2. PICK Q \in WriteQuorums(ops[p].file) : \A s \in Q : Holds(s, p)
    BY <1>1, <1>2 DEF PutsHeld
  <2>3. Q \subseteq Replicas(ops[p].file)
    BY DEF WriteQuorums
  <2>. QED  BY <1>2, <1>3, <2>1, <2>2, <2>3
<1>5. CASE g \in DOMAIN ops
  <2>1. /\ ops[g].type = "GET" /\ ops[g].whole /\ SameFile(g, p) /\ p \in ops[g].before
    BY <1>1, <1>5, Frame DEF Continues
  <2>2. PICK Q \in WriteQuorums(ops[p].file) :
          /\ \A s \in Q : Holds(s, p)
          /\ \A a \in ops[g].acks : a.from \in Q => ~Less(a.seq, ops[p].seq)
    BY <1>1, <1>2, <1>5, <2>1 DEF GetsHear
  <2>3. Q \subseteq Replicas(ops[p].file)
    BY DEF WriteQuorums
  <2>4. ASSUME NEW a \in ops'[g].acks, a.from \in Q, a \notin ops[g].acks
        PROVE  ~Less(a.seq, ops[p].seq)
    <3>1. Answer(g, a)
      BY <1>5, <2>4 DEF Onward, Hears
    <3>2. Holds(a.from, p) /\ ops[g].file = ops[p].file
      BY <2>1, <2>2, <2>4 DEF SameFile
    <3>. QED  BY <2>1, <3>1, <3>2 DEF Answer, Holds
  <2>. QED  BY <1>2, <1>3, <2>2, <2>3, <2>4
<1>. QED  BY <1>4, <1>5

(* A Get that succeeds heard from a server of the Put's quorum. *)
LEMMA GetsSeeStep ==
  ASSUME TypeInv, changes = 0, Commanded, GetsHear, GetSeesEarlierPuts, Onward
  PROVE  GetSeesEarlierPuts'
<1> SUFFICES ASSUME NEW g \in DOMAIN ops', NEW p \in DOMAIN ops',
                    ops'[g].type = "GET", ops'[g].stage = "ok", ops'[p].type = "PUT",
                    SameFile(g, p)', p \in ops'[g].before, ops'[g].whole, ops'[p].whole, Undeleted(p)'
             PROVE  ~Less(ops'[g].seq, ops'[p].seq)
  BY DEF GetSeesEarlierPuts, Succeeded, Undeleted
<1>1. p \in DOMAIN ops /\ ops[p].stage = "ok" /\ g \in DOMAIN ops
  BY EarlierIsOver DEF Onward, Begins
<1>2. /\ WholePut(p) /\ Undeleted(p) /\ ops[p].type = "PUT" /\ ops[p].whole /\ ops'[p].seq = ops[p].seq
  BY <1>1, Frame DEF WholePut, Continues
<1>3. /\ ops[g].type = "GET" /\ ops[g].whole /\ SameFile(g, p) /\ p \in ops[g].before
      /\ ops[g].file = ops[p].file /\ (ops[g].stage = "ok" => ops'[g].seq = ops[g].seq)
  BY <1>1, Frame DEF Continues, SameFile
<1>4. CASE ops[g].stage = "ok"
  <2>1. ~Less(ops[g].seq, ops[p].seq)
    BY <1>1, <1>2, <1>3, <1>4 DEF GetSeesEarlierPuts, Succeeded, Undeleted
  <2>. QED  BY <1>2, <1>3, <1>4, <2>1
<1>5. CASE ops[g].stage # "ok"
  <2>1. ops[g] \in Command /\ ops[p] \in Command
    BY <1>1 DEF TypeInv
  <2>2. ops[g].file \in Files /\ ops[p].seq \in Seqs
    BY <2>1 DEF Command, Op
  <2>3. PICK a : /\ Answer(g, a) /\ Cardinality(ops[g].acks \cup {a}) >= ops[g].need
                 /\ ops'[g].seq = Newest(ops[g].acks \cup {a})
    BY <1>1, <1>3, <1>5 DEF Onward, Hears
  <2> DEFINE acks == ops[g].acks \cup {a}
             F == {b.from : b \in acks}
  <2>4. /\ acks \in SUBSET [from : Servers, seq : Seqs] /\ IsFiniteSet(acks) /\ acks # {}
        /\ F \in SUBSET Replicas(ops[g].file)
        /\ Cardinality(F) >= Min2(Level("GET"), Len(FoundingRing))
        /\ Min2(Level("GET"), Len(FoundingRing)) > 0
    BY <1>1, <1>3, <2>3, OneMore
  <2>5. PICK Q \in WriteQuorums(ops[p].file) :
          /\ \A s \in Q : Holds(s, p)
          /\ \A b \in ops[g].acks : b.from \in Q => ~Less(b.seq, ops[p].seq)
    BY <1>1, <1>2, <1>3 DEF GetsHear
  <2>6. a.from \in Q => ~Less(a.seq, ops[p].seq)
    BY <1>3, <2>3, <2>5 DEF Answer, Holds
  <2>7. \A b \in acks : b.from \in Q => ~Less(b.seq, ops[p].seq)
    BY <2>5, <2>6
  <2> HIDE DEF acks
  <2>8. PICK s \in Q : s \in F
    <3> HIDE DEF F
    <3>. QED  BY <1>3, <2>2, <2>4, QuorumsMeet DEF Level
  <2>9. PICK b \in acks : b.from \in Q
    BY <2>8
  <2>10. b.seq \in Seqs /\ Newest(acks) \in Seqs /\ ~Less(Newest(acks), b.seq)
    BY <2>4, NewestIs
  <2>11. ~Less(Newest(acks), ops[p].seq)
    BY <2>2, <2>7, <2>9, <2>10, LessIsOrder
  <2>. QED  BY <1>2, <2>3, <2>11 DEF acks
<1>. QED  BY <1>4, <1>5

(* One Put, one Delete after it, as they were before the step. *)
LEMMA DeletedPutWas ==
  ASSUME Commanded, Onward, NEW d \in DOMAIN ops', NEW p \in DOMAIN ops', DeletedPut(d, p)'
  PROVE  /\ p \in DOMAIN ops /\ ops[p].stage = "ok" /\ OnlyPut(p)' /\ OnlyPut(p) /\ WholePut(p)
         /\ ops'[p].file = ops[p].file /\ ops'[p].asked \subseteq ops[p].asked
         /\ d \in DOMAIN ops => DeletedPut(d, p) /\ ops[d].whole /\ ops[d].type = "DELETE"
                                /\ ops[d].file = ops[p].file
<1>1. p \in DOMAIN ops /\ ops[p].stage = "ok"
  BY EarlierIsOver DEF DeletedPut
<1>2. /\ OnlyPut(p)' /\ OnlyPut(p) /\ WholePut(p) /\ ops'[p].file = ops[p].file
      /\ ops'[p].asked \subseteq ops[p].asked
  BY <1>1, Frame DEF DeletedPut, Continues
<1>3. ASSUME d \in DOMAIN ops
      PROVE  DeletedPut(d, p) /\ ops[d].whole /\ ops[d].type = "DELETE" /\ ops[d].file = ops[p].file
  BY <1>1, <1>2, <1>3, Frame DEF DeletedPut, Continues, SameFile
<1>. QED  BY <1>1, <1>2, <1>3

(* A server of the Put's quorum that answered the Delete has nothing left, *)
(* and all of them answer one that succeeds.                               *)
LEMMA DeletesEmptyStep ==
  ASSUME TypeInv, Commanded, PutsHeld, DeletesEmpty, Onward
  PROVE  DeletesEmpty'
<1> SUFFICES ASSUME NEW d \in DOMAIN ops', NEW p \in DOMAIN ops', DeletedPut(d, p)'
             PROVE  \E Q \in WriteQuorums(ops'[p].file) : \A s \in Q :
                      /\ s \notin ops'[p].asked
                      /\ (ops'[d].stage = "ok" \/ (\E a \in ops'[d].acks : a.from = s)) =>
                           table'[s][ops'[p].file] = {}
  BY DEF DeletesEmpty
<1>1. /\ p \in DOMAIN ops /\ ops[p].stage = "ok" /\ OnlyPut(p)' /\ WholePut(p)
      /\ ops'[p].file = ops[p].file /\ ops'[p].asked \subseteq ops[p].asked
  BY DeletedPutWas
<1>2. ops[p] \in Command
  BY <1>1 DEF TypeInv
<1>3. ops[p].file \in Files
  BY <1>2 DEF Command, Op
<1>4. CASE d \notin DOMAIN ops
  <2>1. ops'[d].acks = {} /\ ops'[d].stage = "fetched"
    BY <1>4 DEF Onward, Begins
  <2>2. PICK Q \in WriteQuorums(ops[p].file) : \A s \in Q : s \notin ops[p].asked
    BY <1>1 DEF PutsHeld
  <2>. QED  BY <1>1, <2>1, <2>2
<1>5. CASE d \in DOMAIN ops
  <2>1. DeletedPut(d, p) /\ ops[d].whole /\ ops[d].type = "DELETE" /\ ops[d].file = ops[p].file
    BY <1>5, DeletedPutWas
  <2>2. PICK Q \in WriteQuorums(ops[p].file) : \A s \in Q :
          /\ s \notin ops[p].asked
          /\ ops[d].stage = "ok" \/ (\E a \in ops[d].acks : a.from = s) => table[s][ops[p].file] = {}
    BY <1>1, <1>5, <2>1 DEF DeletesEmpty
  <2>3. Q \subseteq Replicas(ops[p].file) /\ Q \subseteq Servers
    BY <1>3, FoundingReplicas DEF WriteQuorums
  <2>4. ASSUME NEW s \in Q, table[s][ops[p].file] = {} PROVE table'[s][ops[p].file] = {}
    BY <1>1, <2>2, <2>3, <2>4, EmptyStays
  <2>5. ASSUME NEW s \in Q, ops'[d].stage = "ok" \/ (\E a \in ops'[d].acks : a.from = s)
        PROVE  table'[s][ops[p].file] = {}
    <3>1. CASE ops[d].stage = "ok" \/ (\E a \in ops[d].acks : a.from = s)
      BY <2>2, <2>4, <3>1
    <3>2. CASE \E a : Answer(d, a) /\ a.from = s
      BY <2>1, <3>2 DEF Answer
    <3>3. CASE \E a : Answer(d, a) /\ Cardinality(ops[d].acks \cup {a}) >= ops[d].need
      <4>1. PICK a : Answer(d, a) /\ Cardinality(ops[d].acks \cup {a}) >= ops[d].need
        BY <3>3
      <4> DEFINE F == {b.from : b \in ops[d].acks \cup {a}}
      <4>2. F \in SUBSET Replicas(ops[p].file) /\ Cardinality(F) >= Min2(Level("DELETE"), Len(FoundingRing))
        BY <1>5, <2>1, <4>1, OneMore
      <4>3. F = Replicas(ops[p].file)
        <5> HIDE DEF F
        <5>. QED  BY <1>3, <4>2, EveryReplica DEF Level
      <4>4. s \in F
        BY <2>3, <4>3
      <4>. QED  BY <3>1, <3>2, <4>1, <4>4
    <3>. QED  BY <1>5, <2>5, <3>1, <3>2, <3>3 DEF Onward, Hears
  <2>. QED  BY <1>1, <2>2, <2>5
<1>. QED  BY <1>4, <1>5

(* So a Get after the Delete is answered by none of them. *)
LEMMA GetsMissStep ==
  ASSUME TypeInv, Commanded, DeletesEmpty, GetsMiss, Onward
  PROVE  GetsMiss'
<1> SUFFICES ASSUME NEW g \in DOMAIN ops', NEW d \in DOMAIN ops', NEW p \in DOMAIN ops',
                    ops'[g].type = "GET", ops'[g].whole, SameFile(g, d)', d \in ops'[g].before,
                    DeletedPut(d, p)'
             PROVE  /\ ops'[g].stage # "ok"
                    /\ \E Q \in WriteQuorums(ops'[p].file) : \A s \in Q :
                         /\ s \notin ops'[p].asked /\ table'[s][ops'[p].file] = {}
                         /\ \A a \in ops'[g].acks : a.from # s
  BY DEF GetsMiss
<1>1. d \in DOMAIN ops /\ ops[d].stage = "ok"
  BY EarlierIsOver
<1>2. /\ p \in DOMAIN ops /\ OnlyPut(p)' /\ DeletedPut(d, p)
      /\ ops'[p].file = ops[p].file /\ ops'[p].asked \subseteq ops[p].asked
      /\ ops[d].file = ops[p].file
  BY <1>1, DeletedPutWas
<1>3. ops[p] \in Command
  BY <1>2 DEF TypeInv
<1>4. ops[p].file \in Files
  BY <1>3 DEF Command, Op
<1>5. ASSUME NEW Q \in WriteQuorums(ops[p].file), NEW s \in Q, s \notin ops[p].asked,
             table[s][ops[p].file] = {}
      PROVE  table'[s][ops[p].file] = {}
  <2>1. s \in Servers
    BY <1>4, FoundingReplicas DEF WriteQuorums
  <2>. QED  BY <1>2, <1>5, <2>1, EmptyStays
<1>6. CASE g \notin DOMAIN ops
  <2>1. ops'[g].acks = {} /\ ops'[g].stage = "fetched"
    BY <1>6 DEF Onward, Begins
  <2>2. PICK Q \in WriteQuorums(ops[p].file) : \A s \in Q :
          s \notin ops[p].asked /\ table[s][ops[p].file] = {}
    BY <1>1, <1>2 DEF DeletesEmpty
  <2>. QED  BY <1>2, <1>5, <2>1, <2>2
<1>7. CASE g \in DOMAIN ops
  <2>1. /\ ops[g].type = "GET" /\ ops[g].whole /\ SameFile(g, d) /\ d \in ops[g].before
        /\ ops[g].file = ops[p].file
    BY <1>1, <1>2, <1>7, Frame DEF Continues, SameFile
  <2>2. ops[g].stage # "ok"
    BY <1>1, <1>2, <1>7, <2>1 DEF GetsMiss
  <2>3. PICK Q \in WriteQuorums(ops[p].file) : \A s \in Q :
          s \notin ops[p].asked /\ table[s][ops[p].file] = {} /\ \A a \in ops[g].acks : a.from # s
    BY <1>1, <1>2, <1>7, <2>1 DEF GetsMiss
  <2>4. ASSUME NEW a, Answer(g, a) PROVE a.from \notin Q
    BY <2>1, <2>3, <2>4 DEF Answer
  <2>5. ASSUME NEW a \in ops'[g].acks PROVE a.from \notin Q
    <3>1. a \in ops[g].acks \/ Answer(g, a)
      BY <1>7 DEF Onward, Hears
    <3>. QED  BY <2>3, <2>4, <3>1
  <2>6. ASSUME ops'[g].stage = "ok" PROVE FALSE
    <3>1. PICK a : Answer(g, a) /\ Cardinality(ops[g].acks \cup {a}) >= ops[g].need
      BY <1>7, <2>2, <2>6 DEF Onward, Hears
    <3> DEFINE F == {b.from : b \in ops[g].acks \cup {a}}
    <3>2. /\ F \in SUBSET Replicas(ops[p].file)
          /\ Cardinality(F) >= Min2(Level("GET"), Len(FoundingRing))
          /\ Min2(Level("GET"), Len(FoundingRing)) > 0
      BY <1>7, <2>1, <3>1, OneMore
    <3>3. PICK s \in Q : s \in F
      <4> HIDE DEF F
      <4>. QED  BY <1>4, <3>2, QuorumsMeet DEF Level
    <3>. QED  BY <2>3, <2>4, <3>1, <3>3
  <2>. QED  BY <1>2, <1>5, <2>3, <2>5, <2>6
<1>. QED  BY <1>6, <1>7

-----------------------------------------------------------------------------
(* The steps while membership does not change *)

(* A command that a step leaves alone. *)
LEMMA LeftAlone ==
  ASSUME Commanded, NEW o \in DOMAIN ops, ops'[o] = ops[o]
  PROVE  Continues(ops[o], ops'[o]) /\ Answered(ops'[o]) /\ Hears(o)
<1>1. Continues(ops[o], ops'[o])
  BY DEF Continues
<1>2. Answered(ops'[o])
  BY DEF Commanded
<1>3. Hears(o)
  BY DEF Hears
<1>. QED  BY <1>1, <1>2, <1>3

(* What a step does to commands, when it changes one of them. *)
LEMMA OneGoesOn ==
  ASSUME TypeInv, Commanded, NEW o \in DOMAIN ops, NEW x \in Command, ops' = [ops EXCEPT ![o] = x],
         Continues(ops[o], x), Answered(x), ops'[o] = x => Hears(o)
  PROVE  /\ DOMAIN ops' = DOMAIN ops /\ ops'[o] = x
         /\ \A q \in DOMAIN ops : Continues(ops[q], ops'[q]) /\ Answered(ops'[q]) /\ Hears(q)
<1>1. ops \in Seq(Command)
  BY DEF TypeInv
<1>2. DOMAIN ops' = DOMAIN ops /\ ops'[o] = x /\ \A q \in DOMAIN ops : q # o => ops'[q] = ops[q]
  BY <1>1, OneChanges
<1>3. \A q \in DOMAIN ops : q # o => Continues(ops[q], ops'[q]) /\ Answered(ops'[q]) /\ Hears(q)
  BY <1>2, LeftAlone
<1>. QED  BY <1>2, <1>3

(* A request that is handled and not answered. *)
LEMMA Handling ==
  ASSUME TypeInv, Commanded, NEW o \in DOMAIN ops, NEW s \in ops[o].asked,
         ops' = [ops EXCEPT ![o] = Handled(@, s)]
  PROVE  /\ DOMAIN ops' = DOMAIN ops /\ ops[o].stage # "fetched" /\ s \notin ops'[o].asked
         /\ \A q \in DOMAIN ops : Continues(ops[q], ops'[q]) /\ Answered(ops'[q]) /\ Hears(q)
<1> DEFINE x == Handled(ops[o], s)
<1>1. ops[o] \in Command /\ Answered(ops[o])
  BY DEF TypeInv, Commanded
<1>2. ops[o].stage # "fetched"
  BY <1>1 DEF Answered
<1>3. /\ x \in Command /\ SameCommand(x, ops[o]) /\ x.stage = ops[o].stage /\ x.seq = ops[o].seq
      /\ x.asked = ops[o].asked \ {s} /\ x.acks = ops[o].acks /\ x.need = ops[o].need
  BY <1>1, HandledIs
<1>4. ops' = [ops EXCEPT ![o] = x]
  OBVIOUS
<1> HIDE DEF x
<1>5. Continues(ops[o], x)
  BY <1>2, <1>3 DEF Continues, SameCommand
<1>6. Answered(x)
  BY <1>1, <1>3 DEF Answered, SameCommand
<1>7. ops'[o] = x => Hears(o)
  BY <1>3 DEF Hears
<1>8. /\ DOMAIN ops' = DOMAIN ops /\ ops'[o] = x
      /\ \A q \in DOMAIN ops : Continues(ops[q], ops'[q]) /\ Answered(ops'[q]) /\ Hears(q)
  BY <1>3, <1>4, <1>5, <1>6, <1>7, OneGoesOn
<1>. QED  BY <1>2, <1>3, <1>8

(* h is the command o without the request that s answers. *)
Without(h, o, s) ==
  /\ h \in Command /\ SameCommand(h, ops[o]) /\ h.stage = ops[o].stage /\ h.seq = ops[o].seq
  /\ h.acks = ops[o].acks /\ h.need = ops[o].need /\ h.asked \subseteq ops[o].asked /\ s \notin h.asked

(* What s answers to the command o is seq. *)
Replies(o, s, seq) ==
  /\ ops[o].stage # "fetched" /\ s \in Servers /\ seq \in Seqs
  /\ \A b \in ops[o].acks : b.from = s => b.seq = seq
  /\ ops[o].whole => s \in Replicas(ops[o].file)
  /\ ops[o].type = "PUT" => seq = ops[o].seq
  /\ WholePut(o) /\ Undeleted(o) => Holds(s, o)
  /\ ops[o].type = "GET" => /\ table[s][ops[o].file] # {}
                            /\ \A v \in table[s][ops[o].file] : ~Less(seq, v.seq)
  /\ ops[o].type = "DELETE" => table'[s][ops[o].file] = {}
  /\ ops[o].type = "PUT" => Persisted(s, o)

(* An answer that arrives. *)
LEMMA Answering ==
  ASSUME TypeInv, Commanded, NEW o \in DOMAIN ops, NEW h, NEW s, NEW seq, Without(h, o, s),
         Replies(o, s, seq), ops' = [ops EXCEPT ![o] = Acknowledged(h, s, seq)]
  PROVE  /\ DOMAIN ops' = DOMAIN ops
         /\ \A q \in DOMAIN ops : Continues(ops[q], ops'[q]) /\ Answered(ops'[q]) /\ Hears(q)
<1> DEFINE x == Acknowledged(h, s, seq)
           a == [from |-> s, seq |-> seq]
<1>0. h \in Command /\ s \in Servers /\ seq \in Seqs
  BY DEF Without, Replies
<1>1. ops[o] \in Command /\ Answered(ops[o]) /\ changes \in 0 .. MaxChanges
  BY DEF TypeInv, Commanded, TypeOK
<1>2. x \in Command /\ SameCommand(x, h) /\ Counts(x, h, h.acks \cup {a})
  BY <1>0, <1>1, AcknowledgedIs
<1>3. ops' = [ops EXCEPT ![o] = x] /\ SameCommand(x, ops[o])
  BY <1>2 DEF SameCommand, Without
<1>4. a.from = s /\ a.seq = seq /\ a \in [from : Servers, seq : Seqs]
  BY <1>0
<1>5. ops[o].acks \in SUBSET [from : Servers, seq : Seqs]
  BY <1>1 DEF Command, Op
<1>6. \A b \in ops[o].acks : b.from = s => b = a
  BY <1>4, <1>5 DEF Replies
<1> HIDE DEF x, a
<1>7. ASSUME ops'[o] = x, ops[o].stage = "waiting", x.asked \subseteq h.asked
      PROVE  Answer(o, a)
  BY <1>4, <1>6, <1>7 DEF Answer, Without, Replies
<1>8. /\ x.type = ops[o].type /\ x.file = ops[o].file /\ x.before = ops[o].before
      /\ x.whole = ops[o].whole /\ h.type = ops[o].type
  BY <1>3 DEF SameCommand, Without
<1>9. Continues(ops[o], x) /\ Answered(x) /\ (ops'[o] = x => Hears(o))
  <2>1. CASE x = h
    <3>1. Answered(x)
      BY <1>1, <1>8, <2>1 DEF Answered, Without, Replies
    <3>. QED  BY <1>8, <2>1, <3>1 DEF Continues, Hears, Without, Replies
  <2>2. CASE /\ h.stage = "waiting" /\ x.stage = "waiting" /\ x.acks = h.acks \cup {a}
             /\ x.asked = h.asked /\ x.seq = h.seq /\ x.need = h.need
    <3>1. Continues(ops[o], x)
      BY <1>8, <2>2 DEF Continues, Without, Replies
    <3>2. Answered(x)
      BY <1>1, <1>4, <1>6, <1>8, <2>2 DEF Answered, Without, Replies
    <3>3. ops'[o] = x => Hears(o)
      BY <1>7, <2>2 DEF Hears, Without
    <3>. QED  BY <3>1, <3>2, <3>3
  <2>3. CASE /\ h.stage = "waiting" /\ x.stage = "ok" /\ x.acks = {}
             /\ Cardinality(h.acks \cup {a}) >= h.need
             /\ x.asked = IF h.type \in Reads THEN {} ELSE h.asked
             /\ x.seq = IF h.type = "GET" THEN Newest(h.acks \cup {a}) ELSE h.seq
    <3>1. x.asked \subseteq h.asked
      BY <2>3
    <3>2. Continues(ops[o], x)
      BY <1>8, <2>3, <3>1 DEF Continues, Without, Replies
    <3>3. Answered(x)
      BY <1>1, <1>8, <2>3, <3>1 DEF Answered, Without, Replies
    <3>4. ops'[o] = x => Hears(o)
      BY <1>7, <1>8, <2>3, <3>1 DEF Hears, Without
    <3>. QED  BY <3>2, <3>3, <3>4
  <2>. QED  BY <1>2, <2>1, <2>2, <2>3 DEF Counts
<1>. QED  BY <1>2, <1>3, <1>9, OneGoesOn

(* The steps that are left while membership does not change. *)
CalmStep ==
  \/ UNCHANGED vars
  \/ \E c \in Clients, f \in Files, type \in Types : FetchSequence(c, type, f)
  \/ \E o \in DOMAIN ops :
       \/ RouteTask(o) \/ Timeout(o)
       \/ \E s \in Servers : \/ RequestFails(o, s) \/ Write(o, s) \/ Read(o, s)
                            \/ Delete(o, s) \/ Lookup(o, s)
  \/ \E w \in storing : WriteSDFSFile(w) \/ WriteFails(w)
  \/ \E s \in Servers : Recycle(s)

(* No other is possible. *)
LEMMA OnlyCalmSteps ==
  ASSUME TypeInv, changes = 0, Settled, [Next]_vars, changes' = 0
  PROVE  CalmStep
<1>1. \A s \in Servers : ~Crash(s) /\ \A t \in Servers : ~Join(s, t)
  BY DEF Crash, Join
<1>2. \A s \in Servers : ~OnMemberUpdate(s) /\ ~Converge(s) /\ ~Converged(s)
  BY DEF Settled, OnMemberUpdate, Converge, Converged
<1>3. \A s, t \in Servers : ~Insert(s, t) /\ ~Suspect(s, t) /\ ~Expire(s, t)
  BY DEF Settled, Insert, Suspect, Expire
<1>4. \A s \in Servers : transfers[s] = {}
  BY DEF Settled
<1>5. ASSUME NEW c \in Clients, NEW f \in Files, Put(c, f) \/ Get(c, f) \/ DeleteFile(c, f) \/ List(c, f)
      PROVE  CalmStep
  BY <1>5 DEF CalmStep, Put, Get, DeleteFile, List, Types
<1>6. CASE UNCHANGED vars
  BY <1>6 DEF CalmStep
<1>7. CASE Next
  BY <1>1, <1>2, <1>3, <1>4, <1>5, <1>7 DEF Next, CalmStep
<1>. QED  BY <1>6, <1>7

(* They leave membership and the hash rings as they are. *)
LEMMA SettledStep ==
  ASSUME TypeInv, Settled, CalmStep
  PROVE  Settled'
<1>1. CASE UNCHANGED <<up, members, suspects, callbacks, signal, converging, transfers, hashRing>>
  BY <1>1 DEF Settled
<1>2. ASSUME NEW s \in Servers, Recycle(s) PROVE Settled'
  <2> DEFINE hr == RingOf(hashRing[s], members[s])
  <2>1. /\ s \in up /\ (hashRing' = [hashRing EXCEPT ![s] = hr] \/ hashRing' = hashRing)
        /\ UNCHANGED <<up, members, suspects, callbacks, signal, converging, transfers>>
    BY <1>2 DEF Recycle, ringVars
  <2>2. s \in Founding /\ members[s] = Founding /\ hashRing[s] = FoundingRing
    BY <2>1 DEF Settled
  <2>3. hr = FoundingRing
    BY <2>2 DEF RingOf, FoundingRing
  <2> HIDE DEF hr
  <2>4. hashRing \in [Servers -> Seq(Node)]
    BY DEF TypeInv, TypeOK, Node
  <2>5. \A t \in Founding : hashRing'[t] = FoundingRing
    BY <2>1, <2>3, <2>4, JoinTimeAssumption DEF Settled
  <2>. QED  BY <2>1, <2>5 DEF Settled
<1>3. ASSUME NEW c \in Clients, NEW f \in Files, NEW type \in Types, FetchSequence(c, type, f)
      PROVE  Settled'
  BY <1>1, <1>3 DEF FetchSequence, ringVars
<1>4. ASSUME NEW o \in DOMAIN ops,
             \/ RouteTask(o) \/ Timeout(o)
             \/ \E s \in Servers : \/ RequestFails(o, s) \/ Write(o, s) \/ Read(o, s)
                                  \/ Delete(o, s) \/ Lookup(o, s)
      PROVE  Settled'
  BY <1>1, <1>4 DEF RouteTask, Timeout, RequestFails, Write, Read, Delete, Lookup, ringVars, serverVars
<1>5. ASSUME NEW w \in storing, WriteSDFSFile(w) \/ WriteFails(w) PROVE Settled'
  BY <1>1, <1>5 DEF WriteSDFSFile, WriteFails, ringVars
<1>6. CASE UNCHANGED vars
  BY <1>1, <1>6 DEF vars, ringVars, serverVars
<1>. QED  BY <1>2, <1>3, <1>4, <1>5, <1>6 DEF CalmStep

(* Steps that change no file table, start no Write and delete no file. *)
LEMMA OnlyCommands ==
  ASSUME TypeInv, UNCHANGED <<table, trash>>, storing' \subseteq storing,
         \A s \in Servers : disk[s] \subseteq disk'[s] /\ counter[s] <= counter'[s],
         DOMAIN ops \subseteq DOMAIN ops', \A o \in DOMAIN ops' : o \in DOMAIN ops \/ Begins(o),
         \A o \in DOMAIN ops : Continues(ops[o], ops'[o]) /\ Answered(ops'[o]) /\ Hears(o)
  PROVE  Onward
<1>1. \A f \in Files : Replicas(f) \subseteq Servers
  BY FoundingReplicas
<1>2. \A f \in Files : \A s \in Replicas(f) : Keeps(s, f)
  BY <1>1 DEF Keeps
<1>. QED  BY <1>2 DEF Onward

(* Steps that change no more than commands. *)
LEMMA NothingStored ==
  ASSUME TypeInv, UNCHANGED <<table, storing, disk, trash, counter>>
  PROVE  /\ UNCHANGED <<table, trash>> /\ storing' \subseteq storing
         /\ \A s \in Servers : disk[s] \subseteq disk'[s] /\ counter[s] <= counter'[s]
<1>1. \A s \in Servers : counter[s] \in Nat
  BY DEF TypeInv, TypeOK
<1>. QED  BY <1>1

(* A command begins. *)
LEMMA FetchOnward ==
  ASSUME TypeInv, Commanded, NEW c \in Clients, NEW f \in Files, NEW type \in Types,
         FetchSequence(c, type, f)
  PROVE  Onward
<1>1. PICK op \in Command :
        /\ ops' = Append(ops, op) /\ op.stage = "fetched" /\ op.asked = {} /\ op.acks = {}
        /\ op.before = {o \in DOMAIN ops : ops[o].stage = "ok"}
        /\ op.seq = NextSequence(LookupLeader(c))
  BY FetchType
<1>2. ops \in Seq(Command)
  BY DEF TypeInv
<1>3. /\ DOMAIN ops \subseteq DOMAIN ops' /\ DOMAIN ops' = DOMAIN ops \cup {Len(ops) + 1}
      /\ ops'[Len(ops) + 1] = op /\ \A o \in DOMAIN ops : ops'[o] = ops[o]
  BY <1>1, <1>2
<1>4. \A o \in DOMAIN ops : Continues(ops[o], ops'[o]) /\ Answered(ops'[o]) /\ Hears(o)
  BY <1>3, LeftAlone
<1>5. PICK l \in Servers : /\ counter' = [counter EXCEPT ![l] = @ + 1]
                           /\ op.seq = [time |-> JoinTime[l], count |-> counter[l] + 1]
  <2>1. LookupLeader(c) \in Servers
    BY DEF FetchSequence, TypeInv, TypeOK
  <2>. QED  BY <1>1, <1>2, <2>1 DEF FetchSequence, NextSequence
<1>6. counter \in [Servers -> Nat]
  BY DEF TypeInv, TypeOK
<1>7. counter'[l] = counter[l] + 1 /\ \A s \in Servers : counter[s] <= counter'[s]
  BY <1>5, <1>6
<1>8. Begins(Len(ops) + 1)
  BY <1>1, <1>3, <1>5, <1>7 DEF Begins
<1>9. UNCHANGED <<table, storing, disk, trash>>
  BY DEF FetchSequence
<1>. QED  BY <1>3, <1>4, <1>7, <1>8, <1>9, OnlyCommands

(* x is the command o with a request to every replica, if the client read  *)
(* a whole hash ring.                                                      *)
RoutedAs(o, x) ==
  /\ ops' = [ops EXCEPT ![o] = x] /\ x.type = ops[o].type /\ x.file = ops[o].file
  /\ x.before = ops[o].before /\ x.acks = {} /\ x.seq = ops[o].seq
  /\ x.stage \in {"failed", "waiting"}
  /\ x.whole => /\ ops[o].whole /\ x.asked = Replicas(x.file)
                /\ x.stage = "waiting" =>
                    x.need = Min2(Level(x.type), Len(FoundingRing)) /\ x.need > 0

LEMMA RouteIs ==
  ASSUME TypeInv, Settled, Commanded, NEW o \in DOMAIN ops, RouteTask(o)
  PROVE  \E x \in Command : RoutedAs(o, x)
<1> DEFINE c == ops[o].client
<1>1. ops[o] \in Command /\ Answered(ops[o]) /\ members \in [Servers -> SUBSET Servers]
  BY DEF TypeInv, TypeOK, Commanded
<1>2. ops[o].file \in Files /\ ops[o].type \in Types /\ c \in Servers /\ members[c] \in SUBSET Servers
  BY <1>1 DEF Command, Op
<1>3. ops[o].stage = "fetched" /\ c \in up
  BY DEF RouteTask
<1>4. ops[o].acks = {} /\ hashRing[c] = FoundingRing /\ FoundingRing \in Seq(Node)
  BY <1>1, <1>2, <1>3, FoundingReplicas DEF Answered, Settled
<1>5. \E x \in Command : RoutedAs(o, x)
  <2>1. CASE ops' = [ops EXCEPT ![o] = Routed(@, hashRing[c], hashRing[c])]
    <3> DEFINE x == Routed(ops[o], FoundingRing, FoundingRing)
    <3>1. /\ x \in Command /\ SameCommand(x, ops[o]) /\ x.acks = {} /\ x.seq = ops[o].seq
          /\ x.need = GetConsistencyLevel(ops[o].type, FoundingRing)
          /\ x.stage = IF x.need = 0 THEN "failed" ELSE "waiting"
          /\ x.asked = FindReplicas(FoundingRing, ops[o].file, REPLICA_COUNT)
      BY <1>1, <1>4, RoutedIs
    <3>2. ops' = [ops EXCEPT ![o] = x]
      BY <1>4, <2>1
    <3> HIDE DEF x
    <3>3. x.need \in Nat
      BY <3>1 DEF Command, Op
    <3>4. x.type = ops[o].type /\ x.file = ops[o].file /\ x.before = ops[o].before /\ x.whole = ops[o].whole
      BY <3>1 DEF SameCommand
    <3>5. x.asked = Replicas(x.file) /\ x.need = Min2(Level(x.type), Len(FoundingRing))
      BY <3>1, <3>4 DEF Replicas, GetConsistencyLevel
    <3>6. x.stage \in {"failed", "waiting"} /\ (x.stage = "waiting" => x.need > 0)
      BY <3>1, <3>3
    <3>7. x \in Command /\ x.acks = {} /\ x.seq = ops[o].seq
      BY <3>1
    <3>. QED  BY <3>2, <3>4, <3>5, <3>6, <3>7 DEF RoutedAs
  <2>2. CASE \E k \in 0 .. Cardinality(members[c]) - 1 : \E more \in k .. Cardinality(members[c]) :
               ops' = [ops EXCEPT ![o] =
                 [Routed(@, SubSeq(Place(Sorted(members[c])), 1, k),
                            SubSeq(Place(Sorted(members[c])), 1, more)) EXCEPT !.whole = FALSE]]
    <3> DEFINE part(k) == SubSeq(Place(Sorted(members[c])), 1, k)
    <3>1. PICK k \in 0 .. Cardinality(members[c]) - 1 : \E more \in k .. Cardinality(members[c]) :
            ops' = [ops EXCEPT ![o] = [Routed(@, part(k), part(more)) EXCEPT !.whole = FALSE]]
      BY <2>2
    <3>2. PICK more \in k .. Cardinality(members[c]) :
            ops' = [ops EXCEPT ![o] = [Routed(@, part(k), part(more)) EXCEPT !.whole = FALSE]]
      BY <3>1
    <3>3. Cardinality(members[c]) \in Nat
      BY <1>2, SortedIs
    <3>4. k \in 0 .. Cardinality(members[c]) /\ more \in 0 .. Cardinality(members[c])
      BY <3>3
    <3>5. part(k) \in Seq(Node) /\ part(more) \in Seq(Node)
      BY <1>2, <3>4, PlacedIs
    <3> HIDE DEF part, c
    <3> DEFINE y == Routed(ops[o], part(k), part(more))
               x == [y EXCEPT !.whole = FALSE]
    <3>6. /\ y \in Command /\ SameCommand(y, ops[o]) /\ y.acks = ops[o].acks /\ y.seq = ops[o].seq
          /\ y.stage = IF y.need = 0 THEN "failed" ELSE "waiting"
      BY <1>1, <3>5, RoutedIs
    <3>7. ops' = [ops EXCEPT ![o] = x]
      BY <3>2
    <3> HIDE DEF y
    <3>8. /\ x \in Command /\ ~x.whole /\ x.acks = y.acks /\ x.seq = y.seq /\ x.stage = y.stage
          /\ x.type = y.type /\ x.file = y.file /\ x.before = y.before
      BY <3>6, HalfIs
    <3> HIDE DEF x
    <3>9. x.type = ops[o].type /\ x.file = ops[o].file /\ x.before = ops[o].before
      BY <3>6, <3>8 DEF SameCommand
    <3>10. x.stage \in {"failed", "waiting"} /\ x.acks = {} /\ x.seq = ops[o].seq
      BY <1>4, <3>6, <3>8
    <3>. QED  BY <3>7, <3>8, <3>9, <3>10 DEF RoutedAs
  <2>. QED  BY <2>1, <2>2 DEF RouteTask
<1>. QED  BY <1>5

(* A command is routed. *)
LEMMA RouteOnward ==
  ASSUME TypeInv, Settled, Commanded, NEW o \in DOMAIN ops, RouteTask(o)
  PROVE  Onward
<1>1. ops[o].stage = "fetched"
  BY DEF RouteTask
<1>2. PICK x \in Command : RoutedAs(o, x)
  BY RouteIs
<1>3. Continues(ops[o], x) /\ Answered(x) /\ (ops'[o] = x => Hears(o))
  <2>1. Continues(ops[o], x)
    BY <1>1, <1>2 DEF Continues, RoutedAs
  <2>2. Answered(x)
    BY <1>2 DEF Answered, RoutedAs
  <2>3. ops'[o] = x => Hears(o)
    BY <1>2 DEF Hears, RoutedAs
  <2>. QED  BY <2>1, <2>2, <2>3
<1>4. /\ DOMAIN ops' = DOMAIN ops
      /\ \A q \in DOMAIN ops : Continues(ops[q], ops'[q]) /\ Answered(ops'[q]) /\ Hears(q)
  BY <1>2, <1>3, OneGoesOn DEF RoutedAs
<1>5. UNCHANGED <<table, storing, disk, trash, counter>>
  BY DEF RouteTask, serverVars
<1>. QED  BY <1>4, <1>5, NothingStored, OnlyCommands

(* A command gives up. *)
LEMMA TimeoutOnward ==
  ASSUME TypeInv, Commanded, NEW o \in DOMAIN ops, Timeout(o)
  PROVE  Onward
<1> DEFINE stage == IF ops[o].type \in Reads THEN "notfound" ELSE "failed"
           x == Finish(ops[o], stage)
<1>1. ops[o] \in Command /\ Answered(ops[o]) /\ changes \in 0 .. MaxChanges
  BY DEF TypeInv, TypeOK, Commanded
<1>2. /\ ops[o].stage = "waiting" /\ ops' = [ops EXCEPT ![o] = x]
      /\ UNCHANGED <<table, storing, disk, trash, counter>>
  BY DEF Timeout, serverVars
<1>3. /\ x \in Command /\ SameCommand(x, ops[o]) /\ x.stage = stage /\ x.acks = {}
      /\ x.asked = IF ops[o].type \in Reads THEN {} ELSE ops[o].asked
      /\ x.seq = IF ops[o].type = "GET" /\ stage = "ok" THEN Newest(ops[o].acks) ELSE ops[o].seq
  BY <1>1, FinishIs
<1>4. stage \in {"notfound", "failed"}
  OBVIOUS
<1> HIDE DEF x, stage
<1>5. x.asked \subseteq ops[o].asked /\ x.seq = ops[o].seq
  BY <1>3, <1>4
<1>6. Continues(ops[o], x)
  BY <1>2, <1>3, <1>4, <1>5 DEF Continues, SameCommand
<1>7. Answered(x)
  BY <1>1, <1>3, <1>4, <1>5 DEF Answered, SameCommand
<1>8. ops'[o] = x => Hears(o)
  BY <1>3, <1>4 DEF Hears
<1>9. /\ DOMAIN ops' = DOMAIN ops
      /\ \A q \in DOMAIN ops : Continues(ops[q], ops'[q]) /\ Answered(ops'[q]) /\ Hears(q)
  BY <1>2, <1>3, <1>6, <1>7, <1>8, OneGoesOn
<1>. QED  BY <1>2, <1>9, NothingStored, OnlyCommands

(* A request fails: nobody answers it, and nobody handles it later. *)
LEMMA RequestFailsOnward ==
  ASSUME TypeInv, Commanded, NEW o \in DOMAIN ops, NEW s \in Servers, RequestFails(o, s)
  PROVE  Onward
<1>1. /\ s \in ops[o].asked /\ ops' = [ops EXCEPT ![o] = Handled(@, s)]
      /\ UNCHANGED <<table, storing, disk, trash, counter>>
  BY DEF RequestFails, serverVars
<1>. QED  BY <1>1, Handling, NothingStored, OnlyCommands

(* A server handles a request, not of a Put, and answers. *)
LEMMA Replying ==
  ASSUME TypeInv, Commanded, NEW o \in DOMAIN ops, NEW s \in Servers, s \in ops[o].asked, NEW seq \in Seqs,
         ops' = [ops EXCEPT ![o] = Acknowledged(Handled(@, s), s, seq)],
         ops[o].type # "PUT",
         ops[o].type = "GET" => /\ table[s][ops[o].file] # {}
                                /\ \A v \in table[s][ops[o].file] : ~Less(seq, v.seq),
         ops[o].type = "DELETE" => table'[s][ops[o].file] = {}
  PROVE  /\ DOMAIN ops' = DOMAIN ops
         /\ \A q \in DOMAIN ops : Continues(ops[q], ops'[q]) /\ Answered(ops'[q]) /\ Hears(q)
<1> DEFINE h == Handled(ops[o], s)
<1>1. ops[o] \in Command /\ Answered(ops[o])
  BY DEF TypeInv, Commanded
<1>2. /\ h \in Command /\ SameCommand(h, ops[o]) /\ h.stage = ops[o].stage /\ h.seq = ops[o].seq
      /\ h.asked = ops[o].asked \ {s} /\ h.acks = ops[o].acks /\ h.need = ops[o].need
  BY <1>1, HandledIs
<1>3. ops' = [ops EXCEPT ![o] = Acknowledged(h, s, seq)]
  OBVIOUS
<1> HIDE DEF h
<1>4. /\ ops[o].stage # "fetched"
      /\ ops[o].whole => s \in Replicas(ops[o].file)
      /\ \A b \in ops[o].acks : b.from # s
  BY <1>1 DEF Answered
<1>5. Without(h, o, s)
  BY <1>2 DEF Without
<1>6. Replies(o, s, seq)
  BY <1>4 DEF Replies, WholePut
<1>. QED  BY <1>3, <1>5, <1>6, Answering

(* A server answers a Get with its latest version, or not at all. *)
LEMMA ReadOnward ==
  ASSUME TypeInv, Commanded, NEW o \in DOMAIN ops, NEW s \in Servers, Read(o, s) \/ Lookup(o, s)
  PROVE  Onward
<1>1. ops[o] \in Command
  BY DEF TypeInv
<1>2. /\ ops[o].file \in Files /\ s \in ops[o].asked
      /\ UNCHANGED <<table, storing, disk, trash, counter>>
  BY <1>1 DEF Command, Op, Read, Lookup, Asked, serverVars
<1>3. CASE ops' = [ops EXCEPT ![o] = Handled(@, s)]
  BY <1>2, <1>3, Handling, NothingStored, OnlyCommands
<1>4. CASE Read(o, s) /\ HasFile(s, ops[o].file)
           /\ ops' = [ops EXCEPT ![o] = Acknowledged(Handled(@, s), s, Latest(s, ops[o].file).seq)]
  <2>1. /\ Latest(s, ops[o].file).seq \in Seqs
        /\ \A v \in table[s][ops[o].file] : ~Less(Latest(s, ops[o].file).seq, v.seq)
    BY <1>2, <1>4, LatestIs
  <2>2. ops[o].type = "GET" /\ table[s][ops[o].file] # {} /\ ~WholePut(o)
    BY <1>4 DEF Read, HasFile, WholePut
  <2>3. /\ DOMAIN ops' = DOMAIN ops
        /\ \A q \in DOMAIN ops : Continues(ops[q], ops'[q]) /\ Answered(ops'[q]) /\ Hears(q)
    BY <1>2, <1>4, <2>1, <2>2, Replying
  <2>. QED  BY <1>2, <2>3, NothingStored, OnlyCommands
<1>5. CASE Lookup(o, s) /\ ops' = [ops EXCEPT ![o] = Acknowledged(Handled(@, s), s, NoSeq)]
  <2>1. ops[o].type = "LIST" /\ ~WholePut(o)
    BY <1>5 DEF Lookup, WholePut
  <2>2. /\ DOMAIN ops' = DOMAIN ops
        /\ \A q \in DOMAIN ops : Continues(ops[q], ops'[q]) /\ Answered(ops'[q]) /\ Hears(q)
    BY <1>2, <1>5, <2>1, NoSeqIs, Replying
  <2>. QED  BY <1>2, <2>2, NothingStored, OnlyCommands
<1>6. CASE Read(o, s)
  BY <1>3, <1>4, <1>6 DEF Read
<1>7. CASE Lookup(o, s)
  BY <1>3, <1>5, <1>7 DEF Lookup
<1>. QED  BY <1>6, <1>7

(* A server discards the versions of a file that is deleted. *)
LEMMA DeleteOnward ==
  ASSUME TypeInv, Commanded, NEW o \in DOMAIN ops, NEW s \in Servers, Delete(o, s)
  PROVE  Onward
<1> DEFINE f == ops[o].file
<1>1. ops[o] \in Command
  BY DEF TypeInv
<1>2. f \in Files /\ ops[o].type = "DELETE" /\ s \in ops[o].asked /\ ~WholePut(o)
  BY <1>1 DEF Command, Op, Delete, Asked, WholePut
<1>3. /\ table' = [table EXCEPT ![s][f] = {}] /\ UNCHANGED <<storing, disk, counter>>
      /\ trash' = [trash EXCEPT ![s] = @ \cup Names(s, {f})]
      /\ ops' = [ops EXCEPT ![o] = Acknowledged(Handled(@, s), s, NoSeq)]
  BY DEF Delete, Discard
<1>4. {} \in Versions
  BY FS_EmptySet DEF Versions
<1>5. table'[s][f] = {} /\ \A t \in Servers, g \in Files : t # s \/ g # f => table'[t][g] = table[t][g]
  BY <1>2, <1>3, <1>4, TableType
<1>6. /\ DOMAIN ops' = DOMAIN ops
      /\ \A q \in DOMAIN ops : Continues(ops[q], ops'[q]) /\ Answered(ops'[q]) /\ Hears(q)
  BY <1>2, <1>3, <1>5, NoSeqIs, Replying
<1>7. \A t \in Servers, g \in Files : table'[t][g] \subseteq table[t][g]
  BY <1>5
<1>8. ASSUME NEW g \in Files, Kept(g), NEW t \in Replicas(g) PROVE Keeps(t, g)
  <2>1. t \in Servers /\ g # f
    BY <1>2, <1>8, FoundingReplicas DEF Kept
  <2>2. \A x \in Names(s, {f}) : x.file = f
    BY DEF Names
  <2>3. trash \in [Servers -> SUBSET Stored]
    BY DEF TypeInv, TypeOK
  <2>4. \A x \in trash'[t] : x \in trash[t] \/ x.file = f
    BY <1>3, <2>1, <2>2, <2>3
  <2>. QED  BY <1>3, <1>5, <2>1, <2>4 DEF Keeps
<1>9. \A t \in Servers : counter[t] <= counter'[t]
  BY <1>3 DEF TypeInv, TypeOK
<1>. QED  BY <1>3, <1>6, <1>7, <1>8, <1>9 DEF Onward

(* A server that handles a Put does not have its version already, having   *)
(* been asked once.                                                        *)
LEMMA AskedOnce ==
  ASSUME TypeInv, Written, Numbered, NEW o \in DOMAIN ops, NEW s \in Servers, Write(o, s)
  PROVE  Insertable(s, ops[o].file, [seq |-> ops[o].seq, id |-> o])
<1>1. ops[o] \in Command
  BY DEF TypeInv
<1>2. ops[o].file \in Files /\ ops[o].type = "PUT" /\ s \in ops[o].asked
  BY <1>1 DEF Command, Op, Write, Asked
<1> SUFFICES ASSUME NEW u \in table[s][ops[o].file], u.id = o \/ u.seq = ops[o].seq
             PROVE  FALSE
  BY DEF Insertable
<1>3. u.id \in DOMAIN ops /\ ops[u.id].type = "PUT" /\ ops[u.id].seq = u.seq
  BY <1>2 DEF Written
<1>4. u.id = o
  BY <1>2, <1>3 DEF Numbered
<1>. QED  BY <1>2, <1>4 DEF Numbered

(* A server puts a version into its file table and starts to store it. *)
LEMMA WriteOnward ==
  ASSUME TypeInv, Commanded, Written, Numbered, NEW o \in DOMAIN ops, NEW s \in Servers, Write(o, s)
  PROVE  Onward
<1> DEFINE f == ops[o].file
           v == [seq |-> ops[o].seq, id |-> o]
           w == [at |-> s, file |-> f, seq |-> ops[o].seq, op |-> o, by |-> ops[o].client]
<1>1. ops[o] \in Command /\ Answered(ops[o]) /\ o \in Nat
  BY DEF TypeInv, Commanded
<1>2. f \in Files /\ ops[o].seq \in Seqs /\ ops[o].type = "PUT" /\ s \in ops[o].asked
  BY <1>1 DEF Command, Op, Write, Asked
<1>3. Insertable(s, f, v)
  BY AskedOnce
<1>4. /\ table' = [table EXCEPT ![s][f] = table[s][f] \cup {v}] /\ storing' = storing \cup {w}
      /\ ops' = [ops EXCEPT ![o] = Handled(@, s)] /\ UNCHANGED <<disk, trash, counter>>
  BY <1>3 DEF Write
<1>5. table[s][f] \cup {v} \in Versions
  <2>1. v \in Version /\ table[s][f] \in Versions
    BY <1>1, <1>2 DEF Version, TypeInv
  <2>. QED  BY <2>1, VersionsGrow
<1>6. /\ table'[s][f] = table[s][f] \cup {v}
      /\ \A t \in Servers, g \in Files : t # s \/ g # f => table'[t][g] = table[t][g]
  BY <1>2, <1>4, <1>5, TableType
<1>7. /\ DOMAIN ops' = DOMAIN ops /\ ops[o].stage # "fetched" /\ s \notin ops'[o].asked
      /\ \A q \in DOMAIN ops : Continues(ops[q], ops'[q]) /\ Answered(ops'[q]) /\ Hears(q)
  BY <1>2, <1>4, Handling
<1>8. v.id = o /\ v.seq = ops[o].seq
  OBVIOUS
<1>9. w.at = s /\ w.file = f /\ w.seq = ops[o].seq /\ w.op = o
  OBVIOUS
<1>10. Arrives(v, s, f)
  BY <1>2, <1>7, <1>8 DEF Arrives
<1>11. Starts(w)
  <2>1. ops[o].whole => s \in Replicas(f)
    BY <1>1, <1>2 DEF Answered
  <2>2. \E u \in table'[s][f] : u.seq = ops[o].seq
    BY <1>6, <1>8
  <2> HIDE DEF w, f
  <2>. QED  BY <1>2, <1>7, <1>9, <2>1, <2>2 DEF Starts, f
<1> HIDE DEF v, w
<1>12. \A t \in Servers, g \in Files : \A u \in table'[t][g] : u \in table[t][g] \/ Arrives(u, t, g)
  BY <1>6, <1>10
<1>13. \A g \in Files : \A t \in Replicas(g) : Keeps(t, g)
  <2>1. \A g \in Files : Replicas(g) \subseteq Servers
    BY FoundingReplicas
  <2>. QED  BY <1>4, <1>6, <2>1 DEF Keeps
<1>14. \A t \in Servers : counter[t] <= counter'[t]
  BY <1>4 DEF TypeInv, TypeOK
<1>. QED  BY <1>4, <1>7, <1>11, <1>12, <1>13, <1>14 DEF Onward

(* A Write ends. *)
LEMMA StoreOnward ==
  ASSUME TypeInv, Commanded, Written, PutsHeld, NEW w \in storing, WriteSDFSFile(w) \/ WriteFails(w)
  PROVE  Onward
<1>0. storing' \subseteq storing /\ UNCHANGED <<table, trash>>
  BY DEF WriteSDFSFile, WriteFails
<1>1. \A s \in Servers : disk[s] \subseteq disk'[s] /\ counter[s] <= counter'[s]
  <2>1. /\ UNCHANGED counter
        /\ \/ disk' = [disk EXCEPT ![w.at] = @ \cup {[file |-> w.file, seq |-> w.seq]}]
           \/ disk' = disk
    BY DEF WriteSDFSFile, WriteFails
  <2>2. /\ disk \in [Servers -> SUBSET Stored] /\ counter \in [Servers -> Nat] /\ w.at \in Servers
    BY DEF TypeInv, TypeOK
  <2>3. \A s \in Servers : disk[s] \subseteq disk'[s]
    BY <2>1, <2>2
  <2>. QED  BY <2>1, <2>2, <2>3
<1>2. /\ w.op \in DOMAIN ops /\ ops[w.op].type = "PUT" /\ ops[w.op].file = w.file
      /\ ops[w.op].seq = w.seq /\ ops[w.op].stage # "fetched" /\ w.at \notin ops[w.op].asked
      /\ ops[w.op].whole => w.at \in Replicas(ops[w.op].file)
  BY DEF Written
<1>3. CASE /\ ops' = [ops EXCEPT ![w.op] = Acknowledged(@, w.at, w.seq)]
           /\ disk' = [disk EXCEPT ![w.at] = @ \cup {[file |-> w.file, seq |-> w.seq]}]
  <2>1. ops[w.op] \in Command /\ Answered(ops[w.op])
    BY <1>2 DEF TypeInv, Commanded
  <2>2. w.at \in Servers /\ w.seq \in Seqs
    BY DEF TypeInv, TypeOK
  <2>3. WholePut(w.op) /\ Undeleted(w.op) => Holds(w.at, w.op)
    BY <1>2 DEF PutsHeld
  <2>4. \A b \in ops[w.op].acks : b.seq = w.seq
    BY <1>2, <2>1 DEF Answered
  <2>5. SameCommand(ops[w.op], ops[w.op])
    BY DEF SameCommand
  <2>6. ops' = [ops EXCEPT ![w.op] = Acknowledged(ops[w.op], w.at, w.seq)]
    BY <1>3
  <2>7. Without(ops[w.op], w.op, w.at)
    BY <1>2, <2>1, <2>5 DEF Without
  <2>8. Replies(w.op, w.at, w.seq)
    <3>1. Persisted(w.at, w.op)
      BY <1>2, <1>3, <2>2 DEF Persisted, TypeInv, TypeOK
    <3>. QED  BY <1>2, <2>2, <2>3, <2>4, <3>1 DEF Replies
  <2>9. /\ DOMAIN ops' = DOMAIN ops
        /\ \A q \in DOMAIN ops : Continues(ops[q], ops'[q]) /\ Answered(ops'[q]) /\ Hears(q)
    BY <1>2, <2>6, <2>7, <2>8, Answering
  <2>. QED  BY <1>0, <1>1, <2>9, OnlyCommands
<1>4. CASE ops' = ops
  BY <1>0, <1>1, <1>4, LeftAlone, OnlyCommands
<1>. QED  BY <1>3, <1>4 DEF WriteSDFSFile, WriteFails

(* Recycle drops the files that the server is no replica of, and deletes   *)
(* from the disk what is in the trash.                                     *)
LEMMA RecycleOnward ==
  ASSUME TypeInv, Settled, Commanded, NotInTrash, NEW s \in Servers, Recycle(s)
  PROVE  Onward
<1> DEFINE hr == RingOf(hashRing[s], members[s])
           dropped == IF Stable(s) THEN NoReplicaOf(s, hr) ELSE {}
<1>1. /\ s \in up /\ table' = [table EXCEPT ![s] = [f \in Files |-> IF f \in dropped THEN {} ELSE @[f]]]
      /\ UNCHANGED <<storing, ops, counter>>
  BY DEF Recycle
<1>2. members[s] = Founding /\ hashRing[s] = FoundingRing
  BY <1>1 DEF Settled
<1>3. hr = FoundingRing
  BY <1>2 DEF RingOf, FoundingRing
<1>4. \A f \in dropped : s \notin Replicas(f)
  BY <1>3 DEF NoReplicaOf, Replicas
<1> HIDE DEF hr, dropped
<1>5. table \in [Servers -> [Files -> Versions]]
  BY DEF TypeInv
<1>6. \A t \in Servers, f \in Files :
        table'[t][f] = IF t = s /\ f \in dropped THEN {} ELSE table[t][f]
  BY <1>1, <1>5
<1>7. \A f \in Files : Replicas(f) \subseteq Servers
  BY FoundingReplicas
<1>8. \A f \in Files : \A t \in Replicas(f) : table'[t][f] = table[t][f]
  BY <1>4, <1>6, <1>7
<1>9. \A o \in DOMAIN ops : Continues(ops[o], ops'[o]) /\ Answered(ops'[o]) /\ Hears(o)
  BY <1>1, LeftAlone
<1>10. \A t \in Servers, f \in Files : table'[t][f] \subseteq table[t][f]
  BY <1>6
<1>11. PICK deleted \in SUBSET trash[s] :
         /\ disk' = [disk EXCEPT ![s] = @ \ deleted]
         /\ trash' = [trash EXCEPT ![s] = (@ \ deleted) \cup Names(s, dropped)]
  BY DEF Recycle, hr, dropped
<1>12. disk \in [Servers -> SUBSET Stored] /\ trash \in [Servers -> SUBSET Stored]
  BY DEF TypeInv, TypeOK
<1>13. \A x \in Names(s, dropped) : x.file \in dropped
  BY DEF Names
<1>14. ASSUME NEW f \in Files, Kept(f), NEW t \in Replicas(f) PROVE Keeps(t, f)
  <2>1. t \in Servers /\ \A x \in trash[t] : x.file # f
    BY <1>7, <1>14 DEF NotInTrash
  <2>2. \A x \in disk[t] : x.file = f => x \in disk'[t]
    BY <1>11, <1>12, <2>1
  <2>3. \A x \in trash'[t] : x \in trash[t] \/ (t = s /\ x.file \in dropped)
    BY <1>11, <1>12, <1>13, <2>1
  <2>. QED  BY <1>4, <1>8, <2>2, <2>3 DEF Keeps
<1>15. \A t \in Servers : counter[t] <= counter'[t]
  BY <1>1 DEF TypeInv, TypeOK
<1>. QED  BY <1>1, <1>9, <1>10, <1>14, <1>15 DEF Onward

-----------------------------------------------------------------------------
(* The invariant *)

(* The invariant with what it is for: what a Get returned is not part of   *)
(* it, but stays.                                                          *)
Inv == TypeInv /\ QuorumInv /\ GetSeesEarlierPuts

(* The initial state: no command was given. *)
LEMMA QuorumInit == Init => Inv
<1> SUFFICES ASSUME Init PROVE Inv
  OBVIOUS
<1>1. TypeInv
  BY TypeInit
<1>2. /\ ops = <<>> /\ DOMAIN ops = {} /\ storing = {}
      /\ \A s \in Servers, f \in Files : table[s][f] = {}
  BY DEF Init
<1>3. Settled
  <2>1. \A s \in Founding : members[s] = Founding /\ hashRing[s] = FoundingRing
    BY JoinTimeAssumption DEF Init, FoundingRing
  <2>. QED  BY <2>1 DEF Init, Settled
<1>4. Commanded /\ Written
  BY <1>2 DEF Commanded, Written
<1>5. PutsHeld /\ GetsHear /\ DeletesEmpty /\ GetsMiss /\ GetSeesEarlierPuts
  BY <1>2 DEF PutsHeld, GetsHear, DeletesEmpty, GetsMiss, GetSeesEarlierPuts
<1>6. Numbered /\ PutsStored
  BY <1>2 DEF Numbered, PutsStored
<1>7. NotInTrash
  <2>1. \A f \in Files : Replicas(f) \subseteq Servers
    BY FoundingReplicas
  <2>. QED  BY <2>1 DEF NotInTrash, Init
<1>. QED  BY <1>1, <1>3, <1>4, <1>5, <1>6, <1>7 DEF Inv, QuorumInv

(* Every step that is left is as Onward says. *)
LEMMA CalmIsOnward ==
  ASSUME TypeInv, Settled, Commanded, Written, Numbered, PutsHeld, NotInTrash, CalmStep
  PROVE  Onward
<1>1. CASE UNCHANGED vars
  <2>1. UNCHANGED <<table, storing, disk, trash, counter, ops>>
    BY <1>1 DEF vars, serverVars
  <2>. QED  BY <2>1, LeftAlone, NothingStored, OnlyCommands
<1>. QED
  BY <1>1, FetchOnward, RouteOnward, TimeoutOnward, RequestFailsOnward, ReadOnward, DeleteOnward,
     WriteOnward, StoreOnward, RecycleOnward DEF CalmStep

(* Membership changes are counted, and the count does not fall. *)
LEMMA ChangesGrow == TypeInv /\ [Next]_vars /\ changes' = 0 => changes = 0
<1> SUFFICES ASSUME TypeInv, [Next]_vars, changes' = 0 PROVE changes = 0
  OBVIOUS
<1>1. changes \in 0 .. MaxChanges /\ MaxChanges \in Nat
  BY SDFSBoundsAssumption DEF TypeInv, TypeOK
<1>2. CASE UNCHANGED vars
  BY <1>2 DEF vars
<1>3. ASSUME NEW s \in Servers, NEW t \in Servers,
             \/ Crash(s) \/ OnMemberUpdate(s) \/ Recycle(s) \/ Converge(s) \/ Converged(s)
             \/ Join(s, t) \/ Insert(s, t) \/ Suspect(s, t) \/ Expire(s, t)
      PROVE  changes = 0
  BY <1>1, <1>3 DEF Crash, OnMemberUpdate, Recycle, Converge, Converged, Join, Insert, Suspect, Expire
<1>4. ASSUME NEW c \in Clients, NEW f \in Files, Put(c, f) \/ Get(c, f) \/ DeleteFile(c, f) \/ List(c, f)
      PROVE  changes = 0
  BY <1>4 DEF Put, Get, DeleteFile, List, FetchSequence
<1>5. ASSUME NEW o \in DOMAIN ops,
             \/ RouteTask(o) \/ Timeout(o)
             \/ \E s \in Servers : \/ RequestFails(o, s) \/ Write(o, s) \/ Read(o, s)
                                  \/ Delete(o, s) \/ Lookup(o, s)
      PROVE  changes = 0
  BY <1>5 DEF RouteTask, Timeout, RequestFails, Write, Read, Delete, Lookup
<1>6. ASSUME NEW w \in storing, WriteSDFSFile(w) \/ WriteFails(w) PROVE changes = 0
  BY <1>6 DEF WriteSDFSFile, WriteFails
<1>7. ASSUME NEW s \in Servers, NEW j \in transfers[s],
             \/ BulkLookup(s, j)
             \/ \E f \in j.files : GetVersions(s, j, f)
             \/ \E i \in j.items : TransferFile(s, j, i)
      PROVE  changes = 0
  BY <1>7 DEF BulkLookup, GetVersions, TransferFile
<1>8. CASE Next
  BY <1>3, <1>4, <1>5, <1>6, <1>7, <1>8 DEF Next
<1>. QED  BY <1>2, <1>8

(* The invariant is kept by every step. *)
LEMMA QuorumStep == Inv /\ [Next]_vars => Inv'
<1> SUFFICES ASSUME Inv, [Next]_vars PROVE Inv'
  OBVIOUS
<1>1. TypeInv /\ QuorumInv /\ GetSeesEarlierPuts /\ TypeInv'
  BY TypeStep DEF Inv
<1>2. CASE changes' # 0
  BY <1>1, <1>2 DEF Inv, QuorumInv, GetSeesEarlierPuts
<1>3. CASE changes' = 0
  <2>1. changes = 0
    BY <1>1, <1>3, ChangesGrow
  <2>2. /\ Settled /\ Commanded /\ Written /\ PutsHeld /\ GetsHear /\ DeletesEmpty /\ GetsMiss
        /\ Numbered /\ NotInTrash /\ PutsStored
    BY <1>1, <2>1 DEF QuorumInv
  <2>3. CalmStep
    BY <1>1, <1>3, <2>1, <2>2, OnlyCalmSteps
  <2>4. Onward /\ Settled'
    BY <1>1, <2>2, <2>3, CalmIsOnward, SettledStep
  <2>5. Commanded' /\ Written' /\ PutsHeld' /\ GetsHear'
    BY <1>1, <2>2, <2>4, CommandedStep, WrittenStep, PutsHeldStep, GetsHearStep
  <2>6. DeletesEmpty' /\ GetsMiss' /\ GetSeesEarlierPuts'
    BY <1>1, <2>1, <2>2, <2>4, DeletesEmptyStep, GetsMissStep, GetsSeeStep
  <2>7. Numbered' /\ NotInTrash' /\ PutsStored'
    BY <1>1, <2>2, <2>4, NumberedStep, NotInTrashStep, PutsStoredStep
  <2>. QED  BY <1>1, <2>4, <2>5, <2>6, <2>7 DEF Inv, QuorumInv
<1>. QED  BY <1>2, <1>3

(* A Get that succeeds returns a version at least as new as that of every  *)
(* Put that had succeeded before it began, while membership does not       *)
(* change: READ_CONSISTENCY and WRITE_CONSISTENCY of GetConsistencyLevel   *)
(* overlap in every hash ring, one smaller than REPLICA_COUNT too.         *)
THEOREM ReadsSeeWrites == Spec => []GetSeesEarlierPuts
<1>1. Inv => GetSeesEarlierPuts
  BY DEF Inv
<1>. QED  BY <1>1, QuorumInit, QuorumStep, PTL DEF Spec

(* A Delete that succeeded is final for a file with one Put, although      *)
(* replicas may handle their part of the Put after it.                     *)
THEOREM DeletesAreFinal == Spec => []DeletedStaysDeleted
<1>1. Inv => DeletedStaysDeleted
  <2> SUFFICES ASSUME Inv, changes = 0, NEW g \in DOMAIN ops, NEW d \in DOMAIN ops, NEW p \in DOMAIN ops,
                      ops[g].type = "GET", ops[d].type = "DELETE", OnlyPut(p),
                      SameFile(g, d), SameFile(d, p), d \in ops[g].before, p \in ops[d].before,
                      ops[g].whole, ops[d].whole, ops[p].whole
               PROVE  ops[g].stage # "ok"
    BY DEF DeletedStaysDeleted
  <2>1. GetsMiss
    BY DEF Inv, QuorumInv
  <2>2. DeletedPut(d, p)
    BY DEF DeletedPut, WholePut, OnlyPut
  <2>. QED  BY <2>1, <2>2 DEF GetsMiss
<1>. QED  BY <1>1, QuorumInit, QuorumStep, PTL DEF Spec

(* A version whose Put succeeded is on the disk and in the file table of   *)
(* some running server, while membership does not change and the file is   *)
(* not deleted: a server answers a Put only once WriteSDFSFile wrote it,   *)
(* a command of ExecuteTask succeeds only with an answer, and Recycle      *)
(* deletes no version of a file from one of its replicas.                  *)
THEOREM PutsAreDurable == Spec => [](changes = 0 => Durable)
<1>1. Inv => (changes = 0 => Durable)
  <2> SUFFICES ASSUME Inv, changes = 0, NEW p \in DOMAIN ops,
                      ops[p].type = "PUT", ops[p].stage = "ok", ops[p].whole, Undeleted(p)
               PROVE  \E s \in up : OnDisk(s, p) /\ Holds(s, p)
    BY DEF Durable, Succeeded, Undeleted, OnDisk, Holds
  <2>1. TypeInv /\ Settled /\ PutsStored
    BY DEF Inv, QuorumInv
  <2>2. PICK Q \in WriteQuorums(ops[p].file) :
          Q # {} /\ \A s \in Q : Holds(s, p) /\ OnDisk(s, p)
    BY <2>1 DEF PutsStored, WholePut
  <2>3. ops[p] \in Command
    BY <2>1 DEF TypeInv
  <2>4. ops[p].file \in Files
    BY <2>3 DEF Command, Op
  <2>5. Q \subseteq Founding
    BY <2>4, ReplicasFounding DEF WriteQuorums
  <2>. QED  BY <2>1, <2>2, <2>5 DEF Settled
<1>. QED  BY <1>1, QuorumInit, QuorumStep, PTL DEF Spec

-----------------------------------------------------------------------------
(* The numbers of the Puts, whatever servers join and crash *)

(* The commands after a step: the old ones carry on. *)
CarryOn == \A q \in DOMAIN ops : q \in DOMAIN ops' /\ Carries(ops'[q], ops[q])

(* One command changes. *)
LEMMA OneCarriesOn ==
  ASSUME TypeInv, NEW o, NEW x, ops' = [ops EXCEPT ![o] = x],
         o \in DOMAIN ops => x \in Command /\ Carries(x, ops[o])
  PROVE  DOMAIN ops' = DOMAIN ops /\ CarryOn
<1>1. /\ DOMAIN ops' = DOMAIN ops /\ (o \in DOMAIN ops => ops'[o] = x)
      /\ \A q \in DOMAIN ops : q # o => ops'[q] = ops[q]
  BY OneChanges DEF TypeInv
<1>2. \A q \in DOMAIN ops : Carries(ops'[q], ops[q])
  BY <1>1 DEF Carries
<1>. QED  BY <1>1, <1>2 DEF CarryOn

(* A request handled, and an answer. *)
LEMMA AnswerCarries ==
  ASSUME TypeInv, NEW o \in DOMAIN ops, NEW s \in Servers, NEW seq \in Seqs
  PROVE  LET h == Handled(ops[o], s)
             x == Acknowledged(h, s, seq)
             y == Acknowledged(ops[o], s, seq)
         IN  /\ h \in Command /\ Carries(h, ops[o])
             /\ x \in Command /\ Carries(x, ops[o])
             /\ y \in Command /\ Carries(y, ops[o])
<1> DEFINE h == Handled(ops[o], s)
           x == Acknowledged(h, s, seq)
           y == Acknowledged(ops[o], s, seq)
<1>1. ops[o] \in Command /\ changes \in 0 .. MaxChanges
  BY DEF TypeInv, TypeOK
<1>2. h \in Command /\ SameCommand(h, ops[o]) /\ h.seq = ops[o].seq
  BY <1>1, HandledIs
<1>3. /\ x \in Command /\ SameCommand(x, h)
      /\ Counts(x, h, h.acks \cup {[from |-> s, seq |-> seq]})
  <2> HIDE DEF h
  <2>. QED  BY <1>1, <1>2, AcknowledgedIs
<1>4. /\ y \in Command /\ SameCommand(y, ops[o])
      /\ Counts(y, ops[o], ops[o].acks \cup {[from |-> s, seq |-> seq]})
  BY <1>1, AcknowledgedIs
<1> HIDE DEF h, x, y
<1>5. Carries(h, ops[o])
  BY <1>2 DEF Carries, SameCommand
<1>6. Carries(x, h)
  BY <1>3 DEF Carries, SameCommand, Counts
<1>7. Carries(y, ops[o])
  BY <1>4 DEF Carries, SameCommand, Counts
<1>8. Carries(x, ops[o])
  BY <1>5, <1>6 DEF Carries
<1>. QED  BY <1>2, <1>3, <1>4, <1>5, <1>7, <1>8 DEF h, x, y

(* Everything that happens to a command once it has its number. *)
LEMMA CommandCarriesOn ==
  ASSUME TypeInv, NEW o \in DOMAIN ops,
         \/ RouteTask(o) \/ Timeout(o)
         \/ \E s \in Servers : \/ RequestFails(o, s) \/ Write(o, s) \/ Read(o, s)
                              \/ Delete(o, s) \/ Lookup(o, s)
  PROVE  DOMAIN ops' = DOMAIN ops /\ CarryOn
<1>1. \E x \in Command : ops' = [ops EXCEPT ![o] = x] /\ Carries(x, ops[o])
  <2>1. ops[o] \in Command /\ changes \in 0 .. MaxChanges
    BY DEF TypeInv, TypeOK
  <2>2. ops[o].seq \in Seqs /\ ops[o].file \in Files
    BY <2>1 DEF Command, Op
  <2>3. CASE RouteTask(o)
    BY <2>3, RouteType
  <2>4. CASE Timeout(o)
    <3> DEFINE stage == IF ops[o].type \in Reads THEN "notfound" ELSE "failed"
               x == Finish(ops[o], stage)
    <3>1. x \in Command /\ SameCommand(x, ops[o]) /\ x.seq = ops[o].seq
      BY <2>1, FinishIs
    <3>2. ops' = [ops EXCEPT ![o] = x]
      BY <2>4 DEF Timeout
    <3> HIDE DEF x
    <3>. QED  BY <3>1, <3>2 DEF Carries, SameCommand
  <2>5. ASSUME NEW s \in Servers, RequestFails(o, s) \/ Write(o, s)
        PROVE  \E x \in Command : ops' = [ops EXCEPT ![o] = x] /\ Carries(x, ops[o])
    BY <2>2, <2>5, AnswerCarries DEF RequestFails, Write
  <2>6. ASSUME NEW s \in Servers, Delete(o, s) \/ Lookup(o, s)
        PROVE  \E x \in Command : ops' = [ops EXCEPT ![o] = x] /\ Carries(x, ops[o])
    BY <2>6, NoSeqIs, AnswerCarries DEF Delete, Lookup
  <2>7. ASSUME NEW s \in Servers, Read(o, s)
        PROVE  \E x \in Command : ops' = [ops EXCEPT ![o] = x] /\ Carries(x, ops[o])
    <3>1. HasFile(s, ops[o].file) => Latest(s, ops[o].file).seq \in Seqs
      BY <2>2, LatestIs
    <3>2. CASE ops' = [ops EXCEPT ![o] = Handled(@, s)]
      BY <2>2, <3>2, AnswerCarries
    <3>. QED  BY <2>7, <3>1, <3>2, AnswerCarries DEF Read
  <2>. QED  BY <2>3, <2>4, <2>5, <2>6, <2>7
<1>. QED  BY <1>1, OneCarriesOn

(* The leader of a member is in its list, and nobody in the list is older. *)
LEMMA LeaderIs ==
  ASSUME TypeInv, NEW c \in Servers, members[c] # {}
  PROVE  /\ LookupLeader(c) \in members[c]
         /\ \A t \in members[c] : JoinTime[LookupLeader(c)] <= JoinTime[t]
<1> DEFINE T == {JoinTime[t] : t \in members[c]}
<1>1. members[c] \subseteq Servers
  BY DEF TypeInv, TypeOK
<1>2. T \in SUBSET Nat /\ T # {}
  BY <1>1, JoinTimeAssumption
<1>3. First(T) \in T /\ \A j \in T : First(T) <= j
  <2> HIDE DEF T
  <2>. QED  BY <1>2, Least
<1>4. \E s \in members[c] : \A t \in members[c] : JoinTime[s] <= JoinTime[t]
  BY <1>3
<1>. QED  BY <1>4 DEF LookupLeader

(* The lists, the pools and the servers that run. *)
Lists ==
  /\ \A s \in Founding : s \in members[s]
  /\ \A s \in Elders : Elders \subseteq members[s]
  /\ \A s \in Servers : suspects[s] \cap Elders = {}

(* No step makes an elder forget another. *)
LEMMA ListsStep ==
  ASSUME TypeInv, Lists, [Next]_vars
  PROVE  Lists' /\ Elders' \subseteq Elders
<1>1. /\ members \in [Servers -> SUBSET Servers] /\ suspects \in [Servers -> SUBSET Servers]
      /\ Founding \subseteq Servers
  BY JoinTimeAssumption DEF TypeInv, TypeOK
<1>2. CASE UNCHANGED <<up, members, suspects>>
  BY <1>2 DEF Lists, Elders
<1>3. ASSUME NEW s \in Servers, NEW t \in Servers, Join(s, t)
      PROVE  Lists' /\ Elders' \subseteq Elders
  <2>1. s \notin Founding /\ up' = up \cup {s} /\ suspects' = suspects
    BY <1>3 DEF Join, Lists
  <2>2. Elders' = Elders
    BY <2>1 DEF Elders
  <2>3. \A u \in Founding : members[u] \subseteq members'[u]
    BY <1>1, <1>3, <2>1 DEF Join
  <2>. QED  BY <2>1, <2>2, <2>3 DEF Lists, Elders
<1>4. ASSUME NEW s \in Servers, NEW t \in Servers, Insert(s, t)
      PROVE  Lists' /\ Elders' \subseteq Elders
  <2>1. up' = up /\ suspects' = suspects /\ \A u \in Servers : members[u] \subseteq members'[u]
    BY <1>1, <1>4 DEF Insert
  <2>. QED  BY <1>1, <2>1 DEF Lists, Elders
<1>5. ASSUME NEW s \in Servers, Crash(s)
      PROVE  Lists' /\ Elders' \subseteq Elders
  <2>1. /\ up' = up \ {s} /\ members'[s] = {s} /\ \A u \in Servers \ {s} : members'[u] = members[u]
        /\ \A u \in Servers : suspects'[u] \subseteq suspects[u]
    BY <1>1, <1>5 DEF Crash
  <2>2. Elders' = Elders \ {s}
    BY <2>1 DEF Elders
  <2>. QED  BY <1>1, <2>1, <2>2 DEF Lists, Elders
<1>6. ASSUME NEW s \in Servers, NEW t \in Servers, Suspect(s, t)
      PROVE  Lists' /\ Elders' \subseteq Elders
  <2>1. /\ up' = up /\ members' = members /\ t \notin up
        /\ \A u \in Servers : suspects'[u] \subseteq suspects[u] \cup {t}
    BY <1>1, <1>6 DEF Suspect
  <2>. QED  BY <2>1 DEF Lists, Elders
<1>7. ASSUME NEW s \in Servers, NEW t \in Servers, Expire(s, t)
      PROVE  Lists' /\ Elders' \subseteq Elders
  <2>1. /\ up' = up /\ s \in up /\ t \notin Elders
        /\ members'[s] = members[s] \ {t} /\ \A u \in Servers \ {s} : members'[u] = members[u]
        /\ \A u \in Servers : suspects'[u] \subseteq suspects[u]
    BY <1>1, <1>7 DEF Expire, Lists
  <2>2. \A u \in Founding : u \in members'[u]
    BY <1>1, <2>1 DEF Lists, Elders
  <2>3. \A u \in Elders : Elders \subseteq members'[u]
    BY <1>1, <2>1 DEF Lists, Elders
  <2>4. Elders' = Elders
    BY <2>1 DEF Elders
  <2>. QED  BY <2>1, <2>2, <2>3, <2>4 DEF Lists
<1>8. ASSUME NEW s \in Servers, OnMemberUpdate(s) \/ Recycle(s) \/ Converge(s) \/ Converged(s)
      PROVE  UNCHANGED <<up, members, suspects>>
  BY <1>8 DEF OnMemberUpdate, Recycle, Converge, Converged, ringVars
<1>9. ASSUME NEW c \in Clients, NEW f \in Files, Put(c, f) \/ Get(c, f) \/ DeleteFile(c, f) \/ List(c, f)
      PROVE  UNCHANGED <<up, members, suspects>>
  BY <1>9 DEF Put, Get, DeleteFile, List, FetchSequence, ringVars
<1>10. ASSUME NEW o \in DOMAIN ops,
              \/ RouteTask(o) \/ Timeout(o)
              \/ \E s \in Servers : \/ RequestFails(o, s) \/ Write(o, s) \/ Read(o, s)
                                   \/ Delete(o, s) \/ Lookup(o, s)
       PROVE  UNCHANGED <<up, members, suspects>>
  BY <1>10 DEF RouteTask, Timeout, RequestFails, Write, Read, Delete, Lookup, ringVars
<1>11. ASSUME NEW w \in storing, WriteSDFSFile(w) \/ WriteFails(w)
       PROVE  UNCHANGED <<up, members, suspects>>
  BY <1>11 DEF WriteSDFSFile, WriteFails, ringVars
<1>12. ASSUME NEW s \in Servers, NEW j \in transfers[s],
              \/ BulkLookup(s, j)
              \/ \E f \in j.files : GetVersions(s, j, f)
              \/ \E i \in j.items : TransferFile(s, j, i)
       PROVE  UNCHANGED <<up, members, suspects>>
  BY <1>12 DEF BulkLookup, GetVersions, TransferFile, ringVars
<1>13. CASE UNCHANGED vars
  BY <1>2, <1>13 DEF vars, ringVars
<1>14. CASE Next
  BY <1>2, <1>3, <1>4, <1>5, <1>6, <1>7, <1>8, <1>9, <1>10, <1>11, <1>12, <1>14 DEF Next
<1>. QED  BY <1>13, <1>14

(* A step begins a command, or carries on with those there are. *)
LEMMA FetchOrCarryOn ==
  ASSUME TypeInv, [Next]_vars
  PROVE  \/ \E c \in Clients, f \in Files, type \in Types : FetchSequence(c, type, f)
         \/ DOMAIN ops' = DOMAIN ops /\ CarryOn /\ counter' = counter
<1>1. CASE UNCHANGED <<ops, counter>>
  BY <1>1 DEF CarryOn, Carries
<1>2. ASSUME NEW s \in Servers, NEW t \in Servers,
             \/ Crash(s) \/ OnMemberUpdate(s) \/ Recycle(s) \/ Converge(s) \/ Converged(s)
             \/ Join(s, t) \/ Insert(s, t) \/ Suspect(s, t) \/ Expire(s, t)
      PROVE  UNCHANGED <<ops, counter>>
  BY <1>2 DEF Crash, OnMemberUpdate, Recycle, Converge, Converged, Join, Insert, Suspect, Expire, serverVars
<1>3. ASSUME NEW s \in Servers, NEW j \in transfers[s],
             \/ BulkLookup(s, j)
             \/ \E f \in j.files : GetVersions(s, j, f)
             \/ \E i \in j.items : TransferFile(s, j, i)
      PROVE  UNCHANGED <<ops, counter>>
  BY <1>3 DEF BulkLookup, GetVersions, TransferFile
<1>4. ASSUME NEW o \in DOMAIN ops,
             \/ RouteTask(o) \/ Timeout(o)
             \/ \E s \in Servers : \/ RequestFails(o, s) \/ Write(o, s) \/ Read(o, s)
                                  \/ Delete(o, s) \/ Lookup(o, s)
      PROVE  DOMAIN ops' = DOMAIN ops /\ CarryOn /\ counter' = counter
  <2>1. counter' = counter
    BY <1>4 DEF RouteTask, Timeout, RequestFails, Write, Read, Delete, Lookup, serverVars
  <2>. QED  BY <1>4, <2>1, CommandCarriesOn
<1>5. ASSUME NEW w \in storing, WriteSDFSFile(w) \/ WriteFails(w)
      PROVE  DOMAIN ops' = DOMAIN ops /\ CarryOn /\ counter' = counter
  <2>1. w.at \in Servers /\ w.seq \in Seqs
    BY DEF TypeInv, TypeOK
  <2>2. /\ counter' = counter
        /\ ops' = ops \/ ops' = [ops EXCEPT ![w.op] = Acknowledged(@, w.at, w.seq)]
    BY <1>5 DEF WriteSDFSFile, WriteFails
  <2>3. CASE ops' = [ops EXCEPT ![w.op] = Acknowledged(@, w.at, w.seq)]
    <3> DEFINE x == Acknowledged(ops[w.op], w.at, w.seq)
    <3>1. w.op \in DOMAIN ops => x \in Command /\ Carries(x, ops[w.op])
      BY <2>1, AnswerCarries
    <3>2. ops' = [ops EXCEPT ![w.op] = x]
      BY <2>3
    <3> HIDE DEF x
    <3>. QED  BY <2>2, <3>1, <3>2, OneCarriesOn
  <2>4. CASE ops' = ops
    BY <2>2, <2>4 DEF CarryOn, Carries
  <2>. QED  BY <2>2, <2>3, <2>4
<1>6. ASSUME NEW c \in Clients, NEW f \in Files, Put(c, f) \/ Get(c, f) \/ DeleteFile(c, f) \/ List(c, f)
      PROVE  \E type \in Types : FetchSequence(c, type, f)
  BY <1>6 DEF Put, Get, DeleteFile, List, Types
<1>7. CASE UNCHANGED vars
  BY <1>1, <1>7 DEF vars, serverVars
<1>8. CASE Next
  BY <1>1, <1>2, <1>3, <1>4, <1>5, <1>6, <1>8 DEF Next
<1>. QED  BY <1>7, <1>8

(* A number that is not above what s has given out at a count. *)
NotAbove(seq, s, count) == seq.time < JoinTime[s] \/ (seq.time = JoinTime[s] /\ seq.count <= count)

(* The number that a founding member gets is above those of all Puts of    *)
(* founding members, and not above what an elder gives out from then on.   *)
LEMMA FetchNumbers ==
  ASSUME TypeInv, NumberInv, NEW c \in Clients, NEW f \in Files, NEW type \in Types,
         FetchSequence(c, type, f), c \in Founding
  PROVE  LET seq == NextSequence(LookupLeader(c))
         IN  /\ \A p \in DOMAIN ops : PutOfFounder(p) => Less(ops[p].seq, seq)
             /\ \A s \in Elders : NotAbove(seq, s, counter'[s])
<1> DEFINE l == LookupLeader(c)
<1>1. /\ c \in up /\ l \in up /\ up' = up /\ counter' = [counter EXCEPT ![l] = @ + 1]
  BY DEF FetchSequence, ringVars
<1>2. c \in Servers /\ c \in Elders /\ c \in members[c] /\ Elders \subseteq members[c]
  BY <1>1, JoinTimeAssumption DEF NumberInv, Elders
<1>3. /\ l \in members[c] /\ members[c] \subseteq Servers
      /\ \A t \in members[c] : JoinTime[l] <= JoinTime[t]
  BY <1>2, LeaderIs DEF TypeInv, TypeOK
<1> HIDE DEF l
<1>4. l \in Elders
  <2>1. JoinTime[l] <= JoinTime[c] /\ l \in Servers /\ JoinTime[l] \in Nat /\ JoinTime[c] \in Nat
    BY <1>2, <1>3, JoinTimeAssumption
  <2>2. l \in Founding
    BY <2>1, NewcomersAssumption
  <2>. QED  BY <1>1, <2>2 DEF Elders
<1>5. NextSequence(l) = [time |-> JoinTime[l], count |-> counter[l] + 1]
  BY DEF NextSequence
<1>6. counter \in [Servers -> Nat] /\ JoinTime \in [Servers -> Nat]
  BY JoinTimeAssumption DEF TypeInv, TypeOK
<1>7. ASSUME NEW p \in DOMAIN ops, PutOfFounder(p) PROVE Less(ops[p].seq, NextSequence(l))
  <2>1. ops[p] \in Command
    BY DEF TypeInv
  <2>2. ops[p].seq.time \in Nat /\ ops[p].seq.count \in Nat
    BY <2>1 DEF Command, Op, Seqs
  <2>3. \/ ops[p].seq.time < JoinTime[l]
        \/ ops[p].seq.time = JoinTime[l] /\ ops[p].seq.count <= counter[l]
    BY <1>4, <1>7 DEF NumberInv
  <2>. QED  BY <1>3, <1>5, <1>6, <2>2, <2>3 DEF Less
<1>8. ASSUME NEW s \in Elders PROVE NotAbove(NextSequence(l), s, counter'[s])
  <2>1. s \in Servers /\ JoinTime[l] <= JoinTime[s] /\ (JoinTime[l] = JoinTime[s] => l = s)
    BY <1>2, <1>3, JoinTimeAssumption
  <2>2. counter'[l] = counter[l] + 1 /\ l \in Servers
    BY <1>1, <1>3, <1>6
  <2>. QED  BY <1>5, <1>6, <2>1, <2>2 DEF NotAbove
<1>. QED  BY <1>7, <1>8 DEF l

(* The invariant of the numbers, with what it is for. *)
NewerInv == TypeInv /\ NumberInv /\ LaterPutIsNewer

LEMMA NewerInit == Init => NewerInv
<1> SUFFICES ASSUME Init PROVE NewerInv
  OBVIOUS
<1>1. TypeInv
  BY TypeInit
<1>2. DOMAIN ops = {} /\ up = Founding /\ \A s \in Servers : suspects[s] = {}
  BY DEF Init
<1>3. \A s \in Founding : members[s] = Founding
  BY JoinTimeAssumption DEF Init
<1>. QED  BY <1>1, <1>2, <1>3 DEF NewerInv, NumberInv, LaterPutIsNewer, Elders

(* It is kept by every step. *)
LEMMA NewerStep == NewerInv /\ [Next]_vars => NewerInv'
<1> SUFFICES ASSUME NewerInv, [Next]_vars PROVE NewerInv'
  OBVIOUS
<1>1. TypeInv /\ NumberInv /\ LaterPutIsNewer /\ TypeInv'
  BY TypeStep DEF NewerInv
<1>2. Lists' /\ Elders' \subseteq Elders
  BY <1>1, ListsStep DEF NumberInv, Lists
<1>3. Elders \subseteq Servers /\ counter \in [Servers -> Nat] /\ \A s \in Servers : JoinTime[s] \in Nat
  BY <1>1, JoinTimeAssumption DEF Elders, TypeInv, TypeOK
<1>4. CASE DOMAIN ops' = DOMAIN ops /\ CarryOn /\ counter' = counter
  <2>1. \A q \in DOMAIN ops : /\ ops'[q].before = ops[q].before /\ (PutOfFounder(q)' <=> PutOfFounder(q))
                             /\ (ops[q].type = "PUT" => ops'[q].seq = ops[q].seq)
                             /\ ops'[q].type = ops[q].type /\ ops'[q].client = ops[q].client
    BY <1>4 DEF CarryOn, Carries, PutOfFounder
  <2>2. NumberInv'
    BY <1>1, <1>2, <1>4, <2>1 DEF NumberInv, Lists, PutOfFounder
  <2>3. LaterPutIsNewer'
    BY <1>1, <1>4, <2>1 DEF NumberInv, LaterPutIsNewer
  <2>. QED  BY <1>1, <2>2, <2>3 DEF NewerInv
<1>5. ASSUME NEW c \in Clients, NEW f \in Files, NEW type \in Types, FetchSequence(c, type, f)
      PROVE  NewerInv'
  <2> DEFINE seq == NextSequence(LookupLeader(c))
             n == Len(ops) + 1
  <2>1. PICK op \in Command :
          /\ ops' = Append(ops, op) /\ op.type = type /\ op.client = c /\ op.seq = seq
          /\ op.before = {o \in DOMAIN ops : ops[o].stage = "ok"}
    BY <1>1, <1>5, FetchType
  <2>2. ops \in Seq(Command)
    BY <1>1 DEF TypeInv
  <2>3. /\ DOMAIN ops' = DOMAIN ops \cup {n} /\ n \notin DOMAIN ops
        /\ ops'[n] = op /\ \A q \in DOMAIN ops : ops'[q] = ops[q]
    BY <2>1, <2>2
  <2>4. \A s \in Servers : counter[s] <= counter'[s] /\ counter'[s] \in Nat
    <3>1. LookupLeader(c) \in Servers /\ counter' = [counter EXCEPT ![LookupLeader(c)] = @ + 1]
      BY <1>1, <1>5 DEF FetchSequence, TypeInv, TypeOK
    <3>. QED  BY <1>3, <3>1
  <2>5. c \in Founding =>
          /\ \A p \in DOMAIN ops : PutOfFounder(p) => Less(ops[p].seq, seq)
          /\ \A s \in Elders : NotAbove(seq, s, counter'[s])
    BY <1>1, <1>5, FetchNumbers
  <2> HIDE DEF seq, n
  <2>6. ASSUME NEW q \in DOMAIN ops', NEW s \in Elders', PutOfFounder(q)'
        PROVE  NotAbove(ops'[q].seq, s, counter'[s])
    <3>1. s \in Elders /\ s \in Servers
      BY <1>2, <1>3
    <3>2. CASE q = n
      BY <2>1, <2>3, <2>5, <2>6, <3>1, <3>2 DEF PutOfFounder
    <3>3. CASE q # n
      <4>1. q \in DOMAIN ops /\ ops'[q] = ops[q] /\ PutOfFounder(q)
        BY <2>3, <2>6, <3>3 DEF PutOfFounder
      <4>2. NotAbove(ops[q].seq, s, counter[s])
        BY <1>1, <3>1, <4>1 DEF NumberInv, NotAbove
      <4>3. ops[q].seq.count \in Nat
        <5>1. ops[q] \in Command
          BY <2>2, <4>1
        <5>. QED  BY <5>1 DEF Command, Op, Seqs
      <4>. QED  BY <1>3, <2>4, <3>1, <4>1, <4>2, <4>3 DEF NotAbove
    <3>. QED  BY <3>2, <3>3
  <2>7. \A q \in DOMAIN ops' : ops'[q].before \subseteq DOMAIN ops'
    BY <1>1, <2>1, <2>3 DEF NumberInv
  <2>8. NumberInv'
    BY <1>2, <2>6, <2>7 DEF NumberInv, Lists, NotAbove
  <2>9. LaterPutIsNewer'
    <3> SUFFICES ASSUME NEW o \in DOMAIN ops', NEW p \in ops'[o].before,
                        ops'[o].type = "PUT", ops'[p].type = "PUT",
                        {ops'[o].client, ops'[p].client} \subseteq Founding
                 PROVE  Less(ops'[p].seq, ops'[o].seq)
      BY DEF LaterPutIsNewer
    <3>1. CASE o = n
      <4>1. p \in DOMAIN ops /\ ops'[p] = ops[p] /\ PutOfFounder(p) /\ c \in Founding
        BY <2>1, <2>3, <3>1 DEF PutOfFounder
      <4>. QED  BY <2>1, <2>3, <2>5, <3>1, <4>1
    <3>2. CASE o # n
      <4>1. o \in DOMAIN ops /\ ops'[o] = ops[o] /\ p \in ops[o].before
        BY <2>3, <3>2
      <4>2. p \in DOMAIN ops /\ ops'[p] = ops[p]
        BY <1>1, <2>3, <4>1 DEF NumberInv
      <4>. QED  BY <1>1, <4>1, <4>2 DEF LaterPutIsNewer
    <3>. QED  BY <3>1, <3>2
  <2>. QED  BY <1>1, <2>8, <2>9 DEF NewerInv
<1>. QED  BY <1>1, <1>4, <1>5, FetchOrCarryOn

(* A Put that a founding member began after another had succeeded has the  *)
(* larger number, so a Get takes its version for the newer one, whatever   *)
(* servers, leaders too, crash or join in between: no list loses a member  *)
(* that runs, so LookupLeader never turns to a younger leader while an     *)
(* older one still gives out numbers.                                      *)
THEOREM LaterPutsAreNewer == Spec => []LaterPutIsNewer
<1>1. NewerInv => LaterPutIsNewer
  BY DEF NewerInv
<1>. QED  BY <1>1, NewerInit, NewerStep, PTL DEF Spec
=============================================================================

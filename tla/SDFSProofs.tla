------------------------------ MODULE SDFSProofs ------------------------------
(***************************************************************************)
(* Proofs about SDFS: what the operators of HashRing return, what becomes  *)
(* of a command when it is routed, answered and over, and that the state   *)
(* has its types.                                                          *)
(***************************************************************************)
EXTENDS SDFS, FiniteSetTheorems, WellFoundedInduction, SequenceTheorems, TLAPS

-----------------------------------------------------------------------------
(***************************************************************************)
(* The hash ring has a node for every process it is made of, and the       *)
(* replicas of a file are at most as many servers as were asked for.  The  *)
(* library's induction theorems cannot be used, so the inductions are by a *)
(* least counterexample.                                                   *)
(***************************************************************************)

Node == [key : Nat, proc : Servers]

(* A set of numbers that is not empty has a least one. *)
LEMMA Least ==
  ASSUME NEW S \in SUBSET Nat, S # {}
  PROVE  First(S) \in S /\ \A j \in S : First(S) <= j
<1> DEFINE R == OpToRel(<, Nat)
<1>1. \A x, y \in Nat : x < y => <<x, y>> \in R
  BY DEF OpToRel
<1>2. \E x \in S : \A y \in S : ~(<<y, x>> \in R)
  <2>1. IsWellFoundedOn(R, Nat)
    BY NatLessThanWellFounded
  <2> HIDE DEF R
  <2>. QED  BY <2>1, WFMin
<1> HIDE DEF R
<1>3. \E x \in S : \A y \in S : x <= y
  <2>1. PICK x \in S : \A y \in S : ~(<<y, x>> \in R)
    BY <1>2
  <2>2. ASSUME NEW y \in S PROVE x <= y
    <3>1. x \in Nat /\ y \in Nat /\ ~(y < x)
      BY <1>1, <2>1
    <3>. QED  BY <3>1
  <2>. QED  BY <2>2
<1>. QED  BY <1>3 DEF First

(* The ranks of the elements of a finite set are different. *)
LEMMA RanksDiffer ==
  ASSUME NEW S, IsFiniteSet(S), NEW key, \A u \in S : key[u] \in Nat,
         NEW s \in S, NEW t \in S, key[s] < key[t]
  PROVE  Cardinality({u \in S : key[u] <= key[s]}) < Cardinality({u \in S : key[u] <= key[t]})
<1> DEFINE A == {u \in S : key[u] <= key[s]}
           B == {u \in S : key[u] <= key[t]}
<1>1. A \subseteq B /\ t \in B /\ t \notin A /\ B \subseteq S
  OBVIOUS
<1>2. IsFiniteSet(B)
  BY <1>1, FS_Subset
<1> HIDE DEF A, B
<1>3. IsFiniteSet(A) /\ Cardinality(A) <= Cardinality(B) /\ Cardinality(A) # Cardinality(B)
  BY <1>1, <1>2, FS_Subset
<1>4. Cardinality(A) < Cardinality(B)
  BY <1>2, <1>3, FS_CardinalityType
<1>. QED  BY <1>4 DEF A, B

(* Every place in the order is taken. *)
LEMMA InOrderIs ==
  ASSUME NEW S, IsFiniteSet(S), NEW key, \A s \in S : key[s] \in Nat,
         \A s, t \in S : key[s] = key[t] => s = t
  PROVE  InOrder(S, key) \in [1 .. Cardinality(S) -> S]
<1> DEFINE n == Cardinality(S)
           below(s) == {u \in S : key[u] <= key[s]}
           rank == [s \in S |-> Cardinality(below(s))]
<1>1. n \in Nat /\ IsFiniteSet(1 .. n) /\ Cardinality(1 .. n) = n
  BY FS_CardinalityType, FS_Interval
<1>2. ASSUME NEW s \in S
      PROVE  Cardinality(below(s)) \in 1 .. n
  <2>1. below(s) \subseteq S /\ s \in below(s)
    OBVIOUS
  <2> HIDE DEF below
  <2>2. IsFiniteSet(below(s)) /\ Cardinality(below(s)) <= n
    BY <2>1, FS_Subset
  <2>3. Cardinality(below(s)) \in Nat /\ Cardinality(below(s)) # 0
    BY <2>1, <2>2, FS_CardinalityType, FS_EmptySet
  <2>. QED  BY <1>1, <2>2, <2>3
<1>3. ASSUME NEW s \in S, NEW t \in S, s # t
      PROVE  Cardinality(below(s)) # Cardinality(below(t))
  <2>1. key[s] < key[t] \/ key[t] < key[s]
    BY <1>3
  <2>2. Cardinality(below(s)) \in Nat /\ Cardinality(below(t)) \in Nat
    BY <1>1, <1>2
  <2>3. CASE key[s] < key[t]
    <3>1. Cardinality(below(s)) < Cardinality(below(t))
      BY <2>3, RanksDiffer
    <3> HIDE DEF below
    <3>. QED  BY <2>2, <3>1
  <2>4. CASE key[t] < key[s]
    <3>1. Cardinality(below(t)) < Cardinality(below(s))
      BY <2>4, RanksDiffer
    <3> HIDE DEF below
    <3>. QED  BY <2>2, <3>1
  <2>. QED  BY <2>1, <2>3, <2>4
<1> HIDE DEF below
<1>4. rank \in Injection(S, 1 .. n)
  <2>1. rank \in [S -> 1 .. n]
    BY <1>2
  <2>2. \A s, t \in S : rank[s] = rank[t] => s = t
    BY <1>3
  <2> HIDE DEF rank
  <2>. QED  BY <2>1, <2>2 DEF Injection, IsInjective
<1>5. rank \in Surjection(S, 1 .. n)
  BY <1>1, <1>4, FS_Injection
<1>6. \A i \in 1 .. n : \E s \in S : Cardinality(below(s)) = i
  BY <1>5 DEF Surjection
<1>. QED  BY <1>6 DEF InOrder, below

(* Refresh appends a node with the key it finds, free or not. *)
LEMMA WithNodeIs ==
  ASSUME NEW hr \in Seq(Node), NEW p \in Servers
  PROVE  /\ WithNode(hr, p) \in Seq(Node) /\ Len(WithNode(hr, p)) = Len(hr) + 1
         /\ WithNode(hr, p)[Len(hr) + 1].proc = p
         /\ \A k \in 1 .. Len(hr) : WithNode(hr, p)[k] = hr[k]
<1> DEFINE taken == {hr[k].key : k \in DOMAIN hr}
           key(i) == Or(Hash[p], i) % HASH_SIZE
           free == {i \in 0 .. HASH_SIZE - 1 : key(i) \notin taken}
           at == IF free = {} THEN HASH_SIZE ELSE First(free)
<1>1. /\ HASH_SIZE \in Nat /\ HASH_SIZE > 0
      /\ \A i \in 0 .. HASH_SIZE : Or(Hash[p], i) \in Nat
  BY HashAssumption
<1>2. free \subseteq Nat /\ free \subseteq 0 .. HASH_SIZE
  BY <1>1
<1>3. at \in 0 .. HASH_SIZE
  <2>1. HASH_SIZE \in 0 .. HASH_SIZE
    BY <1>1
  <2> HIDE DEF free
  <2>2. free # {} => First(free) \in free
    BY <1>2, Least
  <2>. QED  BY <1>2, <2>1, <2>2
<1>4. FreeKey(taken, Hash[p]) = key(at)
  BY DEF FreeKey
<1> HIDE DEF at, taken, free
<1>5. FreeKey(taken, Hash[p]) \in Nat
  BY <1>1, <1>3, <1>4
<1> DEFINE node == [key |-> FreeKey(taken, Hash[p]), proc |-> p]
<1>6. node \in Node /\ node.proc = p
  BY <1>5 DEF Node
<1>7. WithNode(hr, p) = Append(hr, node)
  BY DEF WithNode, taken
<1> HIDE DEF node
<1>. QED  BY <1>6, <1>7

(* The function that Place defines by recursion, up to n. *)
Places(f, n, P) == f = [i \in 0 .. n |-> IF i = 0 THEN <<>> ELSE WithNode(f[i - 1], P[i])]

(* There is such a function. *)
LEMMA PlacesExist ==
  ASSUME NEW P, NEW N \in Nat
  PROVE  \E f : Places(f, N, P)
<1> DEFINE Bad == {n \in Nat : ~\E f : Places(f, n, P)}
<1> SUFFICES ASSUME Bad # {} PROVE FALSE
  OBVIOUS
<1>1. First(Bad) \in Bad /\ \A j \in Bad : First(Bad) <= j
  BY Least
<1> DEFINE n == First(Bad)
<1>2. n \in Nat /\ ~\E f : Places(f, n, P)
  BY <1>1
<1>3. CASE n = 0
  <2>1. Places([i \in 0 .. 0 |-> <<>>], 0, P)
    BY DEF Places
  <2>. QED  BY <1>2, <1>3, <2>1
<1>4. CASE n # 0
  <2>1. n - 1 \in Nat /\ n - 1 \notin Bad
    <3> HIDE DEF Bad
    <3>1. n \in Nat /\ \A j \in Bad : n <= j
      BY <1>1, <1>2
    <3>. QED  BY <1>4, <3>1
  <2>2. PICK f : Places(f, n - 1, P)
    BY <2>1
  <2> HIDE DEF n
  <2> DEFINE g == [i \in 0 .. n |-> IF i < n THEN f[i] ELSE WithNode(f[n - 1], P[n])]
  <2>3. ASSUME NEW i \in 0 .. n
        PROVE  g[i] = IF i = 0 THEN <<>> ELSE WithNode(g[i - 1], P[i])
    <3>1. \A j \in 0 .. n - 1 : f[j] = IF j = 0 THEN <<>> ELSE WithNode(f[j - 1], P[j])
      BY <2>2 DEF Places
    <3>2. CASE i = 0
      BY <1>2, <1>4, <3>1, <3>2
    <3>3. CASE i # 0 /\ i < n
      <4>1. g[i] = f[i] /\ g[i - 1] = f[i - 1] /\ i \in 0 .. n - 1
        BY <1>2, <3>3
      <4>. QED  BY <3>1, <3>3, <4>1
    <3>4. CASE i = n
      <4>1. g[n] = WithNode(f[n - 1], P[n]) /\ g[n - 1] = f[n - 1]
        BY <1>2, <1>4
      <4>. QED  BY <1>4, <3>4, <4>1
    <3>. QED  BY <1>2, <3>2, <3>3, <3>4
  <2>4. Places(g, n, P)
    <3>1. g = [i \in 0 .. n |-> g[i]]
      OBVIOUS
    <3> HIDE DEF g
    <3>. QED  BY <2>3, <3>1 DEF Places
  <2>. QED  BY <1>2, <2>4
<1>. QED  BY <1>3, <1>4

(* The i-th of them has the first i processes, in their order. *)
LEMMA PlacesAre ==
  ASSUME NEW P \in Seq(Servers), NEW f, Places(f, Len(P), P), NEW N \in 0 .. Len(P)
  PROVE  f[N] \in Seq(Node) /\ Len(f[N]) = N /\ \A k \in 1 .. N : f[N][k].proc = P[k]
<1> DEFINE Good(n) == f[n] \in Seq(Node) /\ Len(f[n]) = n /\ \A k \in 1 .. n : f[n][k].proc = P[k]
           Bad == {n \in 0 .. Len(P) : ~Good(n)}
<1> SUFFICES ASSUME Bad # {} PROVE FALSE
  OBVIOUS
<1>1. First(Bad) \in Bad /\ \A j \in Bad : First(Bad) <= j
  <2>1. Bad \subseteq Nat
    OBVIOUS
  <2> HIDE DEF Bad
  <2>. QED  BY <2>1, Least
<1> DEFINE n == First(Bad)
<1>2. n \in 0 .. Len(P) /\ ~Good(n)
  <2> HIDE DEF Good
  <2>1. n \in Bad
    BY <1>1
  <2> HIDE DEF n
  <2>. QED  BY <2>1
<1>3. Len(P) \in Nat /\ n \in Nat
  BY <1>2
<1>4. f[n] = IF n = 0 THEN <<>> ELSE WithNode(f[n - 1], P[n])
  BY <1>2 DEF Places
<1>5. n # 0
  <2> SUFFICES ASSUME n = 0 PROVE Good(0)
    BY <1>2
  <2>1. f[0] = <<>>
    BY <1>4
  <2>. QED  BY <2>1
<1>6. n - 1 \in 0 .. Len(P) /\ Good(n - 1)
  <2> HIDE DEF Good
  <2>1. \A j \in Bad : n <= j
    BY <1>1
  <2> HIDE DEF n
  <2>2. n - 1 \in 0 .. Len(P)
    BY <1>2, <1>3, <1>5
  <2>. QED  BY <1>3, <2>1, <2>2
<1> HIDE DEF n
<1>7. P[n] \in Servers
  BY <1>2, <1>3, <1>5
<1>8. /\ f[n] \in Seq(Node) /\ Len(f[n]) = n - 1 + 1 /\ f[n][n - 1 + 1].proc = P[n]
      /\ \A k \in 1 .. n - 1 : f[n][k] = f[n - 1][k]
  <2> DEFINE hr == f[n - 1]
  <2>1. hr \in Seq(Node) /\ Len(hr) = n - 1 /\ f[n] = WithNode(hr, P[n])
    BY <1>4, <1>5, <1>6
  <2> HIDE DEF hr
  <2>2. /\ f[n] \in Seq(Node) /\ Len(f[n]) = n - 1 + 1 /\ f[n][n - 1 + 1].proc = P[n]
        /\ \A k \in 1 .. n - 1 : f[n][k] = hr[k]
    <3> DEFINE w == WithNode(hr, P[n])
    <3>1. /\ w \in Seq(Node) /\ Len(w) = Len(hr) + 1 /\ w[Len(hr) + 1].proc = P[n]
          /\ \A k \in 1 .. Len(hr) : w[k] = hr[k]
      BY <1>7, <2>1, WithNodeIs
    <3>2. f[n] = w
      BY <2>1
    <3> HIDE DEF w
    <3>. QED  BY <2>1, <3>1, <3>2
  <2>. QED  BY <2>2 DEF hr
<1>9. n - 1 + 1 = n
  BY <1>3
<1>10. \A k \in 1 .. n : f[n][k].proc = P[k]
  <2> SUFFICES ASSUME NEW k \in 1 .. n PROVE f[n][k].proc = P[k]
    OBVIOUS
  <2>1. CASE k = n
    BY <1>8, <1>9, <2>1
  <2>2. CASE k \in 1 .. n - 1
    BY <1>6, <1>8, <2>2
  <2>. QED  BY <1>3, <2>1, <2>2
<1>. QED  BY <1>2, <1>8, <1>9, <1>10

(* Place gives every process of the list a node. *)
LEMMA PlaceIs ==
  ASSUME NEW P \in Seq(Servers)
  PROVE  /\ Place(P) \in Seq(Node) /\ Len(Place(P)) = Len(P)
         /\ \A k \in 1 .. Len(P) : Place(P)[k].proc = P[k]
<1> DEFINE f == CHOOSE g : Places(g, Len(P), P)
<1>1. Len(P) \in Nat
  OBVIOUS
<1>2. Places(f, Len(P), P)
  BY <1>1, PlacesExist
<1>3. Place(P) = f[Len(P)]
  BY DEF Place, Places
<1> HIDE DEF f
<1>. QED  BY <1>1, <1>2, <1>3, PlacesAre

(* A function on 1 .. n is a sequence. *)
LEMMA FunctionIsSeq ==
  ASSUME NEW S, NEW n \in Nat, NEW f \in [1 .. n -> S]
  PROVE  f \in Seq(S) /\ Len(f) = n
<1>1. f \in Seq(S)
  BY SeqDef
<1>2. DOMAIN f = 1 .. n /\ DOMAIN f = 1 .. Len(f) /\ Len(f) \in Nat
  BY <1>1, LenProperties
<1>. QED  BY <1>1, <1>2

(* Two nodes with one key are told apart by their places in the list. *)
LEMMA TieBreak ==
  ASSUME NEW n \in Nat
  PROVE  \A i, j \in 1 .. n : \A a, b \in Nat : a * n + i = b * n + j => i = j
<1> SUFFICES ASSUME NEW i \in 1 .. n, NEW j \in 1 .. n, NEW a \in Nat, NEW b \in Nat,
                    a * n + i = b * n + j
             PROVE  i = j
  OBVIOUS
<1>1. (a - b) * n = j - i /\ j - i < n /\ i - j < n /\ n > 0
  BY SMT
<1>2. CASE a - b >= 1
  <2>1. (a - b) * n >= n
    BY <1>1, <1>2, SMT
  <2>. QED  BY <1>1, <2>1
<1>3. CASE b - a >= 1
  <2>1. (b - a) * n >= n
    BY <1>1, <1>3, SMT
  <2>2. (b - a) * n = i - j
    BY <1>1, SMT
  <2>. QED  BY <1>1, <2>1, <2>2
<1>4. CASE a = b
  BY <1>4, SMT
<1>. QED  BY <1>2, <1>3, <1>4

(* The sorted hash ring has the nodes that were placed. *)
LEMMA RefreshIs ==
  ASSUME NEW P \in Seq(Servers)
  PROVE  /\ Refresh(P) \in Seq(Node) /\ Len(Refresh(P)) = Len(P)
         /\ \A i \in 1 .. Len(P) : \E k \in 1 .. Len(P) : Refresh(P)[i].proc = P[k]
<1> DEFINE placed == Place(P)
           n == Len(P)
           key == [i \in DOMAIN placed |-> placed[i].key * Len(placed) + i]
           order == InOrder(DOMAIN placed, key)
<1>1. /\ placed \in Seq(Node) /\ Len(placed) = n /\ n \in Nat /\ DOMAIN placed = 1 .. n
      /\ \A k \in 1 .. n : placed[k].proc = P[k]
  BY PlaceIs
<1>2. Refresh(P) = [i \in 1 .. n |-> placed[order[i]]]
  BY <1>1 DEF Refresh
<1> HIDE DEF placed, n
<1>3. \A i \in 1 .. n : placed[i].key \in Nat
  <2>1. \A i \in 1 .. n : placed[i] \in Node
    BY <1>1, ElementOfSeq
  <2>. QED  BY <2>1 DEF Node
<1>4. IsFiniteSet(1 .. n) /\ Cardinality(1 .. n) = n
  BY <1>1, FS_Interval
<1>5. key \in [1 .. n -> Nat]
  <2>1. \A a, i \in Nat : a * n + i \in Nat
    BY <1>1
  <2>2. \A i \in 1 .. n : i \in Nat
    BY <1>1
  <2>3. \A i \in 1 .. n : placed[i].key * n + i \in Nat
    BY <1>3, <2>1, <2>2, Zenon
  <2>. QED  BY <1>1, <2>3
<1>6. \A i, j \in 1 .. n : key[i] = key[j] => i = j
  <2> SUFFICES ASSUME NEW i \in 1 .. n, NEW j \in 1 .. n, key[i] = key[j] PROVE i = j
    OBVIOUS
  <2>1. placed[i].key * n + i = placed[j].key * n + j
    BY <1>1
  <2>2. placed[i].key \in Nat /\ placed[j].key \in Nat
    BY <1>3
  <2>3. \A k, l \in 1 .. n : \A a, b \in Nat : a * n + k = b * n + l => k = l
    BY <1>1, TieBreak
  <2>. QED  BY <2>1, <2>2, <2>3, Zenon
<1> HIDE DEF key
<1>7. order \in [1 .. n -> 1 .. n]
  BY <1>1, <1>4, <1>5, <1>6, InOrderIs
<1> HIDE DEF order
<1>8. Refresh(P) \in [1 .. n -> Node]
  BY <1>1, <1>2, <1>7
<1>9. Refresh(P) \in Seq(Node) /\ Len(Refresh(P)) = n
  BY <1>1, <1>8, FunctionIsSeq
<1>10. ASSUME NEW i \in 1 .. n PROVE \E k \in 1 .. n : Refresh(P)[i].proc = P[k]
  <2>1. order[i] \in 1 .. n /\ Refresh(P)[i] = placed[order[i]]
    BY <1>2, <1>7
  <2>. QED  BY <1>1, <2>1
<1>. QED  BY <1>9, <1>10 DEF n

(* The node at any place, counted around the ring. *)
LEMMA NodeAtIs ==
  ASSUME NEW hr \in Seq(Node), hr # <<>>, NEW i \in Nat \ {0}
  PROVE  NodeAt(hr, i) \in Servers /\ \E k \in 1 .. Len(hr) : NodeAt(hr, i) = hr[k].proc
<1>1. Len(hr) \in Nat /\ Len(hr) > 0
  OBVIOUS
<1>2. ((i - 1) % Len(hr)) + 1 \in 1 .. Len(hr)
  BY <1>1
<1>3. hr[((i - 1) % Len(hr)) + 1] \in Node
  BY <1>2
<1>4. \E k \in 1 .. Len(hr) : NodeAt(hr, i) = hr[k].proc
  BY <1>2 DEF NodeAt
<1>. QED  BY <1>3, <1>4 DEF NodeAt, Node

(* The replicas of a file are servers of the ring, and no more than were   *)
(* asked for.                                                              *)
LEMMA ReplicasAre ==
  ASSUME NEW hr \in Seq(Node), NEW f \in Files, NEW n \in Nat
  PROVE  /\ FindReplicas(hr, f, n) \subseteq Servers
         /\ IsFiniteSet(FindReplicas(hr, f, n))
         /\ Cardinality(FindReplicas(hr, f, n)) <= IF Len(hr) < n THEN Len(hr) ELSE n
         /\ \A r \in FindReplicas(hr, f, n) : \E j \in 1 .. Len(hr) : r = hr[j].proc
<1> DEFINE k == IF Len(hr) < n THEN Len(hr) ELSE n
           start == StartIndex(hr, f)
           at == [i \in 0 .. k - 1 |-> NodeAt(hr, start + i)]
           R == FindReplicas(hr, f, n)
<1>1. k \in Nat /\ Len(hr) \in Nat
  OBVIOUS
<1>2. IsFiniteSet(0 .. k - 1) /\ Cardinality(0 .. k - 1) = k
  <2> HIDE DEF k
  <2>1. 0 \in Int /\ k - 1 \in Int
    BY <1>1
  <2>2. /\ IsFiniteSet(0 .. k - 1)
        /\ Cardinality(0 .. k - 1) = IF 0 > k - 1 THEN 0 ELSE k - 1 - 0 + 1
    BY <2>1, FS_Interval
  <2>. QED  BY <1>1, <2>2
<1>3. R = {NodeAt(hr, start + i) : i \in 0 .. k - 1}
  BY DEF FindReplicas
<1>4. at \in Surjection(0 .. k - 1, R)
  BY <1>3 DEF Surjection
<1>5. IsFiniteSet(R) /\ Cardinality(R) <= k
  <2> HIDE DEF k, R, at
  <2>. QED  BY <1>2, <1>4, FS_Surjection
<1>6. ASSUME hr # <<>>
      PROVE  start \in Nat \ {0}
  <2> DEFINE after == {i \in DOMAIN hr : hr[i].key >= Hash[f] % HASH_SIZE}
  <2>1. start = IF after = {} THEN 1 ELSE First(after)
    BY DEF StartIndex
  <2>2. after \subseteq Nat \ {0}
    OBVIOUS
  <2> HIDE DEF after
  <2>3. after # {} => First(after) \in after
    BY <2>2, Least
  <2> HIDE DEF start
  <2>. QED  BY <2>1, <2>2, <2>3
<1>7. R \subseteq Servers /\ \A r \in R : \E j \in 1 .. Len(hr) : r = hr[j].proc
  <2>1. ASSUME NEW i \in 0 .. k - 1
        PROVE  /\ NodeAt(hr, start + i) \in Servers
               /\ \E j \in 1 .. Len(hr) : NodeAt(hr, start + i) = hr[j].proc
    <3>1. hr # <<>>
      BY <1>1
    <3>2. start + i \in Nat \ {0}
      <4>1. start \in Nat \ {0} /\ i \in Nat
        BY <1>6, <3>1
      <4> HIDE DEF start
      <4>. QED  BY <4>1
    <3> HIDE DEF start
    <3>. QED  BY <3>1, <3>2, NodeAtIs
  <2> HIDE DEF R, start, k
  <2>. QED  BY <1>3, <2>1
<1>. QED  BY <1>5, <1>7

(* The neighbours of a server in the ring are servers. *)
LEMMA NeighboursAre ==
  ASSUME NEW hr \in Seq(Node), NEW p, NEW n \in Nat
  PROVE  FindSuccessors(hr, p, n) \subseteq Servers /\ FindPredecessor(hr, p) \subseteq Servers
<1> DEFINE at == ProcessIndexes(hr, p)
<1>1. \A i \in at : i \in 1 .. Len(hr)
  BY DEF ProcessIndexes
<1>2. ASSUME NEW i \in at PROVE hr # <<>> /\ i \in Nat \ {0} /\ Len(hr) \in Nat \ {0}
  BY <1>1
<1> HIDE DEF at
<1>3. \A i \in at : \A k \in 1 .. n : NodeAt(hr, i + k) \in Servers
  <2> SUFFICES ASSUME NEW i \in at, NEW k \in 1 .. n PROVE NodeAt(hr, i + k) \in Servers
    OBVIOUS
  <2>1. i + k \in Nat \ {0}
    BY <1>2
  <2>. QED  BY <1>2, <2>1, NodeAtIs
<1>4. \A i \in at : NodeAt(hr, i - 1 + Len(hr)) \in Servers
  <2> SUFFICES ASSUME NEW i \in at PROVE NodeAt(hr, i - 1 + Len(hr)) \in Servers
    OBVIOUS
  <2>1. i - 1 + Len(hr) \in Nat \ {0}
    BY <1>2
  <2>. QED  BY <1>2, <2>1, NodeAtIs
<1>5. FindSuccessors(hr, p, n) \subseteq Servers
  <2> SUFFICES ASSUME NEW t \in FindSuccessors(hr, p, n) PROVE t \in Servers
    OBVIOUS
  <2>1. PICK i \in at : \E k \in 1 .. n : t = NodeAt(hr, i + k)
    BY DEF FindSuccessors, at
  <2>. QED  BY <1>3, <2>1
<1>6. FindPredecessor(hr, p) \subseteq Servers
  BY <1>4 DEF FindPredecessor, at
<1>. QED  BY <1>5, <1>6

-----------------------------------------------------------------------------
(* Sequence numbers *)

(* Sequence numbers are in a strict total order. *)
LEMMA LessIsOrder ==
  /\ \A a \in Seqs : ~Less(a, a)
  /\ \A a, b, c \in Seqs : Less(a, b) /\ Less(b, c) => Less(a, c)
  /\ \A a, b, c \in Seqs : ~Less(a, b) /\ ~Less(b, c) => ~Less(a, c)
BY DEF Seqs, Less

(* Among finitely many there is one that is not older than any other. *)
LEMMA NewestExists ==
  ASSUME NEW S, IsFiniteSet(S), S # {}, \A x \in S : x.seq \in Seqs
  PROVE  \E x \in S : \A y \in S : ~Less(x.seq, y.seq)
<1> DEFINE newer(x) == {y \in S : Less(x.seq, y.seq)}
           T == {newer(x) : x \in S}
           R == StrictSubsetOrdering(S)
<1>1. IsWellFoundedOn(R, FiniteSubsetsOf(S))
  BY FS_StrictSubsetOrderingWellFounded
<1>2. T \subseteq FiniteSubsetsOf(S) /\ T # {}
  <2>1. \A x \in S : newer(x) \in SUBSET S
    OBVIOUS
  <2> HIDE DEF newer
  <2>. QED  BY <2>1, FS_FiniteSubsetsOfFinite
<1>3. PICK u \in T : \A t \in T : ~(<<t, u>> \in R)
  <2> HIDE DEF T, R
  <2>. QED  BY <1>1, <1>2, WFMin
<1>4. PICK x \in S : u = newer(x)
  OBVIOUS
<1>5. ASSUME NEW y \in S, Less(x.seq, y.seq)
      PROVE  FALSE
  <2>1. y \in newer(x) /\ y \notin newer(y)
    BY <1>5, LessIsOrder
  <2>2. newer(y) \subseteq newer(x)
    BY <1>5, LessIsOrder
  <2>3. newer(y) \in SUBSET S /\ newer(x) \in SUBSET S
    OBVIOUS
  <2> HIDE DEF newer
  <2>4. <<newer(y), newer(x)>> \in R
    BY <2>1, <2>2, <2>3 DEF StrictSubsetOrdering
  <2> HIDE DEF R
  <2>. QED  BY <1>3, <1>4, <2>4
<1>. QED  BY <1>5

-----------------------------------------------------------------------------
(* What becomes of a command *)

(* The part of a command's type that a bound does not give: its answers    *)
(* are finitely many.                                                      *)
Command == {op \in Op : IsFiniteSet(op.acks)}

(* A command as far as its answers do not change it. *)
SameCommand(x, y) ==
  /\ x.type = y.type /\ x.file = y.file /\ x.client = y.client
  /\ x.before = y.before /\ x.whole = y.whole

(* What a command is, and the number of the version it puts, go on. *)
Carries(x, y) ==
  /\ x.type = y.type /\ x.client = y.client /\ x.before = y.before
  /\ y.type = "PUT" => x.seq = y.seq

(* The newest of the answers is one of them. *)
LEMMA NewestIs ==
  ASSUME NEW acks \in SUBSET [from : Servers, seq : Seqs], IsFiniteSet(acks), acks # {}
  PROVE  /\ \E a \in acks : Newest(acks) = a.seq
         /\ \A b \in acks : ~Less(Newest(acks), b.seq)
         /\ Newest(acks) \in Seqs
<1>1. \A x \in acks : x.seq \in Seqs
  OBVIOUS
<1>2. \E a \in acks : \A b \in acks : ~Less(a.seq, b.seq)
  BY <1>1, NewestExists
<1>. QED  BY <1>1, <1>2 DEF Newest

(* A request that a server handles. *)
LEMMA HandledIs ==
  ASSUME NEW op \in Command, NEW s
  PROVE  /\ Handled(op, s) \in Command /\ SameCommand(Handled(op, s), op)
         /\ Handled(op, s).stage = op.stage /\ Handled(op, s).seq = op.seq
         /\ Handled(op, s).asked = op.asked \ {s} /\ Handled(op, s).acks = op.acks
         /\ Handled(op, s).need = op.need /\ Handled(op, s).done = op.done
BY DEF Handled, Command, Op, SameCommand

(* A command that ends. *)
LEMMA FinishIs ==
  ASSUME NEW op \in Command, NEW stage \in {"ok", "failed", "notfound"}, changes \in 0 .. MaxChanges,
         op.type = "GET" /\ stage = "ok" => op.acks # {}
  PROVE  LET x == Finish(op, stage)
         IN  /\ x \in Command /\ SameCommand(x, op) /\ x.stage = stage /\ x.acks = {}
             /\ x.asked = IF op.type \in Reads THEN {} ELSE op.asked
             /\ x.seq = IF op.type = "GET" /\ stage = "ok" THEN Newest(op.acks) ELSE op.seq
<1> DEFINE q == IF op.type = "GET" /\ stage = "ok" THEN Newest(op.acks) ELSE op.seq
           r == IF op.type \in Reads THEN {} ELSE op.asked
           a == [op EXCEPT !.stage = stage]
           b == [a EXCEPT !.acks = {}]
           c == [b EXCEPT !.need = 0]
           d == [c EXCEPT !.done = changes]
           e == [d EXCEPT !.asked = r]
           f == [e EXCEPT !.seq = q]
<1>1. op \in Op /\ IsFiniteSet(op.acks) /\ op.acks \in SUBSET [from : Servers, seq : Seqs]
  BY DEF Command, Op
<1>2. q \in Seqs
  BY <1>1, NewestIs DEF Op
<1>3. r \in SUBSET Servers
  BY <1>1 DEF Op
<1>4. Finish(op, stage) = f
  BY <1>1 DEF Finish, Op
<1> HIDE DEF q, r
<1>5. a \in Op /\ SameCommand(a, op) /\ a.stage = stage
  BY <1>1 DEF Op, SameCommand
<1> HIDE DEF a
<1>6. b \in Op /\ SameCommand(b, op) /\ b.stage = stage /\ b.acks = {}
  BY <1>5 DEF Op, SameCommand
<1> HIDE DEF b
<1>7. c \in Op /\ SameCommand(c, op) /\ c.stage = stage /\ c.acks = {}
  BY <1>6 DEF Op, SameCommand
<1> HIDE DEF c
<1>8. d \in Op /\ SameCommand(d, op) /\ d.stage = stage /\ d.acks = {}
  BY <1>7 DEF Op, SameCommand
<1> HIDE DEF d
<1>9. e \in Op /\ SameCommand(e, op) /\ e.stage = stage /\ e.acks = {} /\ e.asked = r
  BY <1>3, <1>8 DEF Op, SameCommand
<1> HIDE DEF e
<1>10. f \in Op /\ SameCommand(f, op) /\ f.stage = stage /\ f.acks = {} /\ f.asked = r /\ f.seq = q
  BY <1>2, <1>9 DEF Op, SameCommand
<1> HIDE DEF f
<1>11. f \in Command
  BY <1>10, FS_EmptySet DEF Command
<1>. QED  BY <1>4, <1>10, <1>11 DEF q, r

(* A command that is routed. *)
LEMMA RoutedIs ==
  ASSUME NEW op \in Command, NEW hr \in Seq(Node), NEW sized \in Seq(Node)
  PROVE  LET x == Routed(op, hr, sized)
         IN  /\ x \in Command /\ SameCommand(x, op) /\ x.acks = op.acks /\ x.seq = op.seq
             /\ x.need = GetConsistencyLevel(op.type, sized)
             /\ x.stage = IF x.need = 0 THEN "failed" ELSE "waiting"
             /\ x.asked = FindReplicas(hr, op.file, REPLICA_COUNT)
<1> DEFINE need == GetConsistencyLevel(op.type, sized)
           stage == IF need = 0 THEN "failed" ELSE "waiting"
           R == FindReplicas(hr, op.file, REPLICA_COUNT)
           a == [op EXCEPT !.stage = stage]
           b == [a EXCEPT !.need = need]
           c == [b EXCEPT !.asked = R]
<1>1. op \in Op /\ IsFiniteSet(op.acks) /\ op.type \in Types /\ op.file \in Files
  BY DEF Command, Op
<1>2. need \in Nat
  <2>1. Level(op.type) \in Nat /\ Len(sized) \in Nat
    BY <1>1, ConsistencyAssumption DEF Level, Types
  <2>. QED  BY <2>1 DEF GetConsistencyLevel, Min2
<1>3. R \in SUBSET Servers
  BY <1>1, ConsistencyAssumption, ReplicasAre
<1>4. Routed(op, hr, sized) = c
  BY <1>1 DEF Routed, Op
<1> HIDE DEF need, R
<1>5. /\ a \in Op /\ SameCommand(a, op) /\ a.acks = op.acks /\ a.seq = op.seq /\ a.stage = stage
  BY <1>1 DEF Op, SameCommand
<1> HIDE DEF a, stage
<1>6. /\ b \in Op /\ SameCommand(b, op) /\ b.acks = op.acks /\ b.seq = op.seq /\ b.stage = stage
      /\ b.need = need
  BY <1>2, <1>5 DEF Op, SameCommand
<1> HIDE DEF b
<1>7. /\ c \in Op /\ SameCommand(c, op) /\ c.acks = op.acks /\ c.seq = op.seq /\ c.stage = stage
      /\ c.need = need /\ c.asked = R
  BY <1>3, <1>6 DEF Op, SameCommand
<1> HIDE DEF c
<1>8. c \in Command
  BY <1>1, <1>7 DEF Command
<1>. QED  BY <1>4, <1>7, <1>8 DEF need, stage, R

(* A command that saw half a hash ring. *)
LEMMA HalfIs ==
  ASSUME NEW op \in Command
  PROVE  LET x == [op EXCEPT !.whole = FALSE]
         IN  /\ x \in Command /\ ~x.whole /\ x.acks = op.acks /\ x.seq = op.seq /\ x.stage = op.stage
             /\ x.type = op.type /\ x.file = op.file /\ x.client = op.client
             /\ x.before = op.before /\ x.asked = op.asked
BY DEF Command, Op

(* An answer that arrives is ignored, counted, or the last one needed. *)
Counts(x, op, acks) ==
  \/ x = op
  \/ /\ op.stage = "waiting" /\ x.stage = "waiting" /\ x.acks = acks
     /\ x.asked = op.asked /\ x.seq = op.seq /\ x.need = op.need
  \/ /\ op.stage = "waiting" /\ x.stage = "ok" /\ x.acks = {}
     /\ Cardinality(acks) >= op.need
     /\ x.asked = IF op.type \in Reads THEN {} ELSE op.asked
     /\ x.seq = IF op.type = "GET" THEN Newest(acks) ELSE op.seq

(* What Acknowledged makes of a command. *)
LEMMA AcknowledgedIs ==
  ASSUME NEW op \in Command, NEW s \in Servers, NEW seq \in Seqs, changes \in 0 .. MaxChanges
  PROVE  LET x == Acknowledged(op, s, seq)
         IN  /\ x \in Command /\ SameCommand(x, op)
             /\ Counts(x, op, op.acks \cup {[from |-> s, seq |-> seq]})
<1> DEFINE a == [from |-> s, seq |-> seq]
           acks == op.acks \cup {a}
           heard == [op EXCEPT !.acks = acks]
           x == Acknowledged(op, s, seq)
<1>1. op \in Op /\ IsFiniteSet(op.acks) /\ op.acks \in SUBSET [from : Servers, seq : Seqs]
  BY DEF Command, Op
<1>2. a \in [from : Servers, seq : Seqs]
  OBVIOUS
<1> HIDE DEF a
<1>3. acks \in SUBSET [from : Servers, seq : Seqs] /\ IsFiniteSet(acks) /\ acks # {}
  BY <1>1, <1>2, FS_AddElement
<1>4. x = IF op.stage # "waiting" \/ op.client \notin up THEN op
          ELSE IF Cardinality(heard.acks) >= op.need THEN Finish(heard, "ok") ELSE heard
  BY DEF Acknowledged, a
<1> HIDE DEF acks, x
<1>5. /\ heard \in Op /\ SameCommand(heard, op) /\ heard.acks = acks /\ heard.stage = op.stage
      /\ heard.asked = op.asked /\ heard.seq = op.seq /\ heard.need = op.need
  BY <1>1, <1>3 DEF Op, SameCommand
<1> HIDE DEF heard
<1>6. heard \in Command
  BY <1>3, <1>5 DEF Command
<1>7. CASE op.stage # "waiting" \/ op.client \notin up
  BY <1>4, <1>7 DEF SameCommand, Counts, x
<1>8. CASE op.stage = "waiting" /\ op.client \in up /\ ~(Cardinality(acks) >= op.need)
  BY <1>4, <1>5, <1>6, <1>8 DEF Counts, x, acks, a
<1>9. CASE op.stage = "waiting" /\ op.client \in up /\ Cardinality(acks) >= op.need
  <2>1. x = Finish(heard, "ok")
    BY <1>4, <1>5, <1>9
  <2>2. /\ x \in Command /\ SameCommand(x, heard) /\ x.stage = "ok" /\ x.acks = {}
        /\ x.asked = IF heard.type \in Reads THEN {} ELSE heard.asked
        /\ x.seq = IF heard.type = "GET" THEN Newest(heard.acks) ELSE heard.seq
    BY <1>3, <1>5, <1>6, <2>1, FinishIs
  <2>3. heard.type = op.type
    BY <1>5 DEF SameCommand
  <2>4. SameCommand(x, op)
    BY <1>5, <2>2 DEF SameCommand
  <2>5. Counts(x, op, acks)
    BY <1>5, <1>9, <2>2, <2>3 DEF Counts
  <2>. QED  BY <2>2, <2>4, <2>5 DEF x, acks, a
<1>. QED  BY <1>7, <1>8, <1>9

(* The commands when one of them changes. *)
LEMMA OneChanges ==
  ASSUME ops \in Seq(Command), NEW o, NEW x, o \in DOMAIN ops => x \in Command
  PROVE  LET new == [ops EXCEPT ![o] = x]
         IN  /\ new \in Seq(Command) /\ DOMAIN new = DOMAIN ops
             /\ o \in DOMAIN ops => new[o] = x
             /\ \A q \in DOMAIN ops : q # o => new[q] = ops[q]
<1>1. CASE o \in DOMAIN ops
  <2>1. o \in 1 .. Len(ops) /\ x \in Command
    BY <1>1
  <2>. QED  BY <2>1, ExceptSeq
<1>2. CASE o \notin DOMAIN ops
  <2>1. [ops EXCEPT ![o] = x] = [q \in DOMAIN ops |-> ops[q]]
    BY <1>2
  <2>2. [q \in DOMAIN ops |-> ops[q]] = ops
    OBVIOUS
  <2>. QED  BY <1>2, <2>1, <2>2
<1>. QED  BY <1>1, <1>2

-----------------------------------------------------------------------------
(* Types *)

(* A membership list in the order of the join times. *)
LEMMA SortedIs ==
  ASSUME NEW S \in SUBSET Servers
  PROVE  /\ Sorted(S) \in Seq(Servers) /\ Len(Sorted(S)) = Cardinality(S) /\ Cardinality(S) \in Nat
         /\ \A i \in 1 .. Len(Sorted(S)) : Sorted(S)[i] \in S
<1> DEFINE n == Cardinality(S)
<1>1. IsFiniteSet(S) /\ n \in Nat
  BY HashAssumption, FS_Subset, FS_CardinalityType
<1>2. /\ \A s \in S : JoinTime[s] \in Nat
      /\ \A s, t \in S : JoinTime[s] = JoinTime[t] => s = t
  BY JoinTimeAssumption
<1>3. Sorted(S) \in [1 .. n -> S]
  BY <1>1, <1>2, InOrderIs DEF Sorted
<1> HIDE DEF n
<1>4. Sorted(S) \in [1 .. n -> Servers]
  BY <1>3
<1>5. Sorted(S) \in Seq(Servers) /\ Len(Sorted(S)) = n
  BY <1>1, <1>4, FunctionIsSeq
<1>6. \A i \in 1 .. Len(Sorted(S)) : Sorted(S)[i] \in S
  BY <1>3, <1>5
<1>. QED  BY <1>1, <1>5, <1>6 DEF n

(* A hash ring of a membership list. *)
LEMMA RingOfIs ==
  ASSUME NEW hr \in Seq(Node), NEW S \in SUBSET Servers
  PROVE  Refresh(Sorted(S)) \in Seq(Node) /\ RingOf(hr, S) \in Seq(Node)
BY SortedIs, RefreshIs DEF RingOf

(* Part of one. *)
LEMMA PlacedIs ==
  ASSUME NEW S \in SUBSET Servers, NEW k \in 0 .. Cardinality(S)
  PROVE  SubSeq(Place(Sorted(S)), 1, k) \in Seq(Node)
<1> DEFINE P == Place(Sorted(S))
<1>1. P \in Seq(Node) /\ Len(P) = Cardinality(S) /\ Cardinality(S) \in Nat
  BY SortedIs, PlaceIs
<1> HIDE DEF P
<1>2. \A i \in 1 .. k : P[i] \in Node
  BY <1>1, ElementOfSeq
<1>3. SubSeq(P, 1, k) \in Seq(Node)
  BY <1>1, <1>2, SubSeqProperties
<1>. QED  BY <1>3 DEF P

(* Types with what the newest of some versions and answers needs: there    *)
(* are finitely many of them.                                              *)
Versions == {V \in SUBSET Version : IsFiniteSet(V)}
TypeInv == TypeOK /\ ops \in Seq(Command) /\ table \in [Servers -> [Files -> Versions]]

(* Commands and finite sets of versions are of the types in TypeOK. *)
LEMMA FinerTypes ==
  /\ Seq(Command) \subseteq Seq(Op)
  /\ [Servers -> [Files -> Versions]] \subseteq [Servers -> [Files -> SUBSET Version]]
<1>1. Command \subseteq Op /\ Versions \subseteq SUBSET Version
  BY DEF Command, Versions
<1>. QED  BY <1>1, SeqMonotonic

(* The initial state. *)
LEMMA TypeInit == Init => TypeInv
<1> SUFFICES ASSUME Init PROVE TypeInv
  OBVIOUS
<1>1. hashRing \in [Servers -> Seq([key : Nat, proc : Servers])]
  <2>1. \A s \in Servers : members[s] \in SUBSET Servers
    BY JoinTimeAssumption DEF Init
  <2>2. \A s \in Servers : Refresh(Sorted(members[s])) \in Seq(Node)
    <3> SUFFICES ASSUME NEW s \in Servers PROVE Refresh(Sorted(members[s])) \in Seq(Node)
      OBVIOUS
    <3>1. members[s] \in SUBSET Servers /\ <<>> \in Seq(Node)
      BY <2>1
    <3>. QED  BY <3>1, RingOfIs
  <2>. QED  BY <2>2 DEF Init, Node
<1>2. ops \in Seq(Command) /\ table \in [Servers -> [Files -> Versions]]
  <2>1. {} \in Versions
    BY FS_EmptySet DEF Versions
  <2>. QED  BY <2>1 DEF Init
<1>3. ops \in Seq(Op) /\ table \in [Servers -> [Files -> SUBSET Version]]
  BY <1>2, FinerTypes
<1>4. /\ up \subseteq Servers /\ callbacks \in [Servers -> Nat] /\ signal \subseteq Servers
      /\ converging \subseteq Servers
      /\ members \in [Servers -> SUBSET Servers] /\ suspects \in [Servers -> SUBSET Servers]
      /\ counter \in [Servers -> Nat]
  BY JoinTimeAssumption DEF Init
<1>5. /\ disk \in [Servers -> SUBSET Stored] /\ trash \in [Servers -> SUBSET Stored]
      /\ transfers \in [Servers -> SUBSET Job] /\ storing = {}
      /\ changes \in 0 .. MaxChanges /\ errors \in 0 .. MaxErrors
  BY SDFSBoundsAssumption DEF Init
<1>. QED  BY <1>1, <1>2, <1>3, <1>4, <1>5 DEF TypeInv, TypeOK

(* What the ring does keeps the types. *)
LEMMA RingType ==
  ASSUME TypeInv, NEW s \in Servers, NEW t \in Servers,
         Join(s, t) \/ Insert(s, t) \/ Suspect(s, t) \/ Expire(s, t) \/ OnMemberUpdate(s)
  PROVE  TypeInv'
<1>1. /\ up \subseteq Servers /\ callbacks \in [Servers -> Nat] /\ signal \subseteq Servers
      /\ members \in [Servers -> SUBSET Servers] /\ suspects \in [Servers -> SUBSET Servers]
      /\ changes \in 0 .. MaxChanges /\ MaxChanges \in Nat
  BY SDFSBoundsAssumption DEF TypeInv, TypeOK
<1>2. ASSUME NEW S, Notified(S) PROVE callbacks' \in [Servers -> Nat]
  BY <1>1, <1>2 DEF Notified
<1>3. ASSUME callbacks[s] > 0 PROVE [callbacks EXCEPT ![s] = @ - 1] \in [Servers -> Nat]
  BY <1>1, <1>3
<1>4. callbacks' \in [Servers -> Nat]
  BY <1>1, <1>2, <1>3 DEF Join, Insert, Suspect, Expire, OnMemberUpdate
<1>5. up' \subseteq Servers /\ signal' \subseteq Servers
  BY <1>1 DEF Join, Insert, Suspect, Expire, OnMemberUpdate, serverVars
<1>6. members' \in [Servers -> SUBSET Servers]
  <2>1. CASE Join(s, t)
    <3> DEFINE m == [members EXCEPT ![s] = {s}]
    <3>1. m \in [Servers -> SUBSET Servers] /\ members' = [m EXCEPT ![t] = @ \cup {s}]
      BY <1>1, <2>1 DEF Join
    <3> HIDE DEF m
    <3>. QED  BY <3>1
  <2>. QED  BY <1>1, <2>1 DEF Insert, Suspect, Expire, OnMemberUpdate
<1>7. suspects' \in [Servers -> SUBSET Servers]
  BY <1>1 DEF Join, Insert, Suspect, Expire, OnMemberUpdate
<1>8. changes' \in 0 .. MaxChanges
  BY <1>1 DEF Join, Insert, Suspect, Expire, OnMemberUpdate
<1>9. UNCHANGED <<hashRing, counter, table, disk, storing, trash, transfers, converging, ops, errors>>
  BY DEF Join, Insert, Suspect, Expire, OnMemberUpdate, serverVars
<1>. QED  BY <1>4, <1>5, <1>6, <1>7, <1>8, <1>9 DEF TypeInv, TypeOK

(* A crash empties what the process had in memory. *)
LEMMA CrashType ==
  ASSUME TypeInv, NEW s \in Servers, Crash(s)
  PROVE  TypeInv'
<1>1. /\ callbacks \in [Servers -> Nat] /\ members \in [Servers -> SUBSET Servers]
      /\ suspects \in [Servers -> SUBSET Servers] /\ hashRing \in [Servers -> Seq(Node)]
      /\ table \in [Servers -> [Files -> Versions]] /\ trash \in [Servers -> SUBSET Stored]
      /\ transfers \in [Servers -> SUBSET Job] /\ changes \in 0 .. MaxChanges /\ MaxChanges \in Nat
  BY SDFSBoundsAssumption DEF TypeInv, TypeOK, Node
<1>2. up' \subseteq Servers /\ signal' \subseteq Servers /\ converging' \subseteq Servers
  BY DEF TypeInv, TypeOK, Crash
<1>3. callbacks' \in [Servers -> Nat] /\ members' \in [Servers -> SUBSET Servers]
  BY <1>1 DEF Crash
<1>4. suspects' \in [Servers -> SUBSET Servers] /\ trash' \in [Servers -> SUBSET Stored]
  BY <1>1 DEF Crash
<1>5. hashRing' \in [Servers -> Seq(Node)] /\ transfers' \in [Servers -> SUBSET Job]
  BY <1>1 DEF Crash
<1>6. table' \in [Servers -> [Files -> Versions]]
  <2>1. [f \in Files |-> {}] \in [Files -> Versions]
    BY FS_EmptySet DEF Versions
  <2>. QED  BY <1>1, <2>1 DEF Crash
<1>7. storing' \subseteq storing /\ changes' \in 0 .. MaxChanges
  BY <1>1 DEF Crash
<1>8. UNCHANGED <<counter, disk, ops, errors>>
  BY DEF Crash
<1>. QED
  BY <1>2, <1>3, <1>4, <1>5, <1>6, <1>7, <1>8, FinerTypes DEF TypeInv, TypeOK, Node

(* The leader gives a command its number. *)
LEMMA FetchType ==
  ASSUME TypeInv, NEW c \in Clients, NEW f \in Files, NEW type \in Types, FetchSequence(c, type, f)
  PROVE  TypeInv' /\ \E op \in Command :
           /\ ops' = Append(ops, op) /\ op.type = type /\ op.file = f /\ op.stage = "fetched"
           /\ op.asked = {} /\ op.acks = {} /\ op.whole /\ op.seq = NextSequence(LookupLeader(c))
           /\ op.before = {o \in DOMAIN ops : ops[o].stage = "ok"} /\ op.client = c
<1> DEFINE leader == LookupLeader(c)
           before == {o \in DOMAIN ops : ops[o].stage = "ok"}
           seq == NextSequence(leader)
           op == [type |-> type, file |-> f, client |-> c, stage |-> "fetched",
                  seq |-> seq, asked |-> {}, acks |-> {}, need |-> 0,
                  before |-> before, whole |-> TRUE, done |-> 0]
<1>1. leader \in Servers /\ counter \in [Servers -> Nat] /\ ops \in Seq(Command)
  BY DEF TypeInv, TypeOK, FetchSequence
<1>2. /\ ops' = Append(ops, op) /\ counter' = [counter EXCEPT ![leader] = @ + 1]
      /\ UNCHANGED <<up, members, suspects, callbacks, signal, hashRing, table, disk, storing, trash,
                     transfers, converging, changes, errors>>
  BY DEF FetchSequence, ringVars
<1>3. seq \in Seqs
  <2> HIDE DEF leader
  <2>. QED  BY <1>1, JoinTimeAssumption DEF NextSequence, Seqs
<1>4. before \in SUBSET Nat
  BY <1>1
<1>5. counter' \in [Servers -> Nat]
  <2> HIDE DEF leader, op
  <2>. QED  BY <1>1, <1>2
<1>6. c \in Servers /\ 0 \in 0 .. MaxChanges
  BY JoinTimeAssumption, SDFSBoundsAssumption
<1> HIDE DEF seq, before
<1>7. op \in Op
  BY <1>3, <1>4, <1>6 DEF Op
<1>8. op \in Command
  BY <1>7, FS_EmptySet DEF Command
<1>9. /\ op.type = type /\ op.file = f /\ op.stage = "fetched"
      /\ op.asked = {} /\ op.acks = {} /\ op.whole /\ op.before = before /\ op.seq = seq /\ op.client = c
  OBVIOUS
<1> HIDE DEF op
<1>10. ops' \in Seq(Command)
  BY <1>1, <1>2, <1>8
<1>11. TypeInv'
  BY <1>2, <1>5, <1>10, FinerTypes DEF TypeInv, TypeOK
<1>. QED  BY <1>2, <1>8, <1>9, <1>11 DEF before, seq

(* A command is routed. *)
LEMMA RouteType ==
  ASSUME TypeInv, NEW o \in DOMAIN ops, RouteTask(o)
  PROVE  TypeInv' /\ \E x \in Command : ops' = [ops EXCEPT ![o] = x] /\ Carries(x, ops[o])
<1> DEFINE c == ops[o].client
<1>1. /\ ops \in Seq(Command) /\ ops[o] \in Command /\ hashRing \in [Servers -> Seq(Node)]
      /\ members \in [Servers -> SUBSET Servers]
  <2>1. ops \in Seq(Command) /\ ops[o] \in Command
    BY DEF TypeInv
  <2>. QED  BY <2>1 DEF TypeInv, TypeOK, Node
<1>2. c \in Servers /\ hashRing[c] \in Seq(Node) /\ members[c] \in SUBSET Servers
  BY <1>1 DEF Command, Op
<1>3. \E x \in Command : ops' = [ops EXCEPT ![o] = x] /\ Carries(x, ops[o])
  <2>1. CASE ops' = [ops EXCEPT ![o] = Routed(@, hashRing[c], hashRing[c])]
    <3> DEFINE x == Routed(ops[o], hashRing[c], hashRing[c])
    <3>1. x \in Command /\ Carries(x, ops[o])
      BY <1>1, <1>2, RoutedIs DEF Carries, SameCommand
    <3>2. ops' = [ops EXCEPT ![o] = x]
      BY <2>1
    <3> HIDE DEF x
    <3>. QED  BY <3>1, <3>2
  <2>2. CASE \E k \in 0 .. Cardinality(members[c]) - 1 : \E more \in k .. Cardinality(members[c]) :
               ops' = [ops EXCEPT ![o] =
                 [Routed(@, SubSeq(Place(Sorted(members[c])), 1, k),
                            SubSeq(Place(Sorted(members[c])), 1, more)) EXCEPT !.whole = FALSE]]
    <3> DEFINE part(k) == SubSeq(Place(Sorted(members[c])), 1, k)
    <3>1. PICK k \in 0 .. Cardinality(members[c]) - 1 : \E more \in k .. Cardinality(members[c]) :
            ops' = [ops EXCEPT ![o] = [Routed(@, part(k), part(more)) EXCEPT !.whole = FALSE]]
      BY <2>2
    <3>2. PICK more \in k .. Cardinality(members[c]) :
            ops' = [ops EXCEPT ![o] = [Routed(@, part(k), part(more)) EXCEPT !.whole = FALSE]]
      BY <3>1
    <3>3. Cardinality(members[c]) \in Nat
      BY <1>2, SortedIs
    <3>4. k \in 0 .. Cardinality(members[c]) /\ more \in 0 .. Cardinality(members[c])
      BY <3>3
    <3>5. part(k) \in Seq(Node) /\ part(more) \in Seq(Node)
      BY <1>2, <3>4, PlacedIs
    <3> HIDE DEF part, c
    <3> DEFINE x == Routed(ops[o], part(k), part(more))
    <3>6. x \in Command /\ SameCommand(x, ops[o]) /\ x.seq = ops[o].seq
      BY <1>1, <3>5, RoutedIs
    <3>7. ops' = [ops EXCEPT ![o] = [x EXCEPT !.whole = FALSE]]
      BY <3>2
    <3> HIDE DEF x
    <3>8. [x EXCEPT !.whole = FALSE] \in Command /\ Carries([x EXCEPT !.whole = FALSE], ops[o])
      <4> DEFINE y == [x EXCEPT !.whole = FALSE]
      <4>1. /\ y \in Command /\ y.type = x.type /\ y.client = x.client /\ y.before = x.before
            /\ y.seq = x.seq
        BY <3>6, HalfIs
      <4> HIDE DEF y
      <4>2. Carries(y, ops[o])
        BY <3>6, <4>1 DEF Carries, SameCommand
      <4>. QED  BY <4>1, <4>2 DEF y
    <3>. QED  BY <3>7, <3>8
  <2>. QED  BY <2>1, <2>2 DEF RouteTask
<1>4. ops' \in Seq(Command)
  BY <1>1, <1>3, OneChanges
<1>5. errors' \in 0 .. MaxErrors
  BY SDFSBoundsAssumption DEF RouteTask, TypeInv, TypeOK
<1>6. UNCHANGED <<ringVars, serverVars, changes>>
  BY DEF RouteTask
<1>7. TypeInv'
  BY <1>4, <1>5, <1>6, FinerTypes DEF TypeInv, TypeOK, ringVars, serverVars
<1>. QED  BY <1>3, <1>7

(* The latest version is one of the versions. *)
LEMMA LatestIs ==
  ASSUME TypeInv, NEW s \in Servers, NEW f \in Files, HasFile(s, f)
  PROVE  /\ Latest(s, f) \in table[s][f] /\ Latest(s, f).seq \in Seqs
         /\ \A w \in table[s][f] : ~Less(Latest(s, f).seq, w.seq)
<1>1. IsFiniteSet(table[s][f]) /\ table[s][f] # {} /\ \A v \in table[s][f] : v.seq \in Seqs
  <2>1. table[s][f] \in Versions
    BY DEF TypeInv
  <2>. QED  BY <2>1 DEF Versions, Version, HasFile
<1>2. \E v \in table[s][f] : \A w \in table[s][f] : ~Less(v.seq, w.seq)
  BY <1>1, NewestExists
<1>. QED  BY <1>1, <1>2 DEF Latest

(* What a handler makes of the command it answers. *)
LEMMA AnswerIs ==
  ASSUME TypeInv, NEW o \in DOMAIN ops, NEW s \in Servers, NEW seq \in Seqs
  PROVE  LET h == Handled(ops[o], s)
             x == Acknowledged(h, s, seq)
         IN  /\ h \in Command /\ x \in Command /\ SameCommand(x, ops[o])
             /\ Counts(x, h, ops[o].acks \cup {[from |-> s, seq |-> seq]})
<1> DEFINE h == Handled(ops[o], s)
<1>1. ops[o] \in Command /\ changes \in 0 .. MaxChanges
  BY DEF TypeInv, TypeOK
<1>2. h \in Command /\ SameCommand(h, ops[o]) /\ h.acks = ops[o].acks
  BY <1>1, HandledIs
<1> HIDE DEF h
<1>3. /\ Acknowledged(h, s, seq) \in Command /\ SameCommand(Acknowledged(h, s, seq), h)
      /\ Counts(Acknowledged(h, s, seq), h, h.acks \cup {[from |-> s, seq |-> seq]})
  BY <1>1, <1>2, AcknowledgedIs
<1>. QED  BY <1>2, <1>3 DEF h, SameCommand

(* The sequence number of no version is one. *)
LEMMA NoSeqIs == NoSeq \in Seqs
BY DEF NoSeq, Seqs

(* The handlers that only answer, the timeout and the failing request. *)
LEMMA ReadType ==
  ASSUME TypeInv, NEW o \in DOMAIN ops,
         Timeout(o) \/ \E s \in Servers : RequestFails(o, s) \/ Read(o, s) \/ Lookup(o, s)
  PROVE  TypeInv'
<1>1. ops \in Seq(Command) /\ ops[o] \in Command /\ ops[o].file \in Files
      /\ changes \in 0 .. MaxChanges
  <2>1. ops \in Seq(Command) /\ changes \in 0 .. MaxChanges
    BY DEF TypeInv, TypeOK
  <2>2. ops[o] \in Command
    BY <2>1
  <2>3. ops[o].file \in Files
    BY <2>2 DEF Command, Op
  <2>. QED  BY <2>1, <2>2, <2>3
<1>2. \E x \in Command : ops' = [ops EXCEPT ![o] = x]
  <2>1. CASE Timeout(o)
    <3>1. Finish(ops[o], IF ops[o].type \in Reads THEN "notfound" ELSE "failed") \in Command
      BY <1>1, FinishIs
    <3>. QED  BY <2>1, <3>1 DEF Timeout
  <2>2. ASSUME NEW s \in Servers, Read(o, s) PROVE \E x \in Command : ops' = [ops EXCEPT ![o] = x]
    <3>1. Handled(ops[o], s) \in Command
      BY <1>1, HandledIs
    <3>2. ASSUME HasFile(s, ops[o].file)
          PROVE  Acknowledged(Handled(ops[o], s), s, Latest(s, ops[o].file).seq) \in Command
      BY <1>1, <3>2, LatestIs, AnswerIs
    <3>. QED  BY <2>2, <3>1, <3>2 DEF Read
  <2>3. ASSUME NEW s \in Servers, Lookup(o, s) PROVE \E x \in Command : ops' = [ops EXCEPT ![o] = x]
    <3>1. Handled(ops[o], s) \in Command /\ Acknowledged(Handled(ops[o], s), s, NoSeq) \in Command
      BY <1>1, HandledIs, AnswerIs, NoSeqIs
    <3>. QED  BY <2>3, <3>1 DEF Lookup
  <2>4. ASSUME NEW s \in Servers, RequestFails(o, s)
        PROVE  \E x \in Command : ops' = [ops EXCEPT ![o] = x]
    BY <1>1, <2>4, HandledIs DEF RequestFails
  <2>. QED  BY <2>1, <2>2, <2>3, <2>4
<1>3. ops' \in Seq(Command)
  BY <1>1, <1>2, OneChanges
<1>4. UNCHANGED <<ringVars, serverVars, changes>>
  BY DEF RequestFails, Timeout, Read, Lookup
<1>5. errors' \in 0 .. MaxErrors
  <2>1. errors \in 0 .. MaxErrors
    BY DEF TypeInv, TypeOK
  <2>2. errors' = errors \/ (errors < MaxErrors /\ errors' = errors + 1)
    BY DEF RequestFails, Timeout, Read, Lookup
  <2>. QED  BY <2>1, <2>2, SDFSBoundsAssumption
<1>. QED  BY <1>3, <1>4, <1>5, FinerTypes DEF TypeInv, TypeOK, ringVars, serverVars

(* The file table of one server gets or loses versions of one file. *)
LEMMA TableType ==
  ASSUME TypeInv, NEW s \in Servers, NEW f \in Files, NEW V \in Versions
  PROVE  LET new == [table EXCEPT ![s][f] = V]
         IN  /\ new \in [Servers -> [Files -> Versions]] /\ new[s][f] = V
             /\ \A t \in Servers, g \in Files : t # s \/ g # f => new[t][g] = table[t][g]
BY DEF TypeInv

(* One version more is still finitely many. *)
LEMMA VersionsGrow ==
  ASSUME NEW V \in Versions, NEW v \in Version
  PROVE  V \cup {v} \in Versions
BY FS_AddElement DEF Versions

(* The handlers of Put and Delete. *)
LEMMA WriteType ==
  ASSUME TypeInv, NEW o \in DOMAIN ops, NEW s \in Servers, Write(o, s) \/ Delete(o, s)
  PROVE  TypeInv'
<1> DEFINE f == ops[o].file
           v == [seq |-> ops[o].seq, id |-> o]
           w == [at |-> s, file |-> f, seq |-> v.seq, op |-> o, by |-> ops[o].client]
<1>1. ops \in Seq(Command) /\ ops[o] \in Command /\ o \in Nat
  BY DEF TypeInv
<1>2. f \in Files /\ ops[o].seq \in Seqs /\ ops[o].client \in Servers
  BY <1>1 DEF Command, Op
<1>3. v \in Version /\ w \in [at : Servers, file : Files, seq : Seqs, op : Nat, by : Servers]
  BY <1>1, <1>2 DEF Version
<1>4. table[s][f] \in Versions /\ {} \in Versions
  BY <1>2, FS_EmptySet DEF TypeInv, Versions
<1>5. \E x \in Command : ops' = [ops EXCEPT ![o] = x]
  <2>1. Handled(ops[o], s) \in Command
    BY <1>1, HandledIs
  <2>2. Acknowledged(Handled(ops[o], s), s, ops[o].seq) \in Command
    BY <1>2, AnswerIs
  <2>3. Acknowledged(Handled(ops[o], s), s, NoSeq) \in Command
    BY NoSeqIs, AnswerIs
  <2>. QED  BY <2>1, <2>2, <2>3 DEF Write, Delete
<1>6. ops' \in Seq(Command)
  BY <1>1, <1>5, OneChanges
<1>7. table' \in [Servers -> [Files -> Versions]]
  <2>1. table[s][f] \cup {v} \in Versions
    BY <1>3, <1>4, VersionsGrow
  <2>2. [table EXCEPT ![s][f] = table[s][f] \cup {v}] \in [Servers -> [Files -> Versions]]
    BY <1>2, <2>1, TableType
  <2>3. [table EXCEPT ![s][f] = {}] \in [Servers -> [Files -> Versions]]
    BY <1>2, <1>4, TableType
  <2>4. \/ table' = table
        \/ table' = [table EXCEPT ![s][f] = table[s][f] \cup {v}]
        \/ table' = [table EXCEPT ![s][f] = {}]
    BY DEF Write, Delete, Discard
  <2>. QED  BY <2>2, <2>3, <2>4 DEF TypeInv
<1>8. storing' \subseteq [at : Servers, file : Files, seq : Seqs, op : Nat, by : Servers]
  <2>1. storing' \subseteq storing \cup {w}
    BY DEF Write, Delete
  <2>. QED  BY <1>3, <2>1 DEF TypeInv, TypeOK
<1>9. trash' \in [Servers -> SUBSET Stored]
  <2>1. Names(s, {f}) \subseteq Stored
    <3>1. \A u \in table[s][f] : u.seq \in Seqs
      BY <1>4 DEF Versions, Version
    <3>. QED  BY <1>2, <3>1 DEF Names, Stored
  <2>2. trash' = trash \/ trash' = [trash EXCEPT ![s] = @ \cup Names(s, {f})]
    BY DEF Write, Delete, Discard
  <2>3. trash \in [Servers -> SUBSET Stored]
    BY DEF TypeInv, TypeOK
  <2>. QED  BY <2>1, <2>2, <2>3
<1>10. UNCHANGED <<up, members, suspects, callbacks, signal, hashRing, counter, disk, transfers,
                   converging, changes, errors>>
  BY DEF Write, Delete, ringVars
<1>. QED  BY <1>6, <1>7, <1>8, <1>9, <1>10, FinerTypes DEF TypeInv, TypeOK

(* The end of a Write. *)
LEMMA StoreType ==
  ASSUME TypeInv, NEW w \in storing, WriteSDFSFile(w) \/ WriteFails(w)
  PROVE  TypeInv'
<1>1. /\ w.at \in Servers /\ w.file \in Files /\ w.seq \in Seqs
      /\ disk \in [Servers -> SUBSET Stored] /\ changes \in 0 .. MaxChanges
  BY DEF TypeInv, TypeOK
<1>2. ops \in Seq(Command) /\ \A o \in DOMAIN ops : ops[o] \in Command
  BY DEF TypeInv
<1>3. ops' \in Seq(Command)
  <2>1. ASSUME ops' = [ops EXCEPT ![w.op] = Acknowledged(@, w.at, w.seq)]
        PROVE  ops' \in Seq(Command)
    <3> DEFINE x == Acknowledged(ops[w.op], w.at, w.seq)
    <3>1. w.op \in DOMAIN ops => x \in Command
      BY <1>1, <1>2, AcknowledgedIs
    <3>2. ops' = [ops EXCEPT ![w.op] = x]
      BY <2>1
    <3> HIDE DEF x
    <3>. QED  BY <1>2, <3>1, <3>2, OneChanges
  <2>. QED  BY <1>2, <2>1 DEF WriteSDFSFile, WriteFails
<1>4. disk' \in [Servers -> SUBSET Stored]
  <2>1. [file |-> w.file, seq |-> w.seq] \in Stored
    BY <1>1 DEF Stored
  <2>. QED  BY <1>1, <2>1 DEF WriteSDFSFile, WriteFails
<1>5. errors' \in 0 .. MaxErrors /\ storing' \subseteq storing
  BY SDFSBoundsAssumption DEF WriteSDFSFile, WriteFails, TypeInv, TypeOK
<1>6. UNCHANGED <<up, members, suspects, callbacks, signal, hashRing, counter, table, trash, transfers,
                  converging, changes>>
  BY DEF WriteSDFSFile, WriteFails, ringVars
<1>. QED  BY <1>3, <1>4, <1>5, <1>6, FinerTypes DEF TypeInv, TypeOK

(* Recycle drops files, and deletes some from the disk. *)
LEMMA RecycleType ==
  ASSUME TypeInv, NEW s \in Servers, Recycle(s)
  PROVE  TypeInv'
<1> DEFINE hr == RingOf(hashRing[s], members[s])
           dropped == IF Stable(s) THEN NoReplicaOf(s, hr) ELSE {}
<1>1. /\ hashRing \in [Servers -> Seq(Node)] /\ members[s] \in SUBSET Servers
      /\ disk \in [Servers -> SUBSET Stored] /\ trash \in [Servers -> SUBSET Stored]
      /\ table \in [Servers -> [Files -> Versions]]
  BY DEF TypeInv, TypeOK, Node
<1>2. hr \in Seq(Node)
  BY <1>1, RingOfIs
<1>3. /\ s \in up \ converging
      /\ hashRing' = IF Stable(s) THEN [hashRing EXCEPT ![s] = hr] ELSE hashRing
      /\ \E deleted \in SUBSET trash[s] :
           /\ disk' = [disk EXCEPT ![s] = @ \ deleted]
           /\ trash' = [trash EXCEPT ![s] = (@ \ deleted) \cup Names(s, dropped)]
      /\ table' = [table EXCEPT ![s] = [f \in Files |-> IF f \in dropped THEN {} ELSE @[f]]]
      /\ UNCHANGED <<ringVars, signal, counter, storing, transfers, converging, ops, changes, errors>>
  BY DEF Recycle
<1>4. dropped \subseteq Files
  BY DEF NoReplicaOf
<1> HIDE DEF hr, dropped
<1>5. hashRing' \in [Servers -> Seq(Node)]
  BY <1>1, <1>2, <1>3
<1>6. Names(s, dropped) \subseteq Stored
  <2>1. \A f \in dropped : \A v \in table[s][f] : v.seq \in Seqs
    BY <1>1, <1>4 DEF Versions, Version
  <2>. QED  BY <1>4, <2>1 DEF Names, Stored
<1>7. disk' \in [Servers -> SUBSET Stored] /\ trash' \in [Servers -> SUBSET Stored]
  <2>1. PICK deleted : /\ disk' = [disk EXCEPT ![s] = @ \ deleted]
                       /\ trash' = [trash EXCEPT ![s] = (@ \ deleted) \cup Names(s, dropped)]
    BY <1>3
  <2>. QED  BY <1>1, <1>6, <2>1
<1>8. table' \in [Servers -> [Files -> Versions]]
  <2>1. {} \in Versions
    BY FS_EmptySet DEF Versions
  <2>. QED  BY <1>1, <1>3, <2>1
<1>. QED  BY <1>3, <1>5, <1>7, <1>8, FinerTypes DEF TypeInv, TypeOK, Node, ringVars

(* Converge makes its transfers, and ends. *)
LEMMA ConvergeType ==
  ASSUME TypeInv, NEW s \in Servers, Converge(s) \/ Converged(s)
  PROVE  TypeInv'
<1>1. /\ hashRing \in [Servers -> Seq(Node)] /\ members[s] \in SUBSET Servers
      /\ transfers \in [Servers -> SUBSET Job]
  BY DEF TypeInv, TypeOK, Node
<1>2. CASE Converged(s)
  <2>1. transfers' \in [Servers -> SUBSET Job]
    BY <1>1, <1>2 DEF Converged
  <2>2. signal' \subseteq signal /\ converging' \subseteq converging
    BY <1>2 DEF Converged
  <2>3. UNCHANGED <<ringVars, hashRing, counter, table, disk, storing, trash, ops, changes, errors>>
    BY <1>2 DEF Converged
  <2>. QED  BY <2>1, <2>2, <2>3 DEF TypeInv, TypeOK, ringVars
<1>3. CASE Converge(s)
  <2> DEFINE hr == RingOf(hashRing[s], members[s])
             curr == MainFiles(s, hr)
             moved(p) == {f \in MainFiles(s, hashRing[s]) : RoutesTo(hr, f, p)}
             jobs == {TransferJob(p, moved(p)) : p \in FindPredecessor(hr, s)}
                       \cup {TransferJob(t, curr) : t \in FindSuccessors(hr, s, REPLICA_COUNT - 1)}
  <2>1. hr \in Seq(Node)
    BY <1>1, RingOfIs
  <2>2. /\ hashRing' = [hashRing EXCEPT ![s] = hr]
        /\ transfers' = [transfers EXCEPT ![s] = {j \in jobs : j.files # {}}]
        /\ converging' = converging \cup {s}
        /\ UNCHANGED <<ringVars, signal, counter, table, disk, storing, trash, ops, changes, errors>>
    BY <1>3 DEF Converge
  <2>3. curr \subseteq Files /\ \A p : moved(p) \subseteq Files
    BY DEF MainFiles
  <2> HIDE DEF hr, curr, moved
  <2>4. \A t \in Servers : \A F \in SUBSET Files : TransferJob(t, F) \in Job
    BY DEF TransferJob, Job
  <2>5. FindSuccessors(hr, s, REPLICA_COUNT - 1) \subseteq Servers /\ FindPredecessor(hr, s) \subseteq Servers
    <3>1. REPLICA_COUNT - 1 \in Nat
      BY ConsistencyAssumption
    <3>. QED  BY <2>1, <3>1, NeighboursAre
  <2>6. jobs \subseteq Job
    BY <2>3, <2>4, <2>5
  <2> HIDE DEF jobs
  <2>7. transfers' \in [Servers -> SUBSET Job] /\ hashRing' \in [Servers -> Seq(Node)]
    BY <1>1, <2>1, <2>2, <2>6
  <2>8. converging' \subseteq Servers
    BY <2>2 DEF TypeInv, TypeOK
  <2>. QED  BY <2>2, <2>7, <2>8 DEF TypeInv, TypeOK, Node, ringVars
<1>. QED  BY <1>2, <1>3

(* The three steps of a transfer. *)
LEMMA TransferType ==
  ASSUME TypeInv, NEW s \in Servers, NEW j \in transfers[s],
         \/ BulkLookup(s, j)
         \/ \E f \in j.files : GetVersions(s, j, f)
         \/ \E i \in j.items : TransferFile(s, j, i)
  PROVE  TypeInv'
<1> DEFINE Item == [file : Files, seq : Seqs, id : Nat]
<1>1. /\ transfers \in [Servers -> SUBSET Job] /\ table \in [Servers -> [Files -> Versions]]
      /\ j \in Job /\ j.to \in Servers /\ j.files \subseteq Files /\ j.items \subseteq Item
  <2>1. transfers \in [Servers -> SUBSET Job] /\ table \in [Servers -> [Files -> Versions]]
    BY DEF TypeInv, TypeOK
  <2>2. j \in Job
    BY <2>1
  <2>. QED  BY <2>1, <2>2 DEF Job
<1>2. CASE BulkLookup(s, j)
  <2> DEFINE missing == {f \in j.files : ~HasFile(j.to, f)}
             k == [j EXCEPT !.files = missing]
             l == [k EXCEPT !.looked = TRUE]
  <2>1. /\ transfers' = [transfers EXCEPT ![s] = (@ \ {j}) \cup IF j.to \in up THEN {l} ELSE {}]
        /\ UNCHANGED <<ringVars, signal, hashRing, counter, table, disk, storing, trash, converging, ops,
                       changes, errors>>
    BY <1>1, <1>2 DEF BulkLookup, Job
  <2>2. missing \subseteq Files
    BY <1>1
  <2> HIDE DEF missing
  <2>3. k \in Job
    BY <1>1, <2>2 DEF Job
  <2> HIDE DEF k
  <2>4. l \in Job
    BY <2>3 DEF Job
  <2> HIDE DEF l
  <2>5. transfers' \in [Servers -> SUBSET Job]
    BY <1>1, <2>1, <2>4
  <2>. QED  BY <2>1, <2>5 DEF TypeInv, TypeOK, ringVars
<1>3. ASSUME NEW f \in j.files, GetVersions(s, j, f)
      PROVE  TypeInv'
  <2> DEFINE items == {[file |-> f, seq |-> v.seq, id |-> v.id] : v \in table[s][f]}
             k == [j EXCEPT !.files = @ \ {f}]
             l == [k EXCEPT !.items = items]
  <2>1. /\ transfers' = [transfers EXCEPT ![s] = (@ \ {j}) \cup {l}]
        /\ UNCHANGED <<ringVars, signal, hashRing, counter, table, disk, storing, trash, converging, ops,
                       changes, errors>>
    BY <1>1, <1>3 DEF GetVersions, Job
  <2>2. items \subseteq Item
    <3>1. f \in Files
      BY <1>1
    <3>. QED  BY <1>1, <3>1 DEF Versions, Version
  <2> HIDE DEF items
  <2>3. k \in Job
    BY <1>1 DEF Job
  <2> HIDE DEF k
  <2>4. l \in Job
    BY <2>2, <2>3 DEF Job
  <2> HIDE DEF l
  <2>5. transfers' \in [Servers -> SUBSET Job]
    BY <1>1, <2>1, <2>4
  <2>. QED  BY <2>1, <2>5 DEF TypeInv, TypeOK, ringVars
<1>4. ASSUME NEW i \in j.items, TransferFile(s, j, i)
      PROVE  TypeInv'
  <2> DEFINE v == [seq |-> i.seq, id |-> i.id]
             k == [j EXCEPT !.items = @ \ {i}]
             w == [at |-> j.to, file |-> i.file, seq |-> i.seq, op |-> 0, by |-> s]
  <2>1. /\ transfers' = [transfers EXCEPT ![s] = (@ \ {j}) \cup {k}]
        /\ \/ table' = table
           \/ table' = [table EXCEPT ![j.to][i.file] = table[j.to][i.file] \cup {v}]
        /\ storing' \subseteq storing \cup {w}
        /\ UNCHANGED <<ringVars, signal, hashRing, counter, disk, trash, converging, ops, changes, errors>>
    BY <1>4 DEF TransferFile
  <2>2. i.file \in Files /\ i.seq \in Seqs /\ i.id \in Nat
    BY <1>1
  <2>3. v \in Version /\ w \in [at : Servers, file : Files, seq : Seqs, op : Nat, by : Servers]
    BY <1>1, <2>2 DEF Version
  <2>4. k \in Job
    BY <1>1 DEF Job
  <2> HIDE DEF v, w, k
  <2>5. transfers' \in [Servers -> SUBSET Job]
    BY <1>1, <2>1, <2>4
  <2>6. table' \in [Servers -> [Files -> Versions]]
    <3>1. table[j.to][i.file] \cup {v} \in Versions
      BY <1>1, <2>2, <2>3, VersionsGrow
    <3>2. [table EXCEPT ![j.to][i.file] = table[j.to][i.file] \cup {v}] \in [Servers -> [Files -> Versions]]
      BY <1>1, <2>2, <3>1, TableType
    <3>. QED  BY <1>1, <2>1, <3>2
  <2>7. storing' \subseteq [at : Servers, file : Files, seq : Seqs, op : Nat, by : Servers]
    BY <2>1, <2>3 DEF TypeInv, TypeOK
  <2>. QED  BY <2>1, <2>5, <2>6, <2>7, FinerTypes DEF TypeInv, TypeOK, ringVars
<1>. QED  BY <1>2, <1>3, <1>4

(* The types are kept by every step. *)
LEMMA TypeStep == TypeInv /\ [Next]_vars => TypeInv'
<1> SUFFICES ASSUME TypeInv, [Next]_vars PROVE TypeInv'
  OBVIOUS
<1>1. CASE UNCHANGED vars
  BY <1>1 DEF TypeInv, TypeOK, vars, ringVars, serverVars
<1>2. ASSUME NEW c \in Clients, NEW f \in Files, Put(c, f) \/ Get(c, f) \/ DeleteFile(c, f) \/ List(c, f)
      PROVE  TypeInv'
  BY <1>2, FetchType DEF Put, Get, DeleteFile, List, Types
<1>3. CASE Next
  BY <1>2, <1>3, RingType, CrashType, RouteType, ReadType, WriteType, StoreType, RecycleType,
     ConvergeType, TransferType DEF Next
<1>. QED  BY <1>1, <1>3

(* SDFS keeps its types: what a Get returns is the number of a version, a  *)
(* request or a transfer goes to a server.                                 *)
THEOREM TypeCorrect == Spec => []TypeOK
<1>1. TypeInv => TypeOK
  BY DEF TypeInv
<1>. QED  BY <1>1, TypeInit, TypeStep, PTL DEF Spec
===============================================================================

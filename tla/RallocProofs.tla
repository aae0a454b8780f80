----------------------------- MODULE RallocProofs -----------------------------
(***************************************************************************)
(* Proofs about the allocations, for any number of jobs and workers and    *)
(* any rates: GlobalFairTimeRalloc uses every worker, and is exact for two *)
(* jobs; LocalFairTimeRalloc wastes at most half a worker per job.  The    *)
(* inductions are by a least counterexample.                               *)
(***************************************************************************)
EXTENDS Ralloc, FiniteSetTheorems, WellFoundedInduction, TLAPS

(* A set of numbers that is not empty has a least one. *)
LEMMA Least ==
  ASSUME NEW S \in SUBSET Nat, S # {}
  PROVE  \E x \in S : \A y \in S : x <= y
<1> DEFINE R == OpToRel(<, Nat)
<1>1. \A x, y \in Nat : x < y => <<x, y>> \in R
  BY DEF OpToRel
<1>2. IsWellFoundedOn(R, Nat)
  BY NatLessThanWellFounded
<1> HIDE DEF R
<1>3. PICK x \in S : \A y \in S : ~(<<y, x>> \in R)
  BY <1>2, WFMin
<1>4. \A y \in S : x \in Nat /\ y \in Nat /\ ~(y < x)
  BY <1>1, <1>3
<1>. QED  BY <1>4

(* Induction up to n: a set of numbers that 0 is in, and with every number *)
(* the next, has them all.                                                 *)
LEMMA UpTo ==
  ASSUME NEW n \in Nat, NEW G, 0 \in G, \A i \in 0 .. n : i < n /\ i \in G => i + 1 \in G
  PROVE  \A i \in 0 .. n : i \in G
<1> DEFINE Bad == {i \in 0 .. n : i \notin G}
<1> SUFFICES ASSUME Bad # {} PROVE FALSE
  OBVIOUS
<1>1. PICK k \in Bad : \A j \in Bad : k <= j
  <2>1. Bad \in SUBSET Nat
    OBVIOUS
  <2> HIDE DEF Bad
  <2>. QED  BY <2>1, Least
<1>2. k \in 0 .. n /\ k \notin G /\ k # 0
  BY <1>1
<1>3. k - 1 \in 0 .. n /\ k - 1 < n /\ k - 1 \notin Bad
  <2> HIDE DEF Bad
  <2>. QED  BY <1>1, <1>2
<1>4. k - 1 \in G
  BY <1>3
<1>5. k - 1 + 1 \in G
  BY <1>3, <1>4
<1>. QED  BY <1>2, <1>5

-----------------------------------------------------------------------------
(* Sums *)

(* The function that a sum over the indices D is defined by. *)
Sums(it, f, D) ==
  it = [s \in SUBSET D |-> IF s = {} THEN 0
                           ELSE LET x == CHOOSE x \in s : TRUE IN f[x] + it[s \ {x}]]

SumOf(f, D) == CHOOSE it : Sums(it, f, D)

(* It is the one of the community modules. *)
LEMMA SumIsSumOf ==
  ASSUME NEW f, NEW D
  PROVE  SumFunctionOnSet(f, D) = SumOf(f, D)[D]
BY DEF SumFunctionOnSet, FoldFunctionOnSet, MapThenFoldSet, SumOf, Sums

(* There is such a function. *)
LEMMA SumsExist ==
  ASSUME NEW f, NEW D, IsFiniteSet(D)
  PROVE  Sums(SumOf(f, D), f, D)
<1> DEFINE pick(s) == CHOOSE x \in s : TRUE
           part(h, k) == \A s \in SUBSET D : Cardinality(s) <= k =>
                           h[s] = IF s = {} THEN 0 ELSE f[pick(s)] + h[s \ {pick(s)}]
           G == {k \in Nat : \E h : part(h, k)}
           n == Cardinality(D)
<1>1. n \in Nat
  BY FS_CardinalityType
<1>2. \A s \in SUBSET D : IsFiniteSet(s) /\ Cardinality(s) \in Nat /\ Cardinality(s) <= n
  BY FS_Subset, FS_CardinalityType
<1>3. 0 \in G
  <2> DEFINE h == [s \in SUBSET D |-> 0]
  <2>1. \A s \in SUBSET D : Cardinality(s) <= 0 => s = {} /\ h[s] = 0
    BY <1>2, FS_EmptySet
  <2> HIDE DEF h
  <2>2. part(h, 0)
    BY <2>1
  <2>. QED  BY <2>2
<1>4. ASSUME NEW k \in 0 .. n, k \in G
      PROVE  k + 1 \in G
  <2>1. PICK h : part(h, k)
    BY <1>4
  <2> DEFINE e == [s \in SUBSET D |-> IF Cardinality(s) <= k THEN h[s]
                                      ELSE f[pick(s)] + h[s \ {pick(s)}]]
  <2>2. ASSUME NEW s \in SUBSET D, Cardinality(s) <= k + 1
        PROVE  e[s] = IF s = {} THEN 0 ELSE f[pick(s)] + e[s \ {pick(s)}]
    <3>1. CASE s = {}
      <4>1. Cardinality(s) <= k
        BY <3>1, FS_EmptySet
      <4>. QED  BY <2>1, <3>1, <4>1
    <3>2. CASE s # {}
      <4>1. pick(s) \in s
        BY <3>2
      <4>2. s \ {pick(s)} \in SUBSET D /\ Cardinality(s \ {pick(s)}) = Cardinality(s) - 1
        BY <1>2, <4>1, FS_RemoveElement
      <4> HIDE DEF pick
      <4>3. Cardinality(s \ {pick(s)}) <= k
        BY <1>2, <2>2, <4>2
      <4>4. e[s \ {pick(s)}] = h[s \ {pick(s)}]
        BY <4>2, <4>3
      <4>5. e[s] = f[pick(s)] + h[s \ {pick(s)}]
        BY <2>1, <3>2
      <4>. QED  BY <3>2, <4>4, <4>5
    <3>. QED  BY <3>1, <3>2
  <2> HIDE DEF e
  <2>3. part(e, k + 1)
    BY <2>2
  <2> HIDE DEF part
  <2>. QED  BY <2>3
<1>5. n \in G
  <2> HIDE DEF G, n
  <2>1. \A k \in 0 .. n : k \in G
    BY <1>1, <1>3, <1>4, UpTo
  <2>. QED  BY <1>1, <2>1
<1>6. PICK h : part(h, n)
  BY <1>5
<1> DEFINE it == [s \in SUBSET D |-> h[s]]
<1>7. ASSUME NEW s \in SUBSET D
      PROVE  it[s] = IF s = {} THEN 0 ELSE LET x == CHOOSE x \in s : TRUE IN f[x] + it[s \ {x}]
  BY <1>2, <1>6
<1>8. it = [s \in SUBSET D |-> it[s]]
  OBVIOUS
<1> HIDE DEF it
<1>9. Sums(it, f, D)
  BY <1>7, <1>8 DEF Sums
<1>. QED  BY <1>9 DEF SumOf

(* A sum is that without any one of the indices, and what is there. *)
LEMMA SumsAre ==
  ASSUME NEW D, IsFiniteSet(D), NEW f \in [D -> Int]
  PROVE  /\ SumOf(f, D)[{}] = 0
         /\ \A s \in SUBSET D :
              SumOf(f, D)[s] \in Int /\ \A x \in s : SumOf(f, D)[s] = f[x] + SumOf(f, D)[s \ {x}]
<1> DEFINE it == SumOf(f, D)
<1>0. Sums(it, f, D)
  BY SumsExist
<1> HIDE DEF it
<1> DEFINE good(s) == it[s] \in Int /\ \A x \in s : it[s] = f[x] + it[s \ {x}]
           G == {k \in Nat : \A s \in SUBSET D : Cardinality(s) <= k => good(s)}
           n == Cardinality(D)
<1>1. n \in Nat
  BY FS_CardinalityType
<1>2. \A s \in SUBSET D : IsFiniteSet(s) /\ Cardinality(s) \in Nat /\ Cardinality(s) <= n
  BY FS_Subset, FS_CardinalityType
<1>3. \A s \in SUBSET D : /\ s = {} => it[s] = 0
                          /\ s # {} => \E c \in s : it[s] = f[c] + it[s \ {c}]
  BY <1>0 DEF Sums
<1>4. 0 \in G
  <2>1. \A s \in SUBSET D : Cardinality(s) <= 0 => s = {}
    BY <1>2, FS_EmptySet
  <2>. QED  BY <1>3, <2>1
<1>5. ASSUME NEW k \in 0 .. n, k \in G
      PROVE  k + 1 \in G
  <2>1. ASSUME NEW s \in SUBSET D, Cardinality(s) <= k + 1, s # {}
        PROVE  good(s)
    <3>1. PICK c \in s : it[s] = f[c] + it[s \ {c}]
      BY <1>3, <2>1
    <3>2. ASSUME NEW x \in s PROVE s \ {x} \in SUBSET D /\ Cardinality(s \ {x}) <= k
      <4>1. s \ {x} \in SUBSET D /\ Cardinality(s \ {x}) = Cardinality(s) - 1
        BY <1>2, FS_RemoveElement
      <4>. QED  BY <1>2, <2>1, <4>1
    <3>3. ASSUME NEW x \in s PROVE good(s \ {x})
      BY <1>5, <3>2
    <3>4. it[s] \in Int
      BY <3>1, <3>3
    <3>5. ASSUME NEW x \in s, x # c PROVE it[s] = f[x] + it[s \ {x}]
      <4>1. it[s \ {c}] = f[x] + it[(s \ {c}) \ {x}]
        BY <3>3, <3>5
      <4>2. it[s \ {x}] = f[c] + it[(s \ {x}) \ {c}]
        BY <3>3, <3>5
      <4>3. (s \ {c}) \ {x} = (s \ {x}) \ {c}
        OBVIOUS
      <4>4. (s \ {c}) \ {x} \in SUBSET D /\ Cardinality((s \ {c}) \ {x}) <= k
        <5>1. s \ {c} \in SUBSET D /\ x \in s \ {c} /\ Cardinality(s \ {c}) <= k
          BY <3>2, <3>5
        <5>2. Cardinality((s \ {c}) \ {x}) = Cardinality(s \ {c}) - 1
          BY <1>2, <5>1, FS_RemoveElement
        <5>3. Cardinality(s \ {c}) \in Nat
          BY <1>2, <5>1
        <5>. QED  BY <5>1, <5>2, <5>3
      <4>5. it[(s \ {c}) \ {x}] \in Int
        BY <1>5, <4>4
      <4>6. f[c] \in Int /\ f[x] \in Int
        OBVIOUS
      <4> DEFINE rest == it[(s \ {c}) \ {x}]
      <4>7. it[s] = f[c] + (f[x] + rest) /\ it[s \ {x}] = f[c] + rest /\ rest \in Int
        BY <3>1, <4>1, <4>2, <4>3, <4>5
      <4> HIDE DEF rest
      <4>. QED  BY <4>6, <4>7
    <3>. QED  BY <3>1, <3>4, <3>5
  <2>2. \A s \in SUBSET D : s = {} => good(s)
    BY <1>3
  <2> HIDE DEF good
  <2>. QED  BY <2>1, <2>2
<1>6. \A s \in SUBSET D : good(s)
  <2>1. n \in G
    <3> HIDE DEF G, n
    <3>1. \A k \in 0 .. n : k \in G
      BY <1>1, <1>4, <1>5, UpTo
    <3>. QED  BY <1>1, <3>1
  <2> HIDE DEF good
  <2>. QED  BY <1>2, <2>1
<1>7. it[{}] = 0
  BY <1>3
<1>. QED  BY <1>6, <1>7 DEF it

(* P has the partial sums of n numbers. *)
SumsUp(P, n, f) ==
  P \in [0 .. n -> Int] /\ P[0] = 0 /\ \A i \in 0 .. n - 1 : P[i + 1] = P[i] + f[i]

(* The last of them is the sum. *)
LEMMA PartialSums ==
  ASSUME NEW n \in Nat, NEW f \in [0 .. n - 1 -> Int]
  PROVE  \E P : SumsUp(P, n, f) /\ P[n] = SumFunction(f)
<1> DEFINE D == 0 .. n - 1
           it == SumOf(f, D)
           P == [i \in 0 .. n |-> it[0 .. i - 1]]
<1>1. IsFiniteSet(D)
  BY FS_Interval
<1>2. f \in [D -> Int]
  OBVIOUS
<1>3. SumFunction(f) = it[D]
  BY SumIsSumOf DEF SumFunction
<1>4. /\ it[{}] = 0
      /\ \A s \in SUBSET D : it[s] \in Int /\ \A x \in s : it[s] = f[x] + it[s \ {x}]
  <2> HIDE DEF D
  <2>. QED  BY <1>1, <1>2, SumsAre
<1> HIDE DEF it
<1>5. \A i \in 0 .. n : 0 .. i - 1 \in SUBSET D
  OBVIOUS
<1>6. P \in [0 .. n -> Int]
  BY <1>4, <1>5
<1>7. P[0] = 0
  <2>1. 0 .. 0 - 1 = {}
    OBVIOUS
  <2>. QED  BY <1>4, <2>1
<1>8. P[n] = SumFunction(f)
  BY <1>3
<1>9. ASSUME NEW i \in 0 .. n - 1 PROVE P[i + 1] = P[i] + f[i]
  <2>1. /\ (0 .. i) \ {i} = 0 .. i - 1 /\ 0 .. i \in SUBSET D /\ i \in 0 .. i
        /\ 0 .. (i + 1) - 1 = 0 .. i
    OBVIOUS
  <2>2. it[0 .. i] = f[i] + it[(0 .. i) \ {i}]
    BY <1>4, <2>1, Zenon
  <2>3. it[0 .. i - 1] \in Int /\ f[i] \in Int /\ it[0 .. i] = f[i] + it[0 .. i - 1]
    BY <1>4, <1>5, <2>1, <2>2
  <2>4. P[i + 1] = it[0 .. i] /\ P[i] = it[0 .. i - 1]
    BY <2>1
  <2>. QED  BY <2>3, <2>4
<1> HIDE DEF P
<1>. QED  BY <1>6, <1>7, <1>8, <1>9 DEF SumsUp

(* The sum of the differences of a sequence of numbers. *)
LEMMA Telescope ==
  ASSUME NEW n \in Nat, NEW g \in [0 .. n -> Int], NEW f \in [0 .. n - 1 -> Int],
         \A i \in 0 .. n - 1 : f[i] = g[i] - g[i + 1]
  PROVE  SumFunction(f) = g[0] - g[n]
<1>1. PICK P : SumsUp(P, n, f) /\ P[n] = SumFunction(f)
  BY PartialSums
<1> DEFINE G == {i \in 0 .. n : P[i] = g[0] - g[i]}
<1>2. 0 \in G
  BY <1>1 DEF SumsUp
<1>3. \A i \in 0 .. n : i < n /\ i \in G => i + 1 \in G
  BY <1>1 DEF SumsUp
<1> HIDE DEF G
<1>4. \A i \in 0 .. n : i \in G
  BY <1>2, <1>3, UpTo
<1>5. n \in G
  BY <1>4
<1>. QED  BY <1>1, <1>5 DEF G

-----------------------------------------------------------------------------
(* Recursion *)

(* The first value of g is a, and F gives the next ones, up to n. *)
Solves(g, n, a, F) == g[0] = a /\ \A i \in 0 .. n - 1 : g[i + 1] = F[<<i, g[i]>>]

(* There is such a function. *)
LEMMA Recursion ==
  ASSUME NEW n \in Nat, NEW T, NEW a \in T, NEW F \in [(0 .. n - 1) \X T -> T]
  PROVE  \E g \in [0 .. n -> T] : Solves(g, n, a, F)
<1> DEFINE solves(g, k) == g[0] = a /\ \A i \in 0 .. k - 1 : g[i + 1] = F[<<i, g[i]>>]
           G == {k \in 0 .. n : \E g \in [0 .. k -> T] : solves(g, k)}
<1>1. 0 \in G
  <2> DEFINE g == [i \in 0 .. 0 |-> a]
  <2>1. g \in [0 .. 0 -> T] /\ solves(g, 0)
    OBVIOUS
  <2> HIDE DEF g, solves
  <2>. QED  BY <2>1
<1>2. ASSUME NEW k \in 0 .. n, k < n, k \in G PROVE k + 1 \in G
  <2>1. PICK g \in [0 .. k -> T] : solves(g, k)
    BY <1>2
  <2> DEFINE h == [i \in 0 .. k + 1 |-> IF i <= k THEN g[i] ELSE F[<<k, g[k]>>]]
  <2>2. F[<<k, g[k]>>] \in T
    <3>1. g[k] \in T /\ k \in 0 .. n - 1
      BY <1>2
    <3>. QED  BY <3>1
  <2>3. h \in [0 .. k + 1 -> T]
    BY <2>2
  <2>4. h[0] = a
    BY <2>1
  <2>5. ASSUME NEW i \in 0 .. (k + 1) - 1 PROVE h[i + 1] = F[<<i, h[i]>>]
    <3>1. CASE i = k
      <4>1. h[k] = g[k] /\ h[k + 1] = F[<<k, g[k]>>]
        OBVIOUS
      <4> HIDE DEF h
      <4>. QED  BY <3>1, <4>1
    <3>2. CASE i < k
      <4>1. i \in 0 .. k - 1 /\ h[i] = g[i] /\ h[i + 1] = g[i + 1]
        BY <3>2
      <4>. QED  BY <2>1, <4>1
    <3>. QED  BY <3>1, <3>2
  <2>6. k + 1 \in 0 .. n
    BY <1>2
  <2> HIDE DEF h
  <2>. QED  BY <2>3, <2>4, <2>5, <2>6
<1>3. n \in G
  <2> HIDE DEF G
  <2>1. \A k \in 0 .. n : k \in G
    BY <1>1, <1>2, UpTo
  <2>. QED  BY <2>1
<1>. QED  BY <1>3 DEF Solves

-----------------------------------------------------------------------------
(* LocalFairTimeRalloc *)

(* Division of natural numbers. *)
LEMMA DivMod ==
  ASSUME NEW c \in Nat, NEW d \in Nat \ {0}
  PROVE  c \div d \in Nat /\ c % d \in 0 .. d - 1 /\ c = d * (c \div d) + (c % d)
OBVIOUS

(* A share is rounded to at least the exact one less a half. *)
LEMMA RoundIs ==
  ASSUME NEW a \in Nat, NEW b \in Nat \ {0}
  PROVE  Round(a, b) \in Nat /\ 2 * (b * Round(a, b)) >= 2 * a - b
<1> DEFINE q == (2 * a + b) \div (2 * b)
           r == (2 * a + b) % (2 * b)
<1>1. 2 * a + b \in Nat /\ 2 * b \in Nat \ {0}
  OBVIOUS
<1>2. q \in Nat /\ r \in 0 .. 2 * b - 1 /\ 2 * a + b = (2 * b) * q + r
  BY <1>1, DivMod
<1> HIDE DEF q, r
<1>3. (2 * b) * q = 2 * (b * q)
  BY <1>2
<1>4. b * q \in Nat
  BY <1>2
<1>5. 2 * (b * q) >= 2 * a - b
  BY <1>2, <1>3, <1>4
<1>. QED  BY <1>2, <1>5 DEF Round, q

(* The function of the workers that are left, which the algorithm defines  *)
(* by recursion.                                                           *)
Left(g, n, m, share) ==
  g = [i \in 0 .. n |-> IF i = 0 THEN m ELSE g[i - 1] - Smaller(share[i - 1], g[i - 1])]

(* A share is handed out as far as there are workers left. *)
HandsOut(left, n, m, share) ==
  /\ left \in [0 .. n -> 0 .. m] /\ left[0] = m
  /\ \A i \in 0 .. n - 1 : left[i + 1] = left[i] - Smaller(share[i], left[i])

LEMMA LeftIs ==
  ASSUME NEW n \in Nat, NEW m \in Nat, NEW share \in [0 .. n - 1 -> Nat]
  PROVE  HandsOut(CHOOSE g : Left(g, n, m, share), n, m, share)
<1> DEFINE left == CHOOSE g : Left(g, n, m, share)
<1> DEFINE T == 0 .. m
           F == [p \in (0 .. n - 1) \X T |-> p[2] - Smaller(share[p[1]], p[2])]
<1>1. ASSUME NEW i \in 0 .. n - 1, NEW x \in T
      PROVE  x - Smaller(share[i], x) \in T
  BY DEF Smaller
<1>2. F \in [(0 .. n - 1) \X T -> T] /\ m \in T
  <2> HIDE DEF T
  <2>1. \A p \in (0 .. n - 1) \X T : p[1] \in 0 .. n - 1 /\ p[2] \in T
    OBVIOUS
  <2>2. F \in [(0 .. n - 1) \X T -> T]
    BY <1>1, <2>1
  <2>. QED  BY <2>2 DEF T
<1>3. \A i \in 0 .. n - 1, x \in T : F[<<i, x>>] = x - Smaller(share[i], x)
  OBVIOUS
<1> HIDE DEF T, F
<1>4. PICK g \in [0 .. n -> T] : Solves(g, n, m, F)
  BY <1>2, Recursion
<1>5. ASSUME NEW i \in 0 .. n
      PROVE  g[i] = IF i = 0 THEN m ELSE g[i - 1] - Smaller(share[i - 1], g[i - 1])
  <2>1. CASE i = 0
    BY <1>4, <2>1 DEF Solves
  <2>2. CASE i # 0
    <3>1. i - 1 \in 0 .. n - 1 /\ (i - 1) + 1 = i /\ g[i - 1] \in T
      BY <2>2
    <3>2. g[i] = F[<<i - 1, g[i - 1]>>]
      BY <1>4, <3>1 DEF Solves
    <3>. QED  BY <1>3, <2>2, <3>1, <3>2
  <2>. QED  BY <2>1, <2>2
<1>6. Left(g, n, m, share)
  <2>1. g = [i \in 0 .. n |-> g[i]]
    OBVIOUS
  <2>. QED  BY <1>5, <2>1 DEF Left
<1>7. Left(left, n, m, share)
  BY <1>6
<1> HIDE DEF left
<1>8. /\ left = [i \in 0 .. n |-> left[i]] /\ left[0] = m
      /\ \A i \in 0 .. n - 1 : left[i + 1] = left[i] - Smaller(share[i], left[i])
  <2>1. \A i \in 0 .. n : left[i] = IF i = 0 THEN m ELSE left[i - 1] - Smaller(share[i - 1], left[i - 1])
    BY <1>7 DEF Left
  <2>2. ASSUME NEW i \in 0 .. n - 1
        PROVE  left[i + 1] = left[i] - Smaller(share[i], left[i])
    <3>1. i + 1 \in 0 .. n /\ i + 1 # 0 /\ (i + 1) - 1 = i
      OBVIOUS
    <3>. QED  BY <2>1, <3>1
  <2>3. left = [i \in 0 .. n |-> left[i]]
    BY <1>7 DEF Left
  <2>4. left[0] = m
    BY <2>1
  <2>. QED  BY <2>2, <2>3, <2>4
<1> DEFINE G == {i \in 0 .. n : left[i] \in T}
<1>9. \A i \in 0 .. n : i \in G
  <2>1. 0 \in G
    BY <1>2, <1>8
  <2>2. \A i \in 0 .. n : i < n /\ i \in G => i + 1 \in G
    <3> SUFFICES ASSUME NEW i \in 0 .. n, i < n, left[i] \in T
                 PROVE  i + 1 \in 0 .. n /\ left[i + 1] \in T
      OBVIOUS
    <3>1. i \in 0 .. n - 1 /\ i + 1 \in 0 .. n
      OBVIOUS
    <3>2. left[i + 1] = left[i] - Smaller(share[i], left[i])
      BY <1>8, <3>1
    <3>. QED  BY <1>1, <3>1, <3>2
  <2> HIDE DEF G
  <2>. QED  BY <2>1, <2>2, UpTo
<1>10. \A i \in 0 .. n : left[i] \in T
  BY <1>9
<1>11. left \in [0 .. n -> T]
  BY <1>8, <1>10
<1>12. HandsOut(left, n, m, share)
  BY <1>8, <1>11 DEF T, HandsOut
<1>. QED  BY <1>12 DEF left

(* The sum of positive numbers. *)
LEMMA PositiveSums ==
  ASSUME NEW n \in Nat, NEW f \in [0 .. n - 1 -> Nat \ {0}], NEW P, SumsUp(P, n, f)
  PROVE  \A i \in 0 .. n : P[i] \in Nat /\ (i # 0 => P[i] # 0)
<1> DEFINE G == {i \in 0 .. n : P[i] \in Nat /\ (i # 0 => P[i] # 0)}
<1>1. 0 \in G
  BY DEF SumsUp
<1>2. \A i \in 0 .. n : i < n /\ i \in G => i + 1 \in G
  <2> SUFFICES ASSUME NEW i \in 0 .. n, i < n, P[i] \in Nat
               PROVE  i + 1 \in 0 .. n /\ P[i + 1] \in Nat /\ P[i + 1] # 0
    OBVIOUS
  <2>1. i \in 0 .. n - 1 /\ i + 1 \in 0 .. n /\ f[i] \in Nat \ {0}
    OBVIOUS
  <2>. QED  BY <2>1 DEF SumsUp
<1> HIDE DEF G
<1>3. \A i \in 0 .. n : i \in G
  BY <1>1, <1>2, UpTo
<1>. QED  BY <1>3 DEF G

(* A common factor can be dropped. *)
LEMMA DropFactor ==
  ASSUME NEW a \in Nat \ {0}, NEW b \in Nat, NEW c \in Nat, a * b <= a * c
  PROVE  b <= c
<1> SUFFICES ASSUME b >= c + 1 PROVE FALSE
  OBVIOUS
<1> DEFINE d == b - (c + 1)
<1>1. d \in Nat /\ b = (c + 1) + d
  OBVIOUS
<1> HIDE DEF d
<1>2. a * ((c + 1) + d) = a * c + a + a * d /\ a * d \in Nat
  BY <1>1
<1>. QED  BY <1>1, <1>2

(* Every share is rounded down by a half at most. *)
Rounded(share, n, m, time, total) ==
  /\ share \in [0 .. n - 1 -> Nat]
  /\ \A i \in 0 .. n - 1 : 2 * (total * share[i]) >= 2 * (m * time[i]) - total

(* While workers are left, they are no more than what the shares so far    *)
(* leave if each of them was rounded down by a half.                       *)
LEMMA OwedIs ==
  ASSUME NEW n \in Nat, NEW m \in Nat, NEW total \in Nat \ {0}, NEW time \in [0 .. n - 1 -> Nat \ {0}],
         NEW P, SumsUp(P, n, time), NEW share, Rounded(share, n, m, time, total),
         NEW left, HandsOut(left, n, m, share)
  PROVE  left[n] = 0 \/ 2 * (total * left[n]) <= 2 * (total * m) - 2 * (m * P[n]) + total * n
<1> DEFINE owed(i) == left[i] = 0 \/ 2 * (total * left[i]) <= 2 * (total * m) - 2 * (m * P[i]) + total * i
           G == {i \in 0 .. n : owed(i)}
<1>1. 0 \in G
  <2>1. m * P[0] = 0 /\ total * 0 = 0 /\ total * m \in Nat /\ left[0] = m
    BY DEF SumsUp, HandsOut
  <2>. QED  BY <2>1
<1>2. ASSUME NEW i \in 0 .. n, i < n, i \in G PROVE i + 1 \in G
  <2>1. i \in 0 .. n - 1 /\ i + 1 \in 0 .. n /\ owed(i)
    BY <1>2
  <2>2. left[i + 1] = left[i] - Smaller(share[i], left[i]) /\ left[i] \in Nat /\ share[i] \in Nat
    BY <2>1 DEF HandsOut, Rounded
  <2>3. CASE left[i + 1] = 0
    BY <2>1, <2>3
  <2>4. CASE left[i + 1] # 0
    <3>1. left[i + 1] = left[i] - share[i] /\ left[i] # 0
      BY <2>2, <2>4 DEF Smaller
    <3> DEFINE a == total * left[i]
               b == total * share[i]
               c == m * P[i]
               d == m * time[i]
               e == total * i
               t == total * m
    <3>2. 2 * a <= 2 * t - 2 * c + e
      BY <2>1, <3>1
    <3>3. 2 * b >= 2 * d - total
      BY <2>1 DEF Rounded
    <3>4. time[i] \in Nat /\ P[i] \in Int /\ P[i + 1] = P[i] + time[i]
      BY <2>1 DEF SumsUp
    <3>5. total * left[i + 1] = a - b
      BY <2>2, <3>1
    <3>6. m * P[i + 1] = c + d
      BY <3>4
    <3>7. total * (i + 1) = e + total
      OBVIOUS
    <3>8. a \in Int /\ b \in Int /\ c \in Int /\ d \in Int /\ e \in Int /\ t \in Int
      <4>1. \A x, y \in Int : x * y \in Int
        OBVIOUS
      <4>2. /\ total \in Int /\ m \in Int /\ i \in Int /\ left[i] \in Int /\ share[i] \in Int
            /\ P[i] \in Int /\ time[i] \in Int
        BY <2>2, <3>4
      <4>. QED  BY <4>1, <4>2, Zenon
    <3> HIDE DEF a, b, c, d, e
    <3>9. 2 * (a - b) <= 2 * t - 2 * (c + d) + (e + total)
      <4> HIDE DEF t
      <4>. QED  BY <3>2, <3>3, <3>8
    <3>10. owed(i + 1)
      BY <3>5, <3>6, <3>7, <3>9
    <3>. QED  BY <2>1, <3>10
  <2>. QED  BY <2>3, <2>4
<1> HIDE DEF G
<1>3. \A i \in 0 .. n : i \in G
  BY <1>1, <1>2, UpTo
<1>4. n \in G
  BY <1>3
<1>. QED  BY <1>4 DEF G

(* What LocalFairTimeRalloc returns. *)
LEMMA LocalIs ==
  ASSUME NEW n \in Nat \ {0}, NEW m \in Nat, NEW time \in [0 .. n - 1 -> Nat \ {0}],
         NEW r, r = LocalFairTimeRalloc(n, m, time)
  PROVE  /\ \A i \in 0 .. n - 1 : r[i] \in 0 .. m
         /\ SumFunction(r) <= m /\ 2 * (m - SumFunction(r)) <= n
<1> DEFINE total == SumFunction(time)
           share == [i \in 0 .. n - 1 |-> Round(m * time[i], total)]
           left == CHOOSE g : Left(g, n, m, share)
<1>1. r = [i \in 0 .. n - 1 |-> left[i] - left[i + 1]]
  BY DEF LocalFairTimeRalloc, Left
<1>2. PICK P : SumsUp(P, n, time) /\ P[n] = total
  <2>1. time \in [0 .. n - 1 -> Int]
    OBVIOUS
  <2>. QED  BY <2>1, PartialSums
<1>3. total \in Nat \ {0}
  <2>1. n \in 0 .. n /\ n # 0
    OBVIOUS
  <2>2. P[n] \in Nat /\ P[n] # 0
    BY <1>2, <2>1, PositiveSums
  <2>. QED  BY <1>2, <2>2
<1> HIDE DEF total
<1>4. ASSUME NEW i \in 0 .. n - 1
      PROVE  share[i] \in Nat /\ 2 * (total * share[i]) >= 2 * (m * time[i]) - total
  <2>1. m * time[i] \in Nat
    OBVIOUS
  <2>2. share[i] = Round(m * time[i], total)
    OBVIOUS
  <2> HIDE DEF share
  <2>. QED  BY <1>3, <2>1, <2>2, RoundIs
<1>5. share \in [0 .. n - 1 -> Nat] /\ Rounded(share, n, m, time, total)
  BY <1>4 DEF Rounded
<1> HIDE DEF share
<1>6. HandsOut(left, n, m, share)
  BY <1>5, LeftIs
<1> HIDE DEF left
<1>7. ASSUME NEW i \in 0 .. n - 1 PROVE r[i] = left[i] - left[i + 1] /\ r[i] \in 0 .. m
  <2>1. /\ r[i] = left[i] - left[i + 1] /\ left[i + 1] = left[i] - Smaller(share[i], left[i])
        /\ left[i] \in 0 .. m /\ left[i + 1] \in 0 .. m /\ share[i] \in Nat
    BY <1>1, <1>5, <1>6 DEF HandsOut
  <2>. QED  BY <2>1 DEF Smaller
<1>8. SumFunction(r) = m - left[n]
  <2>1. left \in [0 .. n -> Int] /\ r \in [0 .. n - 1 -> Int] /\ left[0] = m
    BY <1>1, <1>6, <1>7 DEF HandsOut
  <2>2. \A i \in 0 .. n - 1 : r[i] = left[i] - left[i + 1]
    BY <1>7
  <2>. QED  BY <2>1, <2>2, Telescope
<1>9. left[n] \in 0 .. m
  BY <1>6 DEF HandsOut
<1>10. 2 * left[n] <= n
  <2>1. left[n] = 0 \/ 2 * (total * left[n]) <= 2 * (total * m) - 2 * (m * P[n]) + total * n
    BY <1>2, <1>3, <1>5, <1>6, OwedIs
  <2>2. CASE left[n] = 0
    BY <2>2
  <2>3. CASE 2 * (total * left[n]) <= 2 * (total * m) - 2 * (m * P[n]) + total * n
    <3>1. m * P[n] = total * m /\ total * m \in Nat /\ total * n \in Nat
      BY <1>2, <1>3
    <3>2. total * (2 * left[n]) = 2 * (total * left[n])
      BY <1>3, <1>9
    <3>3. total * left[n] \in Nat
      BY <1>3, <1>9
    <3>4. total * (2 * left[n]) <= total * n
      <4> DEFINE a == total * left[n]
                 b == total * m
                 c == total * n
      <4>1. 2 * a <= 2 * b - 2 * b + c /\ a \in Nat /\ b \in Nat /\ c \in Nat
        BY <2>3, <3>1, <3>3
      <4> HIDE DEF a, b, c
      <4>2. 2 * a <= c
        BY <4>1
      <4>. QED  BY <3>2, <4>2 DEF a, c
    <3>. QED  BY <1>3, <1>9, <3>4, DropFactor
  <2>. QED  BY <2>1, <2>2, <2>3
<1>. QED  BY <1>7, <1>8, <1>9, <1>10

-----------------------------------------------------------------------------
(* GlobalFairTimeRalloc *)

(* Some k in 0 .. j is the first of the best. *)
LEMMA BestIs ==
  ASSUME NEW j \in Nat, NEW D \in [0 .. j -> Nat]
  PROVE  Best(D, j) \in 0 .. j /\ \A l \in 0 .. j : D[Best(D, j)] <= D[l]
<1> DEFINE V == {D[k] : k \in 0 .. j}
           good(k) == \A l \in 0 .. j : D[k] < D[l] \/ (D[k] = D[l] /\ k <= l)
<1>1. V \in SUBSET Nat /\ V # {}
  <2>1. 0 \in 0 .. j
    OBVIOUS
  <2>. QED  BY <2>1
<1>2. PICK v \in V : \A u \in V : v <= u
  <2> HIDE DEF V
  <2>. QED  BY <1>1, Least
<1> DEFINE K == {k \in 0 .. j : D[k] = v}
<1>3. K \in SUBSET Nat /\ K # {}
  OBVIOUS
<1>4. PICK k \in K : \A l \in K : k <= l
  <2> HIDE DEF K
  <2>. QED  BY <1>3, Least
<1>5. k \in 0 .. j /\ D[k] = v
  BY <1>4
<1>6. ASSUME NEW l \in 0 .. j PROVE D[k] < D[l] \/ (D[k] = D[l] /\ k <= l)
  <2>1. v <= D[l] /\ D[l] \in Nat /\ v \in Nat
    BY <1>1, <1>2
  <2>2. D[l] = v => k <= l
    BY <1>4
  <2>. QED  BY <1>5, <2>1, <2>2
<1>7. Best(D, j) = CHOOSE x \in 0 .. j : good(x)
  BY DEF Best, BestOf
<1>8. Best(D, j) \in 0 .. j /\ good(Best(D, j))
  <2>1. good(k)
    BY <1>6
  <2> HIDE DEF good
  <2>. QED  BY <1>5, <1>7, <2>1
<1>9. ASSUME NEW l \in 0 .. j PROVE D[Best(D, j)] <= D[l]
  <2> DEFINE x == D[Best(D, j)]
             y == D[l]
  <2>1. x < y \/ x = y
    BY <1>8
  <2>2. x \in Nat /\ y \in Nat
    BY <1>8
  <2> HIDE DEF x, y
  <2>3. x <= y
    BY <2>1, <2>2
  <2>. QED  BY <2>3 DEF x, y
<1>. QED  BY <1>8, <1>9

(* A row of the table: no way to share out j workers gives the last job    *)
(* more than those.                                                        *)
Cells == [dp : Nat, min : Nat, max : Nat, alloc : Nat]
Rows(m) == {row \in [0 .. m -> Cells] : \A j \in 0 .. m : row[j].alloc \in 0 .. j}

LEMMA FirstJobIs ==
  ASSUME NEW m \in Nat, NEW qps, qps[0] \in [0 .. m -> Nat]
  PROVE  FirstJob(qps, m) \in Rows(m) /\ \A j \in 0 .. m : FirstJob(qps, m)[j].alloc = j
<1>1. \A j \in 0 .. m : /\ FirstJob(qps, m)[j] = [dp |-> 0, min |-> qps[0][j], max |-> qps[0][j], alloc |-> j]
                        /\ qps[0][j] \in Nat
  BY DEF FirstJob
<1>2. ASSUME NEW j \in 0 .. m PROVE FirstJob(qps, m)[j] \in Cells /\ FirstJob(qps, m)[j].alloc = j
  <2>1. j \in Nat /\ 0 \in Nat /\ qps[0][j] \in Nat
    BY <1>1
  <2>2. FirstJob(qps, m)[j] = [dp |-> 0, min |-> qps[0][j], max |-> qps[0][j], alloc |-> j]
    BY <1>1
  <2> HIDE DEF FirstJob
  <2>. QED  BY <2>1, <2>2 DEF Cells
<1>3. FirstJob(qps, m) = [j \in 0 .. m |-> FirstJob(qps, m)[j]]
  BY DEF FirstJob
<1>4. FirstJob(qps, m) \in [0 .. m -> Cells]
  BY <1>2, <1>3
<1>5. \A j \in 0 .. m : j \in 0 .. j
  OBVIOUS
<1>. QED  BY <1>2, <1>4, <1>5 DEF Rows

LEMMA SpreadIs ==
  ASSUME NEW q \in Nat, NEW c \in Cells
  PROVE  Larger(Larger(AbsDiff(q, c.min), AbsDiff(q, c.max)), c.dp) \in Nat
BY DEF Cells, Larger, AbsDiff

(* What the next row says of j workers: the last job gets as many as       *)
(* spreads the rates least.                                                *)
LEMMA NextJobIs ==
  ASSUME NEW m \in Nat, NEW qps, NEW i, qps[i] \in [0 .. m -> Nat], NEW prev \in Rows(m)
  PROVE  /\ NextJob(qps, m, i, prev) \in Rows(m)
         /\ \A j \in 0 .. m : LET k == NextJob(qps, m, i, prev)[j].alloc
                              IN  \A l \in 0 .. j : Spread(qps, i, k, prev[j - k]) <= Spread(qps, i, l, prev[j - l])
<1> DEFINE next == NextJob(qps, m, i, prev)
           D(j) == [k \in 0 .. j |-> Spread(qps, i, k, prev[j - k])]
           cell(j, k) == [dp |-> D(j)[k], alloc |-> k,
                          min |-> Smaller(qps[i][k], prev[j - k].min),
                          max |-> Larger(qps[i][k], prev[j - k].max)]
<1>1. \A j \in 0 .. m : next[j] = cell(j, Best(D(j), j))
  BY DEF NextJob
<1>2. next = [j \in 0 .. m |-> next[j]]
  BY DEF NextJob
<1> HIDE DEF next
<1>3. ASSUME NEW j \in 0 .. m
      PROVE  /\ next[j] \in Cells /\ next[j].alloc \in 0 .. j
             /\ \A l \in 0 .. j : Spread(qps, i, next[j].alloc, prev[j - next[j].alloc])
                                    <= Spread(qps, i, l, prev[j - l])
  <2>1. ASSUME NEW k \in 0 .. j
        PROVE  k \in 0 .. m /\ qps[i][k] \in Nat /\ prev[j - k] \in Cells /\ D(j)[k] \in Nat
    <3>1. k \in 0 .. m /\ j - k \in 0 .. m
      OBVIOUS
    <3>2. qps[i][k] \in Nat /\ prev[j - k] \in Cells
      BY <3>1 DEF Rows
    <3>3. Spread(qps, i, k, prev[j - k]) \in Nat
      BY <3>2, SpreadIs DEF Spread
    <3>. QED  BY <3>1, <3>2, <3>3
  <2>2. D(j) \in [0 .. j -> Nat] /\ j \in Nat
    BY <2>1
  <2> DEFINE b == Best(D(j), j)
  <2>3. b \in 0 .. j /\ \A l \in 0 .. j : D(j)[b] <= D(j)[l]
    <3> HIDE DEF D
    <3>. QED  BY <2>2, BestIs
  <2>4. next[j] = cell(j, b)
    BY <1>1
  <2> HIDE DEF b
  <2>5. qps[i][b] \in Nat /\ prev[j - b] \in Cells /\ D(j)[b] \in Nat
    BY <2>1, <2>3
  <2>6. prev[j - b].min \in Nat /\ prev[j - b].max \in Nat
    BY <2>5 DEF Cells
  <2>7. /\ Smaller(qps[i][b], prev[j - b].min) \in Nat
        /\ Larger(qps[i][b], prev[j - b].max) \in Nat /\ b \in Nat
    BY <2>3, <2>5, <2>6 DEF Smaller, Larger
  <2>8. next[j] \in Cells /\ next[j].alloc = b
    <3> HIDE DEF D
    <3>. QED  BY <2>4, <2>5, <2>7 DEF Cells
  <2>9. \A l \in 0 .. j : Spread(qps, i, b, prev[j - b]) <= Spread(qps, i, l, prev[j - l])
    BY <2>3
  <2>. QED  BY <2>3, <2>8, <2>9
<1>4. next \in [0 .. m -> Cells]
  BY <1>2, <1>3
<1>5. next \in Rows(m)
  BY <1>3, <1>4 DEF Rows
<1>. QED  BY <1>3, <1>5 DEF next

(* The table, which the algorithm defines by recursion. *)
Table(g, n, m, qps) ==
  g = [i \in 0 .. n - 1 |-> IF i = 0 THEN FirstJob(qps, m) ELSE NextJob(qps, m, i, g[i - 1])]

Tabulates(table, n, m, qps) ==
  /\ table \in [0 .. n - 1 -> Rows(m)] /\ table[0] = FirstJob(qps, m)
  /\ \A i \in 0 .. n - 2 : table[i + 1] = NextJob(qps, m, i + 1, table[i])

LEMMA TableIs ==
  ASSUME NEW n \in Nat \ {0}, NEW m \in Nat, NEW qps \in [0 .. n - 1 -> [0 .. m -> Nat]]
  PROVE  Tabulates(CHOOSE g : Table(g, n, m, qps), n, m, qps)
<1> DEFINE table == CHOOSE g : Table(g, n, m, qps)
           N == n - 1
           T == Rows(m)
           F == [p \in (0 .. N - 1) \X T |-> NextJob(qps, m, p[1] + 1, p[2])]
<1>0. N \in Nat
  OBVIOUS
<1>1. ASSUME NEW i \in 0 .. N - 1, NEW x \in T
      PROVE  NextJob(qps, m, i + 1, x) \in T
  <2>1. qps[i + 1] \in [0 .. m -> Nat]
    OBVIOUS
  <2>. QED  BY <2>1, NextJobIs
<1>2. F \in [(0 .. N - 1) \X T -> T] /\ FirstJob(qps, m) \in T
  <2>1. qps[0] \in [0 .. m -> Nat]
    OBVIOUS
  <2>2. FirstJob(qps, m) \in T
    BY <2>1, FirstJobIs
  <2> HIDE DEF T, N
  <2>3. \A p \in (0 .. N - 1) \X T : p[1] \in 0 .. N - 1 /\ p[2] \in T
    OBVIOUS
  <2>4. F \in [(0 .. N - 1) \X T -> T]
    BY <1>1, <2>3
  <2>. QED  BY <2>2, <2>4
<1>3. \A i \in 0 .. N - 1, x \in T : F[<<i, x>>] = NextJob(qps, m, i + 1, x)
  <2> HIDE DEF T, N
  <2>. QED  OBVIOUS
<1> HIDE DEF T, F
<1>4. PICK g \in [0 .. N -> T] : Solves(g, N, FirstJob(qps, m), F)
  <2> HIDE DEF N
  <2>. QED  BY <1>0, <1>2, Recursion
<1>5. ASSUME NEW i \in 0 .. n - 1
      PROVE  g[i] = IF i = 0 THEN FirstJob(qps, m) ELSE NextJob(qps, m, i, g[i - 1])
  <2>1. CASE i = 0
    BY <1>4, <2>1 DEF Solves
  <2>2. CASE i # 0
    <3>1. i - 1 \in 0 .. N - 1 /\ (i - 1) + 1 = i /\ g[i - 1] \in T
      BY <2>2
    <3>2. g[(i - 1) + 1] = F[<<i - 1, g[i - 1]>>]
      BY <1>4, <3>1 DEF Solves
    <3>3. F[<<i - 1, g[i - 1]>>] = NextJob(qps, m, (i - 1) + 1, g[i - 1])
      BY <1>3, <3>1
    <3>. QED  BY <2>2, <3>1, <3>2, <3>3
  <2>. QED  BY <2>1, <2>2
<1>6. Table(g, n, m, qps)
  <2>1. g = [i \in 0 .. n - 1 |-> g[i]]
    OBVIOUS
  <2>. QED  BY <1>5, <2>1 DEF Table
<1>7. Table(table, n, m, qps)
  BY <1>6
<1> HIDE DEF table
<1>8. table = [i \in 0 .. n - 1 |-> table[i]]
  BY <1>7 DEF Table
<1>9. \A i \in 0 .. n - 1 : table[i] = IF i = 0 THEN FirstJob(qps, m) ELSE NextJob(qps, m, i, table[i - 1])
  BY <1>7 DEF Table
<1>10. table[0] = FirstJob(qps, m)
  BY <1>9
<1>11. ASSUME NEW i \in 0 .. n - 2
       PROVE  table[i + 1] = NextJob(qps, m, i + 1, table[i])
  <2>1. i + 1 \in 0 .. n - 1 /\ i + 1 # 0 /\ (i + 1) - 1 = i
    OBVIOUS
  <2>. QED  BY <1>9, <2>1
<1> DEFINE G == {i \in 0 .. N : table[i] \in T}
<1>12. \A i \in 0 .. N : i \in G
  <2>1. 0 \in G
    BY <1>2, <1>10
  <2>2. \A i \in 0 .. N : i < N /\ i \in G => i + 1 \in G
    <3> SUFFICES ASSUME NEW i \in 0 .. N, i < N, table[i] \in T
                 PROVE  i + 1 \in 0 .. N /\ table[i + 1] \in T
      OBVIOUS
    <3>1. i \in 0 .. N - 1 /\ i \in 0 .. n - 2 /\ i + 1 \in 0 .. N
      OBVIOUS
    <3>2. table[i + 1] = NextJob(qps, m, i + 1, table[i])
      BY <1>11, <3>1
    <3>. QED  BY <1>1, <3>1, <3>2
  <2> HIDE DEF G, N
  <2>. QED  BY <1>0, <2>1, <2>2, UpTo
<1>13. \A i \in 0 .. n - 1 : table[i] \in T
  BY <1>12
<1>14. table \in [0 .. n - 1 -> T]
  BY <1>8, <1>13
<1>15. Tabulates(table, n, m, qps)
  BY <1>10, <1>11, <1>14 DEF T, Tabulates
<1>. QED  BY <1>15 DEF table

(* The function of the workers that are left as the table is read back,    *)
(* from the last job to the first.                                         *)
Remaining(g, n, m, table) ==
  g = [d \in 0 .. n |-> IF d = 0 THEN m ELSE g[d - 1] - table[n - d][g[d - 1]].alloc]

ReadsBack(left, n, m, table) ==
  /\ left \in [0 .. n -> 0 .. m] /\ left[0] = m
  /\ \A d \in 0 .. n - 1 : left[d + 1] = left[d] - table[n - (d + 1)][left[d]].alloc

LEMMA RemainingIs ==
  ASSUME NEW n \in Nat \ {0}, NEW m \in Nat, NEW table \in [0 .. n - 1 -> Rows(m)]
  PROVE  ReadsBack(CHOOSE g : Remaining(g, n, m, table), n, m, table)
<1> DEFINE left == CHOOSE g : Remaining(g, n, m, table)
           T == 0 .. m
           step(d, x) == x - table[n - (d + 1)][x].alloc
           F == [p \in (0 .. n - 1) \X T |-> step(p[1], p[2])]
<1>1. ASSUME NEW d \in 0 .. n - 1, NEW x \in T
      PROVE  step(d, x) \in T
  <2>1. n - (d + 1) \in 0 .. n - 1
    OBVIOUS
  <2>2. table[n - (d + 1)] \in Rows(m)
    BY <2>1
  <2>3. table[n - (d + 1)][x].alloc \in 0 .. x
    BY <2>2 DEF Rows
  <2>. QED  BY <2>3
<1>2. F \in [(0 .. n - 1) \X T -> T] /\ m \in T
  <2> HIDE DEF T, step
  <2>1. \A p \in (0 .. n - 1) \X T : p[1] \in 0 .. n - 1 /\ p[2] \in T
    OBVIOUS
  <2>2. F \in [(0 .. n - 1) \X T -> T]
    BY <1>1, <2>1
  <2>. QED  BY <2>2 DEF T
<1>3. \A d \in 0 .. n - 1, x \in T : F[<<d, x>>] = step(d, x)
  <2> HIDE DEF T, step
  <2>. QED  OBVIOUS
<1> HIDE DEF T, F
<1>4. PICK g \in [0 .. n -> T] : Solves(g, n, m, F)
  BY <1>2, Recursion
<1>5. ASSUME NEW d \in 0 .. n
      PROVE  g[d] = IF d = 0 THEN m ELSE g[d - 1] - table[n - d][g[d - 1]].alloc
  <2>1. CASE d = 0
    BY <1>4, <2>1 DEF Solves
  <2>2. CASE d # 0
    <3>1. d - 1 \in 0 .. n - 1 /\ (d - 1) + 1 = d /\ g[d - 1] \in T
      BY <2>2
    <3>2. g[(d - 1) + 1] = F[<<d - 1, g[d - 1]>>]
      BY <1>4, <3>1 DEF Solves
    <3>3. F[<<d - 1, g[d - 1]>>] = step(d - 1, g[d - 1])
      BY <1>3, <3>1
    <3>. QED  BY <2>2, <3>1, <3>2, <3>3
  <2>. QED  BY <2>1, <2>2
<1>6. Remaining(g, n, m, table)
  <2>1. g = [d \in 0 .. n |-> g[d]]
    OBVIOUS
  <2>. QED  BY <1>5, <2>1 DEF Remaining
<1>7. Remaining(left, n, m, table)
  BY <1>6
<1> HIDE DEF left
<1>8. left = [d \in 0 .. n |-> left[d]]
  BY <1>7 DEF Remaining
<1>9. \A d \in 0 .. n : left[d] = IF d = 0 THEN m ELSE left[d - 1] - table[n - d][left[d - 1]].alloc
  BY <1>7 DEF Remaining
<1>10. left[0] = m
  BY <1>9
<1>11. ASSUME NEW d \in 0 .. n - 1
       PROVE  left[d + 1] = left[d] - table[n - (d + 1)][left[d]].alloc
  <2>1. d + 1 \in 0 .. n /\ d + 1 # 0 /\ (d + 1) - 1 = d
    OBVIOUS
  <2>. QED  BY <1>9, <2>1
<1> DEFINE G == {d \in 0 .. n : left[d] \in T}
<1>12. \A d \in 0 .. n : d \in G
  <2>1. 0 \in G
    BY <1>2, <1>10
  <2>2. \A d \in 0 .. n : d < n /\ d \in G => d + 1 \in G
    <3> SUFFICES ASSUME NEW d \in 0 .. n, d < n, left[d] \in T
                 PROVE  d + 1 \in 0 .. n /\ left[d + 1] \in T
      OBVIOUS
    <3>1. d \in 0 .. n - 1 /\ d + 1 \in 0 .. n
      OBVIOUS
    <3>2. left[d + 1] = step(d, left[d])
      BY <1>11, <3>1
    <3> HIDE DEF step
    <3>. QED  BY <1>1, <3>1, <3>2
  <2> HIDE DEF G
  <2>. QED  BY <2>1, <2>2, UpTo
<1>13. \A d \in 0 .. n : left[d] \in T
  BY <1>12
<1>14. left \in [0 .. n -> T]
  BY <1>8, <1>13
<1>15. ReadsBack(left, n, m, table)
  BY <1>10, <1>11, <1>14 DEF T, ReadsBack
<1>. QED  BY <1>15 DEF left

(* Every worker goes to a job, and to one only. *)
SharesAll(r, n, m) == (\A i \in 0 .. n - 1 : r[i] \in 0 .. m) /\ SumFunction(r) = m

(* What GlobalFairTimeRalloc returns. *)
LEMMA GlobalIs ==
  ASSUME NEW n \in Nat \ {0}, NEW m \in Nat, NEW qps \in [0 .. n - 1 -> [0 .. m -> Nat]],
         NEW r, r = GlobalFairTimeRalloc(n, m, qps)
  PROVE  SharesAll(r, n, m)
<1> DEFINE table == CHOOSE g : Table(g, n, m, qps)
           left == CHOOSE g : Remaining(g, n, m, table)
<1>1. r = [i \in 0 .. n - 1 |-> table[i][left[n - 1 - i]].alloc]
  BY DEF GlobalFairTimeRalloc, Backtrack, Table, Remaining
<1>2. Tabulates(table, n, m, qps)
  BY TableIs
<1> HIDE DEF table
<1>3. table \in [0 .. n - 1 -> Rows(m)]
  BY <1>2 DEF Tabulates
<1>4. ReadsBack(left, n, m, table)
  BY <1>3, RemainingIs
<1> HIDE DEF left
<1>5. left \in [0 .. n -> 0 .. m] /\ left[0] = m
  BY <1>4 DEF ReadsBack
<1>6. ASSUME NEW i \in 0 .. n - 1
      PROVE  r[i] = left[n - 1 - i] - left[n - i] /\ r[i] \in 0 .. m
  <2>1. n - 1 - i \in 0 .. n - 1 /\ (n - 1 - i) + 1 = n - i /\ n - ((n - 1 - i) + 1) = i
    OBVIOUS
  <2>2. left[n - i] = left[n - 1 - i] - table[i][left[n - 1 - i]].alloc
    BY <1>4, <2>1 DEF ReadsBack
  <2>3. left[n - 1 - i] \in 0 .. m /\ table[i] \in Rows(m)
    <3>1. n - 1 - i \in 0 .. n
      OBVIOUS
    <3>2. left[n - 1 - i] \in 0 .. m
      BY <1>5, <3>1
    <3>3. table[i] \in Rows(m)
      BY <1>3
    <3>. QED  BY <3>2, <3>3
  <2>4. table[i][left[n - 1 - i]].alloc \in 0 .. left[n - 1 - i]
    BY <2>3 DEF Rows
  <2>5. r[i] = table[i][left[n - 1 - i]].alloc
    BY <1>1
  <2>6. \A x \in 0 .. m : \A a \in 0 .. x : a = x - (x - a) /\ a \in 0 .. m
    OBVIOUS
  <2>. QED  BY <2>2, <2>3, <2>4, <2>5, <2>6
<1>7. left[n] = 0
  <2>1. n - 1 \in 0 .. n - 1 /\ (n - 1) + 1 = n /\ n - ((n - 1) + 1) = 0 /\ left[n - 1] \in 0 .. m
    BY <1>5
  <2>2. left[n] = left[n - 1] - table[0][left[n - 1]].alloc
    BY <1>4, <2>1 DEF ReadsBack
  <2>3. table[0] = FirstJob(qps, m) /\ qps[0] \in [0 .. m -> Nat]
    BY <1>2 DEF Tabulates
  <2>4. table[0][left[n - 1]].alloc = left[n - 1]
    BY <2>1, <2>3, FirstJobIs
  <2>. QED  BY <2>1, <2>2, <2>4
<1> DEFINE g == [i \in 0 .. n |-> 0 - left[n - i]]
<1>8. g \in [0 .. n -> Int] /\ r \in [0 .. n - 1 -> Int]
  <2>1. \A i \in 0 .. n : n - i \in 0 .. n /\ 0 - left[n - i] \in Int
    BY <1>5
  <2>2. g \in [0 .. n -> Int]
    BY <2>1
  <2>3. r = [i \in 0 .. n - 1 |-> r[i]]
    BY <1>1
  <2>4. \A i \in 0 .. n - 1 : r[i] \in Int
    BY <1>6
  <2>. QED  BY <2>2, <2>3, <2>4
<1>9. ASSUME NEW i \in 0 .. n - 1 PROVE r[i] = g[i] - g[i + 1]
  <2>1. i \in 0 .. n /\ i + 1 \in 0 .. n /\ n - (i + 1) = n - 1 - i /\ n - i \in 0 .. n /\ n - 1 - i \in 0 .. n
    OBVIOUS
  <2>2. left[n - i] \in Int /\ left[n - 1 - i] \in Int
    BY <1>5, <2>1
  <2>3. g[i] = 0 - left[n - i] /\ g[i + 1] = 0 - left[n - 1 - i]
    BY <2>1
  <2>. QED  BY <1>6, <2>2, <2>3
<1>10. g[0] = 0 /\ g[n] = 0 - m
  <2>1. 0 \in 0 .. n /\ n \in 0 .. n /\ n - 0 = n /\ n - n = 0
    OBVIOUS
  <2>. QED  BY <1>5, <1>7, <2>1
<1> HIDE DEF g
<1>11. SumFunction(r) = g[0] - g[n]
  BY <1>8, <1>9, Telescope
<1>. QED  BY <1>6, <1>10, <1>11 DEF SharesAll

(* How far apart the rates of two jobs are when the first gets a of the m  *)
(* workers.                                                                *)
Gap(qps, m, a) == AbsDiff(qps[0][a], qps[1][m - a])

(* For two jobs, a cell of the last row looks at the whole of every split. *)
LEMMA GapIs ==
  ASSUME NEW m \in Nat, NEW qps \in [0 .. 1 -> [0 .. m -> Nat]], NEW k \in 0 .. m
  PROVE  Spread(qps, 1, k, FirstJob(qps, m)[m - k]) = Gap(qps, m, m - k)
<1>1. m - k \in 0 .. m /\ m - (m - k) = k
  OBVIOUS
<1>2. qps[0][m - k] \in Nat /\ qps[1][k] \in Nat
  BY <1>1
<1> DEFINE c == FirstJob(qps, m)[m - k]
<1>3. c = [dp |-> 0, min |-> qps[0][m - k], max |-> qps[0][m - k], alloc |-> m - k]
  BY <1>1 DEF FirstJob
<1> HIDE DEF c
<1>4. c.dp = 0 /\ c.min = qps[0][m - k] /\ c.max = qps[0][m - k]
  BY <1>3
<1> DEFINE x == qps[0][m - k]
           y == qps[1][k]
<1>5. Spread(qps, 1, k, c) = Larger(Larger(AbsDiff(y, x), AbsDiff(y, x)), 0)
  BY <1>4 DEF Spread
<1>6. Gap(qps, m, m - k) = AbsDiff(x, y)
  BY <1>1 DEF Gap
<1>7. x \in Nat /\ y \in Nat
  BY <1>2
<1> HIDE DEF x, y
<1>8. Larger(Larger(AbsDiff(y, x), AbsDiff(y, x)), 0) = AbsDiff(x, y)
  BY <1>7 DEF Larger, AbsDiff
<1>. QED  BY <1>5, <1>6, <1>8 DEF c

(* What it returns for two jobs. *)
LEMMA GlobalOfTwo ==
  ASSUME NEW m \in Nat, NEW qps \in [0 .. 1 -> [0 .. m -> Nat]], NEW r, r = GlobalFairTimeRalloc(2, m, qps)
  PROVE  \A a \in 0 .. m : Gap(qps, m, r[0]) <= Gap(qps, m, a)
<1> DEFINE table == CHOOSE g : Table(g, 2, m, qps)
           left == CHOOSE g : Remaining(g, 2, m, table)
<1>0. 2 \in Nat \ {0} /\ 2 - 1 = 1 /\ 2 - 2 = 0 /\ qps \in [0 .. 2 - 1 -> [0 .. m -> Nat]]
  OBVIOUS
<1>1. r = [i \in 0 .. 2 - 1 |-> table[i][left[2 - 1 - i]].alloc]
  BY DEF GlobalFairTimeRalloc, Backtrack, Table, Remaining
<1>2. Tabulates(table, 2, m, qps)
  BY <1>0, TableIs
<1> HIDE DEF table
<1>3. table \in [0 .. 2 - 1 -> Rows(m)]
  BY <1>2 DEF Tabulates
<1>4. ReadsBack(left, 2, m, table)
  BY <1>0, <1>3, RemainingIs
<1> HIDE DEF left
<1> DEFINE first == FirstJob(qps, m)
           k == table[1][m].alloc
<1>5. /\ table[0] = first /\ table[1] = NextJob(qps, m, 1, first)
      /\ first \in Rows(m) /\ \A j \in 0 .. m : first[j].alloc = j
  <2>1. table[0] = first
    BY <1>2 DEF Tabulates
  <2>2. 0 \in 0 .. 2 - 2 /\ 0 + 1 = 1
    OBVIOUS
  <2>3. table[0 + 1] = NextJob(qps, m, 0 + 1, table[0])
    BY <1>2, <2>2 DEF Tabulates
  <2>4. qps[0] \in [0 .. m -> Nat]
    OBVIOUS
  <2>5. first \in Rows(m) /\ \A j \in 0 .. m : first[j].alloc = j
    BY <2>4, FirstJobIs
  <2>. QED  BY <2>1, <2>2, <2>3, <2>5
<1>6. k \in 0 .. m /\ left[1] = m - k
  <2>1. left[0] = m /\ 0 \in 0 .. 2 - 1 /\ 0 + 1 = 1 /\ 2 - (0 + 1) = 1
    BY <1>4 DEF ReadsBack
  <2>2. left[0 + 1] = left[0] - table[2 - (0 + 1)][left[0]].alloc
    BY <1>4, <2>1 DEF ReadsBack
  <2>3. table[1] \in Rows(m) /\ m \in 0 .. m
    BY <1>3
  <2>4. k \in 0 .. m
    BY <2>3 DEF Rows
  <2>. QED  BY <2>1, <2>2, <2>4
<1>7. r[0] = m - k
  <2>1. 0 \in 0 .. 2 - 1 /\ 2 - 1 - 0 = 1 /\ m - k \in 0 .. m
    BY <1>6
  <2>2. r[0] = table[0][left[2 - 1 - 0]].alloc
    BY <1>1, <2>1
  <2>. QED  BY <1>5, <1>6, <2>1, <2>2
<1>8. \A l \in 0 .. m : Spread(qps, 1, k, first[m - k]) <= Spread(qps, 1, l, first[m - l])
  <2>1. qps[1] \in [0 .. m -> Nat] /\ m \in 0 .. m
    OBVIOUS
  <2> HIDE DEF first
  <2>2. \A j \in 0 .. m : LET b == NextJob(qps, m, 1, first)[j].alloc
                          IN  \A l \in 0 .. j : Spread(qps, 1, b, first[j - b]) <= Spread(qps, 1, l, first[j - l])
    BY <1>5, <2>1, NextJobIs
  <2>. QED  BY <1>5, <2>1, <2>2
<1> HIDE DEF k
<1>9. ASSUME NEW a \in 0 .. m PROVE Gap(qps, m, m - k) <= Gap(qps, m, a)
  <2>1. m - a \in 0 .. m /\ m - (m - a) = a
    OBVIOUS
  <2>2. Spread(qps, 1, m - a, first[m - (m - a)]) = Gap(qps, m, m - (m - a))
    BY <2>1, GapIs
  <2>3. Spread(qps, 1, k, first[m - k]) = Gap(qps, m, m - k)
    BY <1>6, GapIs
  <2>4. Spread(qps, 1, k, first[m - k]) <= Spread(qps, 1, m - a, first[m - (m - a)])
    BY <1>8, <2>1
  <2>. QED  BY <2>1, <2>2, <2>3, <2>4
<1>. QED  BY <1>7, <1>9

-----------------------------------------------------------------------------
(* The specification *)

(* What a call returns. *)
Result(c) ==
  IF c.mode = "global" THEN GlobalFairTimeRalloc(c.n, c.m, c.arg) ELSE LocalFairTimeRalloc(c.n, c.m, c.arg)

(* The inductive invariant: an allocation is the one of the call. *)
Answered == call \in Calls /\ (resources # NotYet => resources = Result(call))

LEMMA AnsweredInductive == Spec => []Answered
<1>1. Init => Answered
  BY DEF Init, Answered
<1>2. Answered /\ [Next]_<<call, resources>> => Answered'
  BY DEF Answered, Next, Allocate, Result
<1>. QED  BY <1>1, <1>2, PTL DEF Spec

(* The arguments of a call. *)
LEMMA CallIs ==
  ASSUME NEW c \in Calls
  PROVE  /\ c.n \in Nat \ {0} /\ c.m \in Nat
         /\ c.mode = "global" => c.arg \in [0 .. c.n - 1 -> [0 .. c.m -> Nat]]
         /\ c.mode = "local" => c.arg \in [0 .. c.n - 1 -> Nat \ {0}]
<1>1. PICK n \in 1 .. MaxJobs, m \in 1 .. MaxWorkers :
        c \in [mode : {"global"}, n : {n}, m : {m}, arg : JobToQPS(n, m)]
                \cup [mode : {"local"}, n : {n}, m : {m}, arg : [0 .. n - 1 -> 1 .. MaxRate]]
  BY DEF Calls
<1>2. c.n = n /\ c.m = m /\ n \in Nat \ {0} /\ m \in Nat
  BY <1>1, RallocAssumption
<1>3. CASE c \in [mode : {"global"}, n : {n}, m : {m}, arg : JobToQPS(n, m)]
  <2>1. c.mode = "global" /\ c.arg \in [0 .. n - 1 -> Rates(m)]
    BY <1>3 DEF JobToQPS
  <2>2. Rates(m) \in SUBSET [0 .. m -> Nat]
    BY RallocAssumption DEF Rates
  <2>3. c.arg \in [0 .. n - 1 -> [0 .. m -> Nat]]
    BY <2>1, <2>2
  <2>. QED  BY <1>2, <2>1, <2>3
<1>4. CASE c \in [mode : {"local"}, n : {n}, m : {m}, arg : [0 .. n - 1 -> 1 .. MaxRate]]
  <2>1. c.mode = "local" /\ c.arg \in [0 .. n - 1 -> 1 .. MaxRate]
    BY <1>4
  <2>2. 1 .. MaxRate \in SUBSET (Nat \ {0})
    BY RallocAssumption
  <2>3. c.arg \in [0 .. n - 1 -> Nat \ {0}]
    BY <2>1, <2>2
  <2>. QED  BY <1>2, <2>1, <2>3
<1>. QED  BY <1>1, <1>3, <1>4

(* GlobalFairTimeRalloc hands out every worker, and no worker twice: "sums *)
(* up to m" of its comment, for any number of jobs, workers and rates.     *)
THEOREM EveryWorkerUsed == Spec => []UsesEveryWorker
<1>1. Answered => UsesEveryWorker
  <2> SUFFICES ASSUME Answered, Returned("global")
               PROVE  (\A i \in 0 .. call.n - 1 : resources[i] \in 0 .. call.m) /\ SumFunction(resources) = call.m
    BY DEF UsesEveryWorker
  <2>1. resources = GlobalFairTimeRalloc(call.n, call.m, call.arg) /\ call.mode = "global" /\ call \in Calls
    BY DEF Answered, Returned, Result
  <2>2. call.n \in Nat \ {0} /\ call.m \in Nat /\ call.arg \in [0 .. call.n - 1 -> [0 .. call.m -> Nat]]
    BY <2>1, CallIs
  <2>3. SharesAll(resources, call.n, call.m)
    BY <2>1, <2>2, GlobalIs
  <2>. QED  BY <2>3 DEF SharesAll
<1>. QED  BY <1>1, AnsweredInductive, PTL

(* LocalFairTimeRalloc never promises more workers than there are, though  *)
(* it rounds every share half up, and leaves at most half a worker per job *)
(* idle.                                                                   *)
THEOREM RoundingWastesLittle == Spec => []WastesHalfAWorkerPerJob
<1>1. Answered => WastesHalfAWorkerPerJob
  <2> SUFFICES ASSUME Answered, Returned("local")
               PROVE  /\ \A i \in 0 .. call.n - 1 : resources[i] \in 0 .. call.m
                      /\ SumFunction(resources) <= call.m /\ 2 * (call.m - SumFunction(resources)) <= call.n
    BY DEF WastesHalfAWorkerPerJob
  <2>1. resources = LocalFairTimeRalloc(call.n, call.m, call.arg) /\ call.mode = "local" /\ call \in Calls
    BY DEF Answered, Returned, Result
  <2>2. call.n \in Nat \ {0} /\ call.m \in Nat /\ call.arg \in [0 .. call.n - 1 -> Nat \ {0}]
    BY <2>1, CallIs
  <2>. QED  BY <2>1, <2>2, LocalIs
<1>. QED  BY <1>1, AnsweredInductive, PTL

(* The dynamic program of GlobalFairTimeRalloc keeps one way to fill a     *)
(* cell, which loses splits in general; with two jobs it loses none, and   *)
(* the rates of the jobs are as close as any split makes them.             *)
THEOREM TwoJobsAreFair == Spec => []FairForTwo
<1>1. Answered => FairForTwo
  <2> SUFFICES ASSUME Answered, Returned("global"), call.n = 2
               PROVE  \A a \in 0 .. call.m : RateGap(resources[0]) <= RateGap(a)
    BY DEF FairForTwo
  <2>1. resources = GlobalFairTimeRalloc(2, call.m, call.arg) /\ call.mode = "global" /\ call \in Calls
    BY DEF Answered, Returned, Result
  <2>2. call.m \in Nat /\ call.arg \in [0 .. call.n - 1 -> [0 .. call.m -> Nat]]
    BY <2>1, CallIs
  <2>3. call.arg \in [0 .. 1 -> [0 .. call.m -> Nat]]
    <3>1. call.n - 1 = 1
      OBVIOUS
    <3>. QED  BY <2>2, <3>1, Zenon
  <2>4. \A a \in 0 .. call.m : Gap(call.arg, call.m, resources[0]) <= Gap(call.arg, call.m, a)
    BY <2>1, <2>2, <2>3, GlobalOfTwo
  <2>. QED  BY <2>4 DEF Gap, RateGap
<1>. QED  BY <1>1, AnsweredInductive, PTL
=============================================================================

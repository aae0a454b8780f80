------------------------------- MODULE HashRing -------------------------------
(***************************************************************************)
(* The consistent-hash ring of SDFS (sdfs/hash_ring.go): the processes in  *)
(* the order of their keys, and which of them hold a file.                 *)
(***************************************************************************)
EXTENDS Naturals, Sequences, FiniteSets

CONSTANTS
  Servers,       \* addresses
  Files,         \* file names
  Hash,          \* Hash[x]: utils.Hash of an address or a file name
  HASH_SIZE,
  Or(_, _)       \* the operator | on integers

ASSUME HashAssumption ==
  /\ IsFiniteSet(Servers)
  /\ Hash \in [Servers \cup Files -> Nat] /\ HASH_SIZE \in Nat \ {0}
  /\ \A s \in Servers : \A i \in 0 .. HASH_SIZE : Or(Hash[s], i) \in Nat

First(S) == CHOOSE i \in S : \A j \in S : i <= j

(* The elements of S in the order of their keys, which are all different. *)
InOrder(S, key) ==
  [i \in 1 .. Cardinality(S) |-> CHOOSE s \in S : Cardinality({t \in S : key[t] <= key[s]}) = i]

(* The first free of the keys hash, hash | 1, hash | 2, ... *)
FreeKey(taken, hash) ==
  LET key(i) == Or(hash, i) % HASH_SIZE
      free == {i \in 0 .. HASH_SIZE - 1 : key(i) \notin taken}
  IN  key(IF free = {} THEN HASH_SIZE ELSE First(free))

(* The processes with their keys, in the order of the list. *)
WithNode(hr, p) ==
  Append(hr, [key |-> FreeKey({hr[k].key : k \in DOMAIN hr}, Hash[p]), proc |-> p])
Place(processes) ==
  LET placed[i \in 0 .. Len(processes)] ==
        IF i = 0 THEN <<>> ELSE WithNode(placed[i - 1], processes[i])
  IN  placed[Len(processes)]

(* Sorted by the keys; sort.Sort leaves equal ones in some order. *)
Refresh(processes) ==
  LET placed == Place(processes)
      order == InOrder(DOMAIN placed, [i \in DOMAIN placed |-> placed[i].key * Len(placed) + i])
  IN  [i \in DOMAIN placed |-> placed[order[i]]]

(* The first node at or after the key of the file, or else the first node. *)
StartIndex(hr, f) ==
  LET after == {i \in DOMAIN hr : hr[i].key >= Hash[f] % HASH_SIZE}
  IN  IF after = {} THEN 1 ELSE First(after)

NodeAt(hr, i) == hr[((i - 1) % Len(hr)) + 1].proc

FindReplicas(hr, f, n) ==
  {NodeAt(hr, StartIndex(hr, f) + i) : i \in 0 .. (IF Len(hr) < n THEN Len(hr) ELSE n) - 1}

(* Whether the file is routed to p: GetRouteProcess. *)
RoutesTo(hr, f, p) == hr # <<>> /\ NodeAt(hr, StartIndex(hr, f)) = p

(* By the key the address hashes to, which is not its key after a collision. *)
ProcessIndexes(hr, p) ==
  LET at == {i \in DOMAIN hr : hr[i].key = Hash[p] % HASH_SIZE}
  IN  {i \in at : \A j \in at : i <= j}

(* The n nodes after p, up to p itself. *)
FindSuccessors(hr, p, n) ==
  UNION {{NodeAt(hr, i + k) : k \in {m \in 1 .. n : \A l \in 1 .. m : NodeAt(hr, i + l) # p}} :
            i \in ProcessIndexes(hr, p)}

FindPredecessor(hr, p) ==
  {NodeAt(hr, i - 1 + Len(hr)) : i \in {k \in ProcessIndexes(hr, p) : Len(hr) > 1}}
=============================================================================

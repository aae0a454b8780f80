------------------------------- MODULE MCRing -------------------------------
(* Instances of Ring for TLC. *)
EXTENDS Ring, TLC

NotFounders == Permutations(Nodes \ Founders)
=============================================================================

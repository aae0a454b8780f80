------------------------------- MODULE MCSDFS -------------------------------
(* Instances of SDFS for TLC. *)
EXTENDS SDFS

CONSTANTS s1, s2, s3, f1

(* a | b for the hashes 0 .. 3 and the numbers 0 .. 4. *)
BitOrs == <<<<0, 1, 2, 3, 4>>, <<1, 1, 3, 3, 5>>, <<2, 3, 2, 3, 6>>, <<3, 3, 3, 3, 7>>>>
BitOr(a, b) == BitOrs[a + 1][b + 1]

MCJoinTime == [s \in Servers |-> CASE s = s1 -> 1 [] s = s2 -> 2 [] OTHER -> 3]

(* f1 is routed to s2, whether s3 is there or not. *)
MCHash == [x \in Servers \cup Files |->
             CASE x = s1 -> 0 [] x = f1 -> 1 [] x = s2 -> 2 [] OTHER -> 3]
(* f1 is routed to s2, and to s3 once that is there. *)
MainChanges == [MCHash EXCEPT ![s3] = 1]

OnePut == <<{"PUT"}>>
TwoPuts == <<{"PUT"}, {"PUT"}>>
PutChangeGet == <<{"PUT"}, {"PUT", "DELETE"}, {"GET", "LIST"}>>
=============================================================================

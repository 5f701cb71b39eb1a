----------------------------- MODULE MCKronwrk -----------------------------
(* Small instances of Kronwrk for TLC. *)
EXTENDS Kronwrk, TLC

CONSTANTS j1, s1, s2, a, w1, w2

OccursAlways == [j \in Jobs |-> 1 .. MaxTime + 1]

\* The schedulers are alike.
Twins == Permutations(Schedulers)
=============================================================================

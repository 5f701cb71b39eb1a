------------------------- MODULE MCPromotionFirst --------------------------
(* Small instances of PromotionFirst for TLC, under the assumptions of the *)
(* scheduler's proofs.                                                     *)
EXTENDS SchedulerProofs, TLC

CONSTANTS j1, s1, s2, a, b

\* Every job runs at every time, and once more after the clock stops.
OccursAlways == [j \in Jobs |-> 1 .. MaxTime + 1]

\* Every job runs early, with time left for its run to wait, and once more after
\* the clock stops.
OccursOnce == [j \in Jobs |-> {1, MaxTime + 1}]

\* The schedulers are alike, and so are the names.
Twins == Permutations(Schedulers) \cup Permutations(Names)
=============================================================================

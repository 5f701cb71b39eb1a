--------------------------- MODULE MCNeverMatches ---------------------------
(* An instance of Scheduler with a cron expression that parses and never *)
(* matches, "0 0 30 2 *".  The proofs assume there is none.              *)
EXTENDS Scheduler

CONSTANTS j1, s1

OccursNever == [j \in Jobs |-> {}]
=============================================================================

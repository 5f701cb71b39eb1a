----------------------------- MODULE MCWorker ------------------------------
(* Small instances of Worker for TLC. *)
EXTENDS Worker

CONSTANTS j1, j2, w1, w2
=============================================================================

------------------------------ MODULE MCShell ------------------------------
(* Small instances of Shell for TLC. *)
EXTENDS Shell

CONSTANTS u1, u2
=============================================================================

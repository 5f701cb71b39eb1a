--------------------------- MODULE MCDaemonControl ---------------------------
(* Small instances of DaemonControl for TLC. *)
EXTENDS DaemonControl, TLC

CONSTANTS sh1, sh2, p1, p2, u1, u2

\* Shells, pids and logins are alike.
Alike == Permutations(Shells) \cup Permutations(Pids) \cup Permutations(Users)
=============================================================================

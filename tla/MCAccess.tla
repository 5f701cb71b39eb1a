------------------------------ MODULE MCAccess ------------------------------
(* Small instances of Access for TLC. *)
EXTENDS Access, TLC

CONSTANTS u1, sh1, d1, by1, by2

\* The administrators do the same things.
AnyAdmin == Permutations(Admins)
=============================================================================

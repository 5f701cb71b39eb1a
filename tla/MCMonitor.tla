----------------------------- MODULE MCMonitor -----------------------------
(* Small instances of Monitor for TLC: three columns instead of eight. *)
EXTENDS Monitor

\* In terminals of 16 and 22: views that fit, views that have to be cut, and
\* views too wide even with every column at the minimum.
SomeContent ==
  [jobs |-> [r \in 0 .. MaxRev |-> <<<<2, 5, 6>>, <<3, 9, 6>>>>[r + 1]],
   runs |-> [r \in 0 .. MaxRev |-> <<<<7, 7, 5>>, <<1, 10, 6>>>>[r + 1]]]
=============================================================================

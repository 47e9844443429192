--------------------------- MODULE MCControlPlane ---------------------------
(* Constants for the runs of ControlPlane.                                 *)
EXTENDS ControlPlane, TLC

CONSTANTS c1, c2, t1, t2, p, q

Symmetric == Permutations(Coordinators) \cup Permutations(Threads) \cup Permutations(Plans)
=============================================================================

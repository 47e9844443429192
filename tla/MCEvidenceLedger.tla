-------------------------- MODULE MCEvidenceLedger --------------------------
(* Constants for the runs of EvidenceLedger.                               *)
EXTENDS EvidenceLedger, TLC

CONSTANTS p1, p2

Symmetric == Permutations(Processes)
=============================================================================

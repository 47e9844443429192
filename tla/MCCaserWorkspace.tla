-------------------------- MODULE MCCaserWorkspace --------------------------
(* Constants for the runs of CaserWorkspace.                               *)
EXTENDS CaserWorkspace, TLC

CONSTANTS w1, w2, evidence, draft

Symmetric == Permutations(Writers)
=============================================================================

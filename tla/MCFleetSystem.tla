--------------------------- MODULE MCFleetSystem ---------------------------
(* Constants of the TLC runs of FleetSystem.                               *)
EXTENDS FleetSystem, TLC

CONSTANTS a, b, c

\* Workers may be exchanged when none of them is a verifier too.
Exchangeable == Permutations(Workers \ Verifiers)
=============================================================================

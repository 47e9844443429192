---------------------------- MODULE MCFleetStore ----------------------------
(* Small constants for the runs of FleetStore.                             *)
EXTENDS FleetStore, TLC

CONSTANTS a, b, c   \* identities of workers and verifiers

\* One delay that is not positive, which fail_execution counts as none.
Delays == {-1, 1}

\* One lease that is over when it is granted: the length is not validated.
Renewals == {-1, 2}

Symmetric == Permutations(Actors)
=============================================================================

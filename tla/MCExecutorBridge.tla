-------------------------- MODULE MCExecutorBridge --------------------------
(* Small constants for the runs of ExecutorBridge.                         *)
EXTENDS ExecutorBridge, TLC

CONSTANTS r1, r2, h1, h2

\* The signer's clock is right, or ahead by more than is allowed.
Ahead == {0, 2}

Symmetric == Permutations(Requests) \cup Permutations(Handlers)
=============================================================================

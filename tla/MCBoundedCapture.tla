-------------------------- MODULE MCBoundedCapture --------------------------
(* Constants for the runs of BoundedCapture.                               *)
EXTENDS BoundedCapture
=============================================================================

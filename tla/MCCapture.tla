----------------------------- MODULE MCCapture -----------------------------
(* Two Captures at the same time, each with or without a CPU profile (and one *)
(* alone for the violation): the values are in the configurations.            *)
EXTENDS Capture
=============================================================================

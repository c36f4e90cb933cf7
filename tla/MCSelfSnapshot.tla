--------------------------- MODULE MCSelfSnapshot ---------------------------
(* SelfSnapshot with one caller, which also calls Init, Stop and Status.      *)
EXTENDS SelfSnapshot
=============================================================================

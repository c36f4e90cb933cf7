---------------------------- MODULE MCFifoQueue ----------------------------
(* Nodes of two elements instead of 128: a queue of up to five elements spans *)
(* up to three full nodes and one that it leaves.                             *)
EXTENDS FifoQueue, TLC

Symmetry == Permutations(Nodes)
=============================================================================

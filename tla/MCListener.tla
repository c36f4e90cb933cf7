----------------------------- MODULE MCListener -----------------------------
(* Small instances of Listener: with two connections a new one may be dialed *)
(* while the old one is still being closed by one of two users.              *)
EXTENDS Listener
=============================================================================

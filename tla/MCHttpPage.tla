----------------------------- MODULE MCHttpPage -----------------------------
(* HttpPage with two callers that serve requests of every kind.              *)
EXTENDS HttpPage
=============================================================================

-------------------------- MODULE AbstractListener --------------------------
(***************************************************************************)
(* What a serverdial.Listener promises to the gRPC server that owns it,    *)
(* whatever dialing it takes: it is looking for a connection, holds one    *)
(* that nobody has accepted yet, or is watching one that was accepted; a   *)
(* closed listener leaves by itself, except while it offers a connection.  *)
(*                                                                         *)
(* Listener implements this specification; SideEyeConn uses one copy of it *)
(* per session.                                                            *)
(***************************************************************************)

CONSTANT Closers    \* goroutines that call Listener.Close

VARIABLES
  phase,       \* where run() stands
  cancelled,   \* dialingCtx is done
  closer       \* progress of each call of Close

vars == <<phase, cancelled, closer>>

Phases == {"connecting", "offering", "serving", "leaving", "stopped"}

TypeOK ==
  /\ phase \in Phases
  /\ cancelled \in BOOLEAN
  /\ closer \in [Closers -> {"idle", "waiting", "returned"}]

Init ==
  /\ phase = "connecting"
  /\ cancelled = FALSE
  /\ closer = [k \in Closers |-> "idle"]

(***************************************************************************)
(* The run() goroutine.                                                    *)
(***************************************************************************)
Move(from, to) ==
  /\ phase \in from
  /\ phase' = to
  /\ UNCHANGED <<cancelled, closer>>

Offer == Move({"connecting"}, "offering")

Hand == Move({"offering"}, "serving")

Drop == Move({"serving"}, "connecting")

\* The send of an offered connection does not look at the context, so an
\* offering listener cannot leave.
Leave == cancelled /\ Move({"connecting", "serving"}, "leaving")

Finish == Move({"leaving"}, "stopped")

(***************************************************************************)
(* Close: cancel the context, then wait for the goroutine to be gone.      *)
(***************************************************************************)
Close(k) ==
  /\ closer[k] = "idle"
  /\ closer' = [closer EXCEPT ![k] = "waiting"]
  /\ cancelled' = TRUE
  /\ UNCHANGED phase

CloseReturns(k) ==
  /\ closer[k] = "waiting"
  /\ phase = "stopped"
  /\ closer' = [closer EXCEPT ![k] = "returned"]
  /\ UNCHANGED <<phase, cancelled>>

Next ==
  \/ Offer \/ Hand \/ Drop \/ Leave \/ Finish
  \/ \E k \in Closers : Close(k) \/ CloseReturns(k)

SafeSpec == Init /\ [][Next]_vars

Spec ==
  /\ SafeSpec
  /\ WF_vars(Leave)
  /\ WF_vars(Finish)
  /\ \A k \in Closers : WF_vars(CloseReturns(k))
=============================================================================

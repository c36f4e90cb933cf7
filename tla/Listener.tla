------------------------------ MODULE Listener ------------------------------
(***************************************************************************)
(* serverdial.Listener (internal/serverdial/server_dial.go and             *)
(* header_dialer.go): a net.Listener that dials.  One goroutine, run(),    *)
(* dials the remote address, writes the handshake header, hands the        *)
(* connection to Accept() over an unbuffered channel and waits until the   *)
(* connection is closed before it dials again.                             *)
(*                                                                         *)
(* The other actors are the callers: the gRPC Serve loop that calls        *)
(* Accept(), the gRPC transports that close a wrapped connection, and the  *)
(* goroutines that call Listener.Close().                                  *)
(*                                                                         *)
(* A member of Conns stands for one dialed connection; once it is closed   *)
(* and nobody is inside its Close() it may stand for a later one.          *)
(***************************************************************************)
EXTENDS Naturals, FiniteSets

CONSTANTS
  Conns,     \* connections that may exist at the same time
  Users,     \* goroutines that call wrappedConn.Close
  Closers,   \* goroutines that call Listener.Close
  NoConn     \* "nil"

ASSUME ListenerAssumption ==
  /\ NoConn \notin Conns
  /\ Conns # {}
  /\ Closers # {}

VARIABLES
  runPc,      \* where the run() goroutine stands
  cur,        \* its local variable conn
  recent,     \* time.Since(lastDial) < dialInterval
  tcp,        \* state of each connection's socket
  accepted,   \* connections returned by Accept()
  entered,    \* wrapped connections whose closeOnce was taken
  onClose,    \* wrapped connections whose onClose channel is closed
  closing,    \* the connection each user is closing
  ctxDone,    \* dialingCtx was cancelled
  status,     \* mu.status
  done,       \* the done channel is closed
  acceptPc,   \* the goroutine that calls Accept()
  closer      \* progress of each call of Listener.Close()

dialVars == <<cur, recent>>
connVars == <<tcp, accepted, entered, onClose, closing>>
vars == <<runPc, dialVars, connVars, ctxDone, status, done, acceptPc, closer>>

TypeOK ==
  /\ runPc \in {"start", "loop", "wait", "dialing", "header", "send", "watch",
                "exit", "closing", "finished"}
  /\ cur \in Conns \cup {NoConn}
  /\ recent \in BOOLEAN
  /\ tcp \in [Conns -> {"unused", "open", "closed"}]
  /\ accepted \subseteq Conns
  /\ entered \subseteq Conns
  /\ onClose \subseteq Conns
  /\ closing \in [Users -> Conns \cup {NoConn}]
  /\ ctxDone \in BOOLEAN
  /\ status \in {"Unknown", "Connecting", "Connected", "Disconnected"}
  /\ done \in BOOLEAN
  /\ acceptPc \in {"idle", "accept", "stopped"}
  /\ closer \in [Closers -> {"idle", "waiting", "returned"}]

\* NewListener returned: its goroutine was started but has not run yet.
Init ==
  /\ runPc = "start"
  /\ cur = NoConn
  /\ recent = FALSE
  /\ tcp = [c \in Conns |-> "unused"]
  /\ accepted = {}
  /\ entered = {}
  /\ onClose = {}
  /\ closing = [u \in Users |-> NoConn]
  /\ ctxDone = FALSE
  /\ status = "Unknown"
  /\ done = FALSE
  /\ acceptPc = "idle"
  /\ closer = [k \in Closers |-> "idle"]

-----------------------------------------------------------------------------
(***************************************************************************)
(* The run() goroutine: the wait between two dials.                        *)
(***************************************************************************)
RunStart ==
  /\ runPc = "start"
  /\ status' = "Connecting"
  /\ runPc' = "loop"
  /\ UNCHANGED <<dialVars, connVars, ctxDone, done, acceptPc, closer>>

WaitForInterval ==
  /\ runPc = "loop"
  /\ recent
  /\ runPc' = "wait"
  /\ UNCHANGED <<dialVars, connVars, ctxDone, status, done, acceptPc, closer>>

WaitCancelled ==
  /\ runPc = "wait"
  /\ ctxDone
  /\ runPc' = "exit"
  /\ UNCHANGED <<dialVars, connVars, ctxDone, status, done, acceptPc, closer>>

\* lastDial = time.Now(): at the head of the loop, or after the timer fired.  A
\* dialer called with a cancelled context fails at once, so much faster than
\* dialInterval that the loop is certain to reach its select again.
StartDial ==
  /\ runPc \in {"loop", "wait"}
  /\ ~recent
  /\ recent' = TRUE
  /\ runPc' = IF ctxDone THEN "wait" ELSE "dialing"
  /\ UNCHANGED <<cur, connVars, ctxDone, status, done, acceptPc, closer>>

DialIntervalPasses ==
  /\ recent
  /\ recent' = FALSE
  /\ UNCHANGED <<runPc, cur, connVars, ctxDone, status, done, acceptPc, closer>>

(***************************************************************************)
(* headerDialer.DialContext: dial, then write the header; a connection     *)
(* whose header cannot be written is closed at once.                       *)
(***************************************************************************)
DialFails ==
  /\ runPc = "dialing"
  /\ runPc' = "loop"
  /\ UNCHANGED <<dialVars, connVars, ctxDone, status, done, acceptPc, closer>>

\* A dial under way may still succeed when its context is cancelled.
DialConnects(c) ==
  /\ runPc = "dialing"
  /\ tcp[c] # "open"
  /\ \A u \in Users : closing[u] # c
  /\ tcp' = [tcp EXCEPT ![c] = "open"]
  /\ accepted' = accepted \ {c}
  /\ entered' = entered \ {c}
  /\ onClose' = onClose \ {c}
  /\ cur' = c
  /\ runPc' = "header"
  /\ UNCHANGED <<recent, closing, ctxDone, status, done, acceptPc, closer>>

\* Mutant: the connection is not closed when its header cannot be written.
HeaderFailsLeaving ==
  /\ runPc = "header"
  /\ cur' = NoConn
  /\ runPc' = "loop"
  /\ UNCHANGED <<recent, connVars, ctxDone, status, done, acceptPc, closer>>

HeaderFails ==
  /\ runPc = "header"
  /\ tcp' = [tcp EXCEPT ![cur] = "closed"]
  /\ cur' = NoConn
  /\ runPc' = "loop"
  /\ UNCHANGED <<recent, accepted, entered, onClose, closing, ctxDone, status,
                 done, acceptPc, closer>>

HeaderWritten ==
  /\ runPc = "header"
  /\ status' = "Connected"
  /\ runPc' = "send"
  /\ UNCHANGED <<dialVars, connVars, ctxDone, done, acceptPc, closer>>

(***************************************************************************)
(* The unbuffered send on dialChan meets the receive in Accept(); then     *)
(* run() watches the connection.                                           *)
(***************************************************************************)
Deliver ==
  /\ runPc = "send"
  /\ acceptPc = "accept"
  /\ accepted' = accepted \cup {cur}
  /\ acceptPc' = "idle"
  /\ runPc' = "watch"
  /\ UNCHANGED <<dialVars, tcp, entered, onClose, closing, ctxDone, status, done,
                 closer>>

\* Mutant: the status is not set back to Connecting.
WatchClosedKeepingStatus ==
  /\ runPc = "watch"
  /\ cur \in onClose
  /\ cur' = NoConn
  /\ runPc' = "loop"
  /\ UNCHANGED <<recent, connVars, ctxDone, status, done, acceptPc, closer>>

\* Mutant: run() returns when its connection drops.
WatchClosedReturning ==
  /\ runPc = "watch"
  /\ cur \in onClose
  /\ runPc' = "exit"
  /\ UNCHANGED <<dialVars, connVars, ctxDone, status, done, acceptPc, closer>>

WatchClosed ==
  /\ runPc = "watch"
  /\ cur \in onClose
  /\ status' = "Connecting"
  /\ cur' = NoConn
  /\ runPc' = "loop"
  /\ UNCHANGED <<recent, connVars, ctxDone, done, acceptPc, closer>>

\* Mutant: run() waits for onClose only.
WatchCancelledNever == FALSE /\ UNCHANGED vars

WatchCancelled ==
  /\ runPc = "watch"
  /\ ctxDone
  /\ runPc' = "exit"
  /\ UNCHANGED <<dialVars, connVars, ctxDone, status, done, acceptPc, closer>>

(***************************************************************************)
(* The deferred calls of the goroutine, in the order they run.             *)
(***************************************************************************)
DeferStatus ==
  /\ runPc = "exit"
  /\ status' = "Disconnected"
  /\ runPc' = "closing"
  /\ UNCHANGED <<dialVars, connVars, ctxDone, done, acceptPc, closer>>

DeferDone ==
  /\ runPc = "closing"
  /\ done' = TRUE
  /\ runPc' = "finished"
  /\ UNCHANGED <<dialVars, connVars, ctxDone, status, acceptPc, closer>>

-----------------------------------------------------------------------------
(***************************************************************************)
(* Accept(), called in a loop by grpc.Server.Serve until it fails.         *)
(***************************************************************************)
CallAccept ==
  /\ acceptPc = "idle"
  /\ acceptPc' = "accept"
  /\ UNCHANGED <<runPc, dialVars, connVars, ctxDone, status, done, closer>>

\* Mutant: Accept() receives from dialChan only.
AcceptCancelledNever == FALSE /\ UNCHANGED vars

AcceptCancelled ==
  /\ acceptPc = "accept"
  /\ ctxDone
  /\ acceptPc' = "stopped"
  /\ UNCHANGED <<runPc, dialVars, connVars, ctxDone, status, done, closer>>

(***************************************************************************)
(* wrappedConn.Close(): closeOnce lets one caller in; it closes the socket *)
(* and then the channel run() watches.                                     *)
(***************************************************************************)
\* Mutant: closeOnce is missing.
ConnCloseWithoutOnce(u, c) ==
  /\ closing[u] = NoConn
  /\ c \in accepted
  /\ entered' = entered \cup {c}
  /\ tcp' = [tcp EXCEPT ![c] = "closed"]
  /\ closing' = [closing EXCEPT ![u] = c]
  /\ UNCHANGED <<runPc, dialVars, accepted, onClose, ctxDone, status, done,
                 acceptPc, closer>>

ConnClose(u, c) ==
  /\ closing[u] = NoConn
  /\ c \in accepted \ entered
  /\ entered' = entered \cup {c}
  /\ tcp' = [tcp EXCEPT ![c] = "closed"]
  /\ closing' = [closing EXCEPT ![u] = c]
  /\ UNCHANGED <<runPc, dialVars, accepted, onClose, ctxDone, status, done,
                 acceptPc, closer>>

ConnSignal(u) ==
  /\ closing[u] # NoConn
  /\ onClose' = onClose \cup {closing[u]}
  /\ closing' = [closing EXCEPT ![u] = NoConn]
  /\ UNCHANGED <<runPc, dialVars, tcp, accepted, entered, ctxDone, status, done,
                 acceptPc, closer>>

(***************************************************************************)
(* Listener.Close().                                                       *)
(***************************************************************************)
Close(k) ==
  /\ closer[k] = "idle"
  /\ closer' = [closer EXCEPT ![k] = "waiting"]
  /\ ctxDone' = TRUE
  /\ UNCHANGED <<runPc, dialVars, connVars, status, done, acceptPc>>

\* Mutant: Close() does not wait for the done channel.
CloseReturnsEarly(k) ==
  /\ closer[k] = "waiting"
  /\ closer' = [closer EXCEPT ![k] = "returned"]
  /\ UNCHANGED <<runPc, dialVars, connVars, ctxDone, status, done, acceptPc>>

CloseReturns(k) ==
  /\ closer[k] = "waiting"
  /\ done
  /\ closer' = [closer EXCEPT ![k] = "returned"]
  /\ UNCHANGED <<runPc, dialVars, connVars, ctxDone, status, done, acceptPc>>

-----------------------------------------------------------------------------
Dial == DialFails \/ (\E c \in Conns : DialConnects(c)) \/ HeaderFails \/ HeaderWritten

Run ==
  \/ RunStart \/ WaitForInterval \/ WaitCancelled \/ StartDial \/ Dial
  \/ Deliver \/ WatchClosed \/ WatchCancelled \/ DeferStatus \/ DeferDone

Next ==
  \/ Run
  \/ DialIntervalPasses
  \/ CallAccept \/ AcceptCancelled
  \/ \E u \in Users : ConnSignal(u) \/ \E c \in Conns : ConnClose(u, c)
  \/ \E k \in Closers : Close(k) \/ CloseReturns(k)

SafeSpec == Init /\ [][Next]_vars

(***************************************************************************)
(* Fairness.  Goroutines that can run do run.  A dial is only known to end *)
(* once its context is cancelled.  A select with two ready cases chooses   *)
(* at random, so a case that is ready again and again is taken in the end  *)
(* (strong fairness of the cancellations and of the delivery).  Nobody is  *)
(* obliged to close a connection or the listener.                          *)
(***************************************************************************)
DialAborted == ctxDone /\ DialFails

Fairness ==
  /\ WF_vars(RunStart) /\ WF_vars(WaitForInterval) /\ WF_vars(StartDial)
  /\ WF_vars(DialIntervalPasses)
  /\ WF_vars(DialAborted) /\ WF_vars(HeaderFails \/ HeaderWritten)
  /\ WF_vars(WatchClosed) /\ WF_vars(DeferStatus) /\ WF_vars(DeferDone)
  /\ WF_vars(CallAccept)
  /\ SF_vars(WaitCancelled) /\ SF_vars(WatchCancelled)
  /\ SF_vars(AcceptCancelled) /\ SF_vars(Deliver)
  /\ \A u \in Users : WF_vars(ConnSignal(u))
  /\ \A k \in Closers : WF_vars(CloseReturns(k))

Spec == SafeSpec /\ Fairness

-----------------------------------------------------------------------------
OpenConns == {c \in Conns : tcp[c] = "open"}

\* "there's ever at most one connection active": the next dial starts only
\* after the previous socket was closed, because wrappedConn.Close closes the
\* socket before it closes the channel that run() waits for.
AtMostOneConnection == \A c, d \in OpenConns : c = d

\* No two goroutines close the same onClose channel (Go panics on the second
\* close), although gRPC's reader and Stop may both call wrappedConn.Close.
NoDoubleClose ==
  \A u \in Users : closing[u] # NoConn =>
    /\ closing[u] \notin onClose
    /\ \A w \in Users : closing[w] = closing[u] => w = u

\* The published status never claims a connection after the one it stood for was
\* given up for a new dial: Connected only while run() holds a dialed connection
\* or is on its way out after a cancellation.
ConnectedMeansHeld ==
  status = "Connected" =>
    \/ runPc \in {"send", "watch"} /\ cur \in Conns
    \/ runPc = "exit" /\ ctxDone

\* Once some Close() has returned the listener is silent for ever: no dial, no
\* socket opened, nothing handed out, and the status stays Disconnected.
QuietAfterClose ==
  [][(\E k \in Closers : closer[k] = "returned") =>
       /\ status = "Disconnected" /\ status' = "Disconnected"
       /\ OpenConns' \subseteq OpenConns
       /\ accepted' = accepted]_vars

\* A connection that drops is replaced: unless the listener is closed, run()
\* goes back to dialing.
Redials ==
  \A c \in Conns :
    runPc = "watch" /\ cur = c /\ c \in onClose ~> runPc = "dialing" \/ ctxDone

\* Closing the listener releases the Serve loop from Accept().
AcceptUnblocks == ctxDone ~> acceptPc = "stopped"

\* Close() returns, except while run() is stuck offering a connection that no
\* Accept() will take.
CloseReturnsUnlessOffering ==
  \A k \in Closers :
    closer[k] = "waiting" ~> closer[k] = "returned" \/ runPc = "send"

\* "cancelDialing is used by Close() to signal the run() goroutine to
\* terminate": every Close() returns.
CloseTerminates == \A k \in Closers : closer[k] = "waiting" ~> closer[k] = "returned"

(***************************************************************************)
(* What the listener promises (AbstractListener).                          *)
(***************************************************************************)
absPhase ==
  CASE runPc \in {"start", "loop", "wait", "dialing", "header"} -> "connecting"
    [] runPc = "send" -> "offering"
    [] runPc = "watch" -> "serving"
    [] runPc \in {"exit", "closing"} -> "leaving"
    [] runPc = "finished" -> "stopped"

Abs == INSTANCE AbstractListener WITH phase <- absPhase, cancelled <- ctxDone

\* run(), Accept and Close together behave as AbstractListener.
ImplementsAbstract == Abs!Spec
=============================================================================

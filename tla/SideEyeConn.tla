----------------------------- MODULE SideEyeConn -----------------------------
(***************************************************************************)
(* sideeyeconn.SideEyeConn (internal/sideeyeconn/side_eye_conn.go): the    *)
(* connection to the Side-Eye service that sideeye.Init, sideeye.Stop and  *)
(* the HTTP handler share.  Connect() closes what there was, starts a      *)
(* dialing listener, publishes the session under mu and starts a goroutine *)
(* that serves RPCs; Close() stops the gRPC server and waits for that      *)
(* goroutine; the goroutine closes the connection itself when Serve ends.  *)
(*                                                                         *)
(* A session is what one Connect() creates: a listener (one copy of        *)
(* AbstractListener), a gRPC server and the goroutine that serves.  The    *)
(* gRPC server is external: Serve and Stop are modelled as this code uses  *)
(* them (grpc v1.56.3).                                                    *)
(***************************************************************************)
EXTENDS Naturals, FiniteSets

CONSTANTS
  Callers,      \* goroutines that call Connect, Close and Status
  Sessions,     \* sessions Connect may create: bounds the number of Connects
  Free,         \* mu is not held
  NoSession,    \* nil
  ClientMayFail \* newArtifactsClient may return an error

ASSUME SideEyeConnAssumption ==
  /\ Callers \cap Sessions = {}
  /\ Free \notin Callers \cup Sessions
  /\ NoSession \notin Sessions
  /\ ClientMayFail \in BOOLEAN

VARIABLES
  mu,         \* holder of mu: a caller, a session's goroutine or Free
  cur,        \* session of mu.listener, mu.grpcServer and mu.grpcConn
  wg,         \* session whose wait group c.wg points to
  pc,         \* where each caller stands
  goal,       \* the call a caller is in
  mine,       \* the session a Connect is building, or a Close waits for
  gpc,        \* the goroutine that serves each session
  stop,       \* grpc.Server.Stop of each session
  lis,        \* phase of each session's listener (see AbstractListener)
  cancelled,  \* its context is done
  closer,     \* the one call of its Close()
  conn        \* an accepted connection of the session is open

callerVars == <<pc, goal, mine>>
lisVars == <<lis, cancelled, closer, conn>>
vars == <<mu, cur, wg, callerVars, gpc, stop, lisVars>>

Actors == Callers \cup Sessions

TypeOK ==
  /\ mu \in Actors \cup {Free}
  /\ cur \in Sessions \cup {NoSession}
  /\ wg \in Sessions \cup {NoSession}
  /\ pc \in [Callers -> {"idle", "check", "inner", "stopping", "readWg", "wait",
                         "create", "client", "publish", "spawn", "status", "panic"}]
  /\ goal \in [Callers -> {"none", "close", "connect"}]
  /\ mine \in [Callers -> Sessions \cup {NoSession}]
  /\ gpc \in [Sessions -> {"none", "start", "loop", "late", "drain", "ret",
                           "stopping", "finished", "never"}]
  /\ stop \in [Sessions -> {"no", "quit", "done"}]
  /\ lis \in [Sessions -> {"none", "connecting", "offering", "serving", "leaving",
                           "stopped"}]
  /\ cancelled \in [Sessions -> BOOLEAN]
  /\ closer \in [Sessions -> {"idle", "waiting", "returned"}]
  /\ conn \in [Sessions -> BOOLEAN]
  \* Who holds mu is inside Stop(), and a local is set where it is read.
  /\ mu \in Callers => pc[mu] = "stopping"
  /\ mu \in Sessions => gpc[mu] = "stopping"
  /\ \A k \in Callers : pc[k] \in {"client", "publish", "spawn", "wait"} =>
                         mine[k] \in Sessions

\* NewSideEyeConn().
Init ==
  /\ mu = Free
  /\ cur = NoSession
  /\ wg = NoSession
  /\ pc = [k \in Callers |-> "idle"]
  /\ goal = [k \in Callers |-> "none"]
  /\ mine = [k \in Callers |-> NoSession]
  /\ gpc = [s \in Sessions |-> "none"]
  /\ stop = [s \in Sessions |-> "no"]
  /\ lis = [s \in Sessions |-> "none"]
  /\ cancelled = [s \in Sessions |-> FALSE]
  /\ closer = [s \in Sessions |-> "idle"]
  /\ conn = [s \in Sessions |-> FALSE]

-----------------------------------------------------------------------------
(***************************************************************************)
(* Calls.  Connect() starts with a Close(); when that part is over the     *)
(* caller returns or goes on to create the session.                        *)
(***************************************************************************)
\* Caller k goes on at `to'; a call that returns forgets its locals.
GoesWith(k, to, m) ==
  /\ pc' = [pc EXCEPT ![k] = to]
  /\ goal' = [goal EXCEPT ![k] = IF to = "idle" THEN "none" ELSE @]
  /\ mine' = [mine EXCEPT ![k] = IF to = "idle" THEN NoSession ELSE m]

Goes(k, to) == GoesWith(k, to, mine[k])

AfterClose(k) == IF goal[k] = "connect" THEN "create" ELSE "idle"

\* Mutant: Connect() does not close the previous connection.
CallSkippingClose(k, g) ==
  /\ pc[k] = "idle"
  /\ pc' = [pc EXCEPT ![k] = IF g = "connect" THEN "create" ELSE "check"]
  /\ goal' = [goal EXCEPT ![k] = g]
  /\ UNCHANGED <<mu, cur, wg, mine, gpc, stop, lisVars>>

Call(k, g) ==
  /\ pc[k] = "idle"
  /\ pc' = [pc EXCEPT ![k] = "check"]
  /\ goal' = [goal EXCEPT ![k] = g]
  /\ UNCHANGED <<mu, cur, wg, mine, gpc, stop, lisVars>>

\* Close(): nothing to do when there is no listener.
CheckListener(k) ==
  /\ pc[k] = "check"
  /\ mu = Free
  /\ Goes(k, IF cur = NoSession THEN AfterClose(k) ELSE "inner")
  /\ UNCHANGED <<mu, cur, wg, gpc, stop, lisVars>>

\* c.wg.Wait(): the pointer is read without mu.
ReadWg(k) ==
  /\ pc[k] = "readWg"
  /\ GoesWith(k, IF wg = NoSession THEN "panic" ELSE "wait", wg)
  /\ UNCHANGED <<mu, cur, wg, gpc, stop, lisVars>>

\* Mutant: Close() does not wait for the goroutine.
WaitReturnsAtOnce(k) ==
  /\ pc[k] = "wait"
  /\ Goes(k, AfterClose(k))
  /\ UNCHANGED <<mu, cur, wg, gpc, stop, lisVars>>

WaitReturns(k) ==
  /\ pc[k] = "wait"
  /\ gpc[mine[k]] = "finished"
  /\ Goes(k, AfterClose(k))
  /\ UNCHANGED <<mu, cur, wg, gpc, stop, lisVars>>

\* Status(): reads the listener under mu.
CallStatus(k) ==
  /\ pc[k] = "idle"
  /\ Goes(k, "status")
  /\ UNCHANGED <<mu, cur, wg, gpc, stop, lisVars>>

StatusReturns(k) ==
  /\ pc[k] = "status"
  /\ mu = Free
  /\ Goes(k, "idle")
  /\ UNCHANGED <<mu, cur, wg, gpc, stop, lisVars>>

(***************************************************************************)
(* Connect() after its Close().                                            *)
(***************************************************************************)
\* The token is missing, or there is no randomness for a fingerprint.
ConnectRejected(k) ==
  /\ pc[k] = "create"
  /\ Goes(k, "idle")
  /\ UNCHANGED <<mu, cur, wg, gpc, stop, lisVars>>

\* newDialer rejects the address: it has a path or a query, or another scheme.
NewListenerFails(k) ==
  /\ pc[k] = "create"
  /\ Goes(k, "idle")
  /\ UNCHANGED <<mu, cur, wg, gpc, stop, lisVars>>

\* NewListener: the run() goroutine of the new session starts dialing.
CreateListener(k, s) ==
  /\ pc[k] = "create"
  /\ lis[s] = "none"
  /\ lis' = [lis EXCEPT ![s] = "connecting"]
  /\ GoesWith(k, "client", s)
  /\ UNCHANGED <<mu, cur, wg, gpc, stop, cancelled, closer, conn>>

ClientCreated(k) ==
  /\ pc[k] = "client"
  /\ Goes(k, "publish")
  /\ UNCHANGED <<mu, cur, wg, gpc, stop, lisVars>>

\* newArtifactsClient fails: Connect() returns, the listener keeps dialing, and the
\* goroutine that would serve it is never started.
ClientFails(k) ==
  /\ ClientMayFail
  /\ pc[k] = "client"
  /\ gpc' = [gpc EXCEPT ![mine[k]] = "never"]
  /\ Goes(k, "idle")
  /\ UNCHANGED <<mu, cur, wg, stop, lisVars>>

Publish(k) ==
  /\ pc[k] = "publish"
  /\ mu = Free
  /\ cur' = mine[k]
  /\ Goes(k, "spawn")
  /\ UNCHANGED <<mu, wg, gpc, stop, lisVars>>

\* Mutant: Connect() does not store the wait group.
SpawnWithoutWg(k) ==
  /\ pc[k] = "spawn"
  /\ gpc' = [gpc EXCEPT ![mine[k]] = "start"]
  /\ Goes(k, "idle")
  /\ UNCHANGED <<mu, cur, wg, stop, lisVars>>

\* c.wg = wg, without mu, and the go statement.
Spawn(k) ==
  /\ pc[k] = "spawn"
  /\ wg' = mine[k]
  /\ gpc' = [gpc EXCEPT ![mine[k]] = "start"]
  /\ Goes(k, "idle")
  /\ UNCHANGED <<mu, cur, stop, lisVars>>

-----------------------------------------------------------------------------
(***************************************************************************)
(* closeInner(), called by Close() and by the goroutine of a session.      *)
(***************************************************************************)
AtInner(a) == IF a \in Callers THEN pc[a] = "inner" ELSE gpc[a] = "ret"

\* The actor's program counter after a step of closeInner().
Goto(a, callerPc, goroutinePc) ==
  IF a \in Callers
  THEN pc' = [pc EXCEPT ![a] = callerPc] /\ UNCHANGED gpc
  ELSE gpc' = [gpc EXCEPT ![a] = goroutinePc] /\ UNCHANGED pc

\* The connection has already been closed.
InnerSkips(a) ==
  /\ AtInner(a)
  /\ mu = Free
  /\ cur = NoSession
  /\ Goto(a, "readWg", "finished")
  /\ UNCHANGED <<mu, cur, wg, goal, mine, stop, lisVars>>

\* The lock is taken and grpcServer.Stop() called: it announces quit and, if
\* Serve registered the listener, starts to close it.
InnerStops(a) ==
  /\ AtInner(a)
  /\ mu = Free
  /\ cur # NoSession
  /\ mu' = a
  /\ stop' = [stop EXCEPT ![cur] = "quit"]
  /\ IF gpc[cur] = "loop"
     THEN /\ cancelled' = [cancelled EXCEPT ![cur] = TRUE]
          /\ closer' = [closer EXCEPT ![cur] = "waiting"]
     ELSE UNCHANGED <<cancelled, closer>>
  /\ Goto(a, "stopping", "stopping")
  /\ UNCHANGED <<cur, wg, goal, mine, lis, conn>>

\* Stop(): the listener's Close() returned; the open connections are closed.
StopClosedListener ==
  /\ mu # Free
  /\ gpc[cur] \in {"loop", "drain"}
  /\ closer[cur] = "waiting"
  /\ lis[cur] = "stopped"
  /\ closer' = [closer EXCEPT ![cur] = "returned"]
  /\ conn' = [conn EXCEPT ![cur] = FALSE]
  /\ UNCHANGED <<mu, cur, wg, callerVars, gpc, stop, lis, cancelled>>

\* Mutant: closeInner() forgets to clear the listener.
InnerReturnsKeeping(a) ==
  /\ mu = a
  /\ gpc[cur] # "loop"
  /\ gpc[cur] = "drain" => closer[cur] # "waiting"
  /\ stop' = [stop EXCEPT ![cur] = "done"]
  /\ mu' = Free
  /\ Goto(a, "readWg", "finished")
  /\ UNCHANGED <<cur, wg, goal, mine, lisVars>>

\* Mutant: closeInner() does not release mu.
InnerReturnsLocked(a) ==
  /\ mu = a
  /\ gpc[cur] # "loop"
  /\ gpc[cur] = "drain" => closer[cur] # "waiting"
  /\ stop' = [stop EXCEPT ![cur] = "done"]
  /\ Goto(a, "readWg", "finished")
  /\ UNCHANGED <<mu, cur, wg, goal, mine, lisVars>>

\* Mutant: the goroutine is waited for while mu is held.
InnerReturnsAfterGoroutine(a) ==
  /\ mu = a
  /\ gpc[cur] = "finished"
  /\ stop' = [stop EXCEPT ![cur] = "done"]
  /\ mu' = Free
  /\ cur' = NoSession
  /\ Goto(a, "readWg", "finished")
  /\ UNCHANGED <<wg, goal, mine, lisVars>>

\* Stop() waited for the Serve loop to end, announces done and returns; the
\* fields are cleared and the lock is released.
InnerReturns(a) ==
  /\ mu = a
  /\ gpc[cur] # "loop"
  /\ gpc[cur] = "drain" => closer[cur] # "waiting"
  /\ stop' = [stop EXCEPT ![cur] = "done"]
  /\ mu' = Free
  /\ cur' = NoSession
  /\ Goto(a, "readWg", "finished")
  /\ UNCHANGED <<wg, goal, mine, lisVars>>

-----------------------------------------------------------------------------
(***************************************************************************)
(* The goroutine of a session: grpc.Server.Serve, then closeInner().       *)
(***************************************************************************)
\* Serve registers the listener, or closes it if the server was stopped.
ServeStarts(s) ==
  /\ gpc[s] = "start"
  /\ IF stop[s] = "no"
     THEN /\ gpc' = [gpc EXCEPT ![s] = "loop"]
          /\ UNCHANGED <<cancelled, closer>>
     ELSE /\ gpc' = [gpc EXCEPT ![s] = "late"]
          /\ cancelled' = [cancelled EXCEPT ![s] = TRUE]
          /\ closer' = [closer EXCEPT ![s] = "waiting"]
  /\ UNCHANGED <<mu, cur, wg, callerVars, stop, lis, conn>>

ServeReturnsLate(s) ==
  /\ gpc[s] = "late"
  /\ lis[s] = "stopped"
  /\ closer' = [closer EXCEPT ![s] = "returned"]
  /\ gpc' = [gpc EXCEPT ![s] = "ret"]
  /\ UNCHANGED <<mu, cur, wg, callerVars, stop, lis, cancelled, conn>>

\* Accept() fails because the listener's context is done.
ServeFails(s) ==
  /\ gpc[s] = "loop"
  /\ cancelled[s]
  /\ gpc' = [gpc EXCEPT ![s] = "drain"]
  /\ UNCHANGED <<mu, cur, wg, callerVars, stop, lisVars>>

ServeReturns(s) ==
  /\ gpc[s] = "drain"
  /\ stop[s] = "done"
  /\ gpc' = [gpc EXCEPT ![s] = "ret"]
  /\ UNCHANGED <<mu, cur, wg, callerVars, stop, lisVars>>

(***************************************************************************)
(* The listener of a session (AbstractListener).                           *)
(***************************************************************************)
ListenerMoves(s, from, to) ==
  /\ lis[s] \in from
  /\ lis' = [lis EXCEPT ![s] = to]
  /\ UNCHANGED <<mu, cur, wg, callerVars, gpc, stop, cancelled, closer>>

Offer(s) == ListenerMoves(s, {"connecting"}, "offering") /\ UNCHANGED conn

\* Accept() takes the connection and gRPC serves it.
Hand(s) ==
  /\ gpc[s] = "loop"
  /\ ListenerMoves(s, {"offering"}, "serving")
  /\ conn' = [conn EXCEPT ![s] = TRUE]

\* The connection breaks and gRPC closes it.
Drop(s) ==
  /\ ListenerMoves(s, {"serving"}, "connecting")
  /\ conn' = [conn EXCEPT ![s] = FALSE]

\* Mutant: the listener leaves without being closed.
LeaveUncancelled(s) ==
  ListenerMoves(s, {"connecting", "serving"}, "leaving") /\ UNCHANGED conn

Leave(s) ==
  /\ cancelled[s]
  /\ ListenerMoves(s, {"connecting", "serving"}, "leaving")
  /\ UNCHANGED conn

Finish(s) == ListenerMoves(s, {"leaving"}, "stopped") /\ UNCHANGED conn

-----------------------------------------------------------------------------
CloseSteps(k) == CheckListener(k) \/ ReadWg(k) \/ WaitReturns(k) \/ StatusReturns(k)

ConnectSteps(k) ==
  \/ ConnectRejected(k) \/ NewListenerFails(k) \/ (\E s \in Sessions : CreateListener(k, s))
  \/ ClientCreated(k) \/ ClientFails(k) \/ Publish(k) \/ Spawn(k)

CloseInner(a) == InnerSkips(a) \/ InnerStops(a) \/ InnerReturns(a)

Serve(s) == ServeStarts(s) \/ ServeReturnsLate(s) \/ ServeFails(s) \/ ServeReturns(s)

Next ==
  \/ \E k \in Callers :
       \/ Call(k, "close") \/ Call(k, "connect") \/ CallStatus(k)
       \/ CloseSteps(k) \/ ConnectSteps(k)
  \/ \E a \in Actors : CloseInner(a)
  \/ StopClosedListener
  \/ \E s \in Sessions :
       Serve(s) \/ Offer(s) \/ Hand(s) \/ Drop(s) \/ Leave(s) \/ Finish(s)

SafeSpec == Init /\ [][Next]_vars

(***************************************************************************)
(* Fairness: a goroutine that can run does run, mu is granted to whoever   *)
(* waits for it, and a cancelled listener leaves.  Nobody has to call, and *)
(* dialing need not succeed.                                               *)
(***************************************************************************)
Fairness ==
  /\ \A k \in Callers : SF_vars(CloseSteps(k)) /\ SF_vars(ConnectSteps(k))
  /\ \A a \in Actors : SF_vars(CloseInner(a))
  /\ WF_vars(StopClosedListener)
  /\ \A s \in Sessions : WF_vars(Serve(s)) /\ WF_vars(Leave(s)) /\ WF_vars(Finish(s))

Spec == SafeSpec /\ Fairness

\* Fairness of what the holder of mu waits for, and nothing else.
HolderSpec ==
  /\ SafeSpec
  /\ \A a \in Actors : WF_vars(InnerReturns(a))
  /\ WF_vars(StopClosedListener)
  /\ \A s \in Sessions : WF_vars(Serve(s)) /\ WF_vars(Leave(s)) /\ WF_vars(Finish(s))

-----------------------------------------------------------------------------
Live(s) == lis[s] \notin {"none", "stopped"} \/ conn[s]

\* Nothing is left of the session: no listener, no connection, no goroutine.
Gone(s) == ~Live(s) /\ gpc[s] \in {"none", "never", "finished"}

\* What a Connect() left behind whose artifacts client failed.
Orphan(s) == gpc[s] = "never"

\* The steps with which the Close() of a call, or the Close() inside Connect(),
\* is over.
CloseOver(k) ==
  /\ pc[k] \in {"check", "readWg", "wait"}
  /\ pc'[k] \in {"idle", "create"}

\* "If we were already connected, terminate that connection": no two sessions
\* dial, or hold a connection, at the same time.  A listener that a failed Connect()
\* left dialing is not counted: NothingUnowned is about those.
SingleLive ==
  \A s, t \in Sessions : Live(s) /\ Live(t) => s = t \/ Orphan(s) \/ Orphan(t)

\* "If there was a prior connection to Side-Eye, close it": what dials, or holds a
\* connection, is the session that the next Stop() or Init() will find and close, unless a
\* Connect() still builds it or it is being stopped already.
NothingUnowned ==
  \A s \in Sessions : Live(s) =>
    \/ cur = s \/ stop[s] # "no"
    \/ \E k \in Callers : mine[k] = s /\ pc[k] \in {"client", "publish"}

\* "Close closes the connection": when a Close() is over nothing is left of the sessions of
\* the Connect() calls that succeeded: none dials, no connection is open and no goroutine
\* is left, whatever other calls failed in between.
CloseEndsConnected ==
  [][\A k \in Callers : CloseOver(k) => \A s \in Sessions : Gone(s)' \/ Orphan(s)']_vars

\* "Close closes the connection.  It's a no-op if the connection was never established": it
\* panics, on a wait group that is nil, only in a race with the Connect() of another caller
\* that has published its session and not yet stored the wait group; never on a connection
\* whose Connect() has returned, whatever was closed, by whom and how often.
PanicOnlyRacing ==
  [][\A k \in Callers : pc[k] # "panic" /\ pc'[k] = "panic" =>
       \E j \in Callers \ {k} : pc[j] = "spawn"]_vars

\* A session that is published was not stopped: Stop() is called once per
\* session, whoever closes and however often.
PublishedNotStopped == cur # NoSession /\ mu = Free => stop[cur] = "no"

\* The goroutine of a session tears down its own session only ("Connect() can be
\* called again after Close()"): when it comes to its closeInner(), no later Connect()
\* has published another.
GoroutineStopsOwn == \A s \in Sessions : gpc[s] = "ret" => cur \in {s, NoSession}

\* A listener that is being closed is stuck offering a connection: whoever waits for it
\* waits for ever.
Stuck == \E s \in Sessions : lis[s] = "offering" /\ cancelled[s]

\* mu, held while Stop() waits for other goroutines, is released again.
LockReleased == mu # Free ~> mu = Free \/ Stuck

(***************************************************************************)
(* The listener of each session keeps the promises of AbstractListener: it *)
(* is closed once and stops only when told.                                *)
(***************************************************************************)
Lis(s) == INSTANCE AbstractListener
  WITH Closers <- {s},
       phase <- IF lis[s] = "none" THEN "connecting" ELSE lis[s],
       cancelled <- cancelled[s],
       closer <- [k \in {s} |-> closer[s]]

\* Each session drives its listener as AbstractListener allows.
ListenersAbstract ==
  /\ \A s \in Sessions : Lis(s)!Init
  /\ [][\A s \in Sessions : Lis(s)!Next \/ UNCHANGED Lis(s)!vars]_vars
=============================================================================

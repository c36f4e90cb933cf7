---------------------------- MODULE CallerProofs ----------------------------
(***************************************************************************)
(* Proofs about SideEyeConn, for every number of callers and of sessions   *)
(* and however their calls interleave, and about the two programs that     *)
(* call it: HttpPage and SelfSnapshot use the connection as SideEyeConn    *)
(* allows, and one CaptureSelfSnapshot gives back what it took.            *)
(***************************************************************************)
EXTENDS HttpPage, SelfSnapshot, TLAPS

(***************************************************************************)
(* The connection.                                                         *)
(***************************************************************************)
\* Connect() is at work on a session of its own.
Building(k) == pc[k] \in {"client", "publish", "spawn"}

BuildOK ==
  /\ \A k \in Callers : Building(k) => lis[mine[k]] # "none" /\ gpc[mine[k]] = "none"
  /\ \A k \in Callers : pc[k] \in {"client", "publish"} =>
                          cur # mine[k] /\ stop[mine[k]] = "no"
  /\ \A k, j \in Callers : Building(k) /\ Building(j) /\ mine[k] = mine[j] => k = j

\* A session that no Connect() has created yet.
UnusedOK ==
  \A s \in Sessions : lis[s] = "none" => cur # s /\ gpc[s] = "none" /\ stop[s] = "no"

\* Stop() is only ever at work on the published session.
HolderOK == mu # Free => cur # NoSession

IInv == TypeOK /\ BuildOK /\ UnusedOK /\ HolderOK /\ PublishedNotStopped

LEMMA InitIInv == Init => IInv
BY SideEyeConnAssumption
DEF Init, IInv, TypeOK, Actors, BuildOK, Building, UnusedOK, HolderOK, PublishedNotStopped

\* A step of a caller outside closeInner() keeps the invariant.
LEMMA CallerKeepsIInv ==
  ASSUME IInv, NEW k \in Callers,
         \/ Call(k, "close") \/ Call(k, "connect") \/ CallStatus(k)
         \/ CloseSteps(k) \/ ConnectSteps(k)
  PROVE  IInv'
<1> USE SideEyeConnAssumption
    DEF IInv, TypeOK, Actors, BuildOK, Building, UnusedOK, HolderOK, PublishedNotStopped,
        lisVars, Goes, GoesWith
<1>1. CASE Call(k, "close") \/ Call(k, "connect")
  BY <1>1 DEF Call
<1>2. CASE CallStatus(k)
  BY <1>2 DEF CallStatus
<1>3. CASE CheckListener(k)
  BY <1>3 DEF CheckListener, AfterClose
<1>4. CASE ReadWg(k)
  BY <1>4 DEF ReadWg
<1>5. CASE WaitReturns(k)
  BY <1>5 DEF WaitReturns, AfterClose
<1>6. CASE StatusReturns(k)
  BY <1>6 DEF StatusReturns
<1>7. CASE ConnectRejected(k)
  BY <1>7 DEF ConnectRejected
<1>8. ASSUME NEW s \in Sessions, CreateListener(k, s)
      PROVE  IInv'
  BY <1>8 DEF CreateListener
<1>9. CASE ClientCreated(k)
  BY <1>9 DEF ClientCreated
<1>10. CASE ClientFails(k)
  BY <1>10 DEF ClientFails
<1>11. CASE Publish(k)
  BY <1>11 DEF Publish
<1>12. CASE Spawn(k)
  BY <1>12 DEF Spawn
<1>13. CASE NewListenerFails(k)
  BY <1>13 DEF NewListenerFails
<1> QED
  BY <1>1, <1>2, <1>3, <1>4, <1>5, <1>6, <1>7, <1>8, <1>9, <1>10, <1>11, <1>12, <1>13
  DEF CloseSteps, ConnectSteps

\* A step of closeInner() keeps the invariant, whoever calls it.
LEMMA CloseInnerKeepsIInv ==
  ASSUME IInv, NEW a \in Actors, CloseInner(a)
  PROVE  IInv'
<1> USE SideEyeConnAssumption
    DEF IInv, TypeOK, Actors, BuildOK, Building, UnusedOK, HolderOK, PublishedNotStopped,
        lisVars, AtInner, Goto
<1>1. CASE InnerSkips(a)
  BY <1>1 DEF InnerSkips
<1>2. CASE InnerStops(a)
  <2>1. /\ cancelled' \in [Sessions -> BOOLEAN]
        /\ closer' \in [Sessions -> {"idle", "waiting", "returned"}]
    BY <1>2 DEF InnerStops
  <2>2. /\ cur \in Sessions
        /\ mu' = a
        /\ stop' = [stop EXCEPT ![cur] = "quit"]
        /\ Goto(a, "stopping", "stopping")
        /\ AtInner(a)
        /\ UNCHANGED <<cur, wg, goal, mine, lis, conn>>
    BY <1>2 DEF InnerStops
  <2>3. CASE a \in Callers
    BY <2>1, <2>2, <2>3
  <2>4. CASE a \in Sessions
    BY <2>1, <2>2, <2>4
  <2> QED
    BY <2>3, <2>4
<1>3. CASE InnerReturns(a)
  BY <1>3 DEF InnerReturns
<1> QED
  BY <1>1, <1>2, <1>3 DEF CloseInner

\* So does a step of a session's goroutine or of its listener.
LEMMA SessionKeepsIInv ==
  ASSUME IInv, NEW s \in Sessions,
         Serve(s) \/ Offer(s) \/ Hand(s) \/ Drop(s) \/ Leave(s) \/ Finish(s)
  PROVE  IInv'
<1> USE SideEyeConnAssumption
    DEF IInv, TypeOK, Actors, BuildOK, Building, UnusedOK, HolderOK, PublishedNotStopped,
        lisVars, callerVars
<1>1. CASE ServeStarts(s)
  <2>1. CASE stop[s] = "no"
    BY <1>1, <2>1 DEF ServeStarts
  <2>2. CASE stop[s] # "no"
    <3>1. cancelled' \in [Sessions -> BOOLEAN]
      BY <1>1, <2>2 DEF ServeStarts
    <3>2. closer' \in [Sessions -> {"idle", "waiting", "returned"}]
      BY <1>1, <2>2 DEF ServeStarts
    <3>3. /\ gpc[s] = "start"
          /\ gpc' = [gpc EXCEPT ![s] = "late"]
          /\ UNCHANGED <<mu, cur, wg, callerVars, stop, lis, conn>>
      BY <1>1, <2>2 DEF ServeStarts
    <3> QED
      BY <3>1, <3>2, <3>3
  <2> QED
    BY <2>1, <2>2
<1>2. CASE ServeReturnsLate(s)
  BY <1>2 DEF ServeReturnsLate
<1>3. CASE ServeFails(s)
  BY <1>3 DEF ServeFails
<1>4. CASE ServeReturns(s)
  BY <1>4 DEF ServeReturns
<1>5. CASE Offer(s)
  BY <1>5 DEF Offer, ListenerMoves
<1>6. CASE Hand(s)
  BY <1>6 DEF Hand, ListenerMoves
<1>7. CASE Drop(s)
  BY <1>7 DEF Drop, ListenerMoves
<1>8. CASE Leave(s)
  BY <1>8 DEF Leave, ListenerMoves
<1>9. CASE Finish(s)
  BY <1>9 DEF Finish, ListenerMoves
<1> QED
  BY <1>1, <1>2, <1>3, <1>4, <1>5, <1>6, <1>7, <1>8, <1>9 DEF Serve

\* Every step keeps the invariant.
LEMMA NextIInv == IInv /\ [Next]_vars => IInv'
<1> SUFFICES ASSUME IInv, [Next]_vars
             PROVE  IInv'
  OBVIOUS
<1>1. CASE StopClosedListener
  BY <1>1, SideEyeConnAssumption
  DEF StopClosedListener, callerVars, IInv, TypeOK, Actors, BuildOK, Building, UnusedOK,
      HolderOK, PublishedNotStopped
<1>2. CASE UNCHANGED vars
  BY <1>2
  DEF vars, callerVars, lisVars, IInv, TypeOK, Actors, BuildOK, Building, UnusedOK,
      HolderOK, PublishedNotStopped
<1> QED
  BY <1>1, <1>2, CallerKeepsIInv, CloseInnerKeepsIInv, SessionKeepsIInv DEF Next

LEMMA Invariance == SafeSpec => []IInv
BY InitIInv, NextIInv, PTL DEF SafeSpec

-----------------------------------------------------------------------------
\* The fields and locals of SideEyeConn have their types; mu is held across a
\* step only by an actor inside grpcServer.Stop().
THEOREM ConnTypeCorrect == SafeSpec => []TypeOK
<1>1. IInv => TypeOK
  BY DEF IInv
<1> QED
  BY <1>1, Invariance, PTL

\* Whoever finds a published session under mu is the first to stop it.
THEOREM StoppedOnce == SafeSpec => []PublishedNotStopped
<1>1. IInv => PublishedNotStopped
  BY DEF IInv
<1> QED
  BY <1>1, Invariance, PTL

-----------------------------------------------------------------------------
\* Until the first wait group is stored, whoever has seen a session, and will wait for it,
\* overlaps with the Connect() that is about to store it.
Closing(k) == pc[k] \in {"inner", "stopping", "readWg"}

RaceOK ==
  wg = NoSession /\ (cur # NoSession \/ \E k \in Callers : Closing(k)) =>
    \E j \in Callers : pc[j] = "spawn"

LEMMA InitRace == Init => RaceOK
BY DEF Init, RaceOK, Closing

LEMMA NextRace == IInv /\ RaceOK /\ [Next]_vars => RaceOK'
<1> SUFFICES ASSUME IInv, RaceOK, [Next]_vars PROVE RaceOK'
  OBVIOUS
<1> USE SideEyeConnAssumption
    DEF IInv, TypeOK, Actors, HolderOK, RaceOK, Closing, lisVars, callerVars
<1>1. CASE UNCHANGED vars
  BY <1>1 DEF vars
<1>2. ASSUME NEW k \in Callers,
             \/ Call(k, "close") \/ Call(k, "connect") \/ CallStatus(k) \/ CloseSteps(k)
      PROVE  RaceOK'
  BY <1>2 DEF Call, CallStatus, CloseSteps, CheckListener, ReadWg, WaitReturns, StatusReturns,
              AfterClose, Goes, GoesWith
<1>3. ASSUME NEW k \in Callers, ConnectSteps(k)
      PROVE  RaceOK'
  BY <1>3 DEF ConnectSteps, ConnectRejected, NewListenerFails, CreateListener, ClientCreated,
              ClientFails, Publish, Spawn, Goes, GoesWith
<1>4. ASSUME NEW a \in Actors, CloseInner(a)
      PROVE  RaceOK'
  BY <1>4 DEF CloseInner, InnerSkips, InnerStops, InnerReturns, AtInner, Goto
<1>5. CASE StopClosedListener
  BY <1>5 DEF StopClosedListener
<1>6. ASSUME NEW s \in Sessions,
             Serve(s) \/ Offer(s) \/ Hand(s) \/ Drop(s) \/ Leave(s) \/ Finish(s)
      PROVE  RaceOK'
  BY <1>6 DEF Serve, ServeStarts, ServeReturnsLate, ServeFails, ServeReturns,
              Offer, Hand, Drop, Leave, Finish, ListenerMoves
<1> QED
  BY <1>1, <1>2, <1>3, <1>4, <1>5, <1>6 DEF Next

\* Only the read of c.wg can make a caller panic.
LEMMA PanicReads ==
  ASSUME IInv, [Next]_vars, NEW k \in Callers, pc[k] # "panic", pc'[k] = "panic"
  PROVE  ReadWg(k) /\ wg = NoSession
<1> USE SideEyeConnAssumption DEF IInv, TypeOK, Actors, lisVars, callerVars
<1>1. ASSUME NEW j \in Callers,
             \/ Call(j, "close") \/ Call(j, "connect") \/ CallStatus(j) \/ CheckListener(j)
             \/ WaitReturns(j) \/ StatusReturns(j) \/ ConnectSteps(j)
      PROVE  pc'[k] # "panic"
  BY <1>1 DEF Call, CallStatus, CheckListener, WaitReturns, StatusReturns, AfterClose,
              ConnectSteps, ConnectRejected, NewListenerFails, CreateListener, ClientCreated,
              ClientFails, Publish, Spawn, Goes, GoesWith
<1>2. ASSUME NEW a \in Actors, CloseInner(a)
      PROVE  pc'[k] # "panic"
  BY <1>2 DEF CloseInner, InnerSkips, InnerStops, InnerReturns, AtInner, Goto
<1>3. ASSUME \/ UNCHANGED vars \/ StopClosedListener
             \/ \E s \in Sessions :
                  Serve(s) \/ Offer(s) \/ Hand(s) \/ Drop(s) \/ Leave(s) \/ Finish(s)
      PROVE  pc' = pc
  BY <1>3 DEF vars, StopClosedListener, Serve, ServeStarts, ServeReturnsLate, ServeFails,
              ServeReturns, Offer, Hand, Drop, Leave, Finish, ListenerMoves
<1>4. PICK j \in Callers : ReadWg(j)
  BY <1>1, <1>2, <1>3 DEF Next, CloseSteps
<1> QED
  BY <1>4 DEF ReadWg, GoesWith

\* c.wg.Wait() (side_eye_conn.go:205), for any callers: it meets a nil wait group only while
\* another caller is between the two critical sections that publish a session and store its
\* wait group (side_eye_conn.go:172-175).
THEOREM PanicRaces == SafeSpec => PanicOnlyRacing
<1>1. IInv /\ RaceOK /\ [Next]_vars => (IInv /\ RaceOK)'
  BY NextIInv, NextRace
<1>2. IInv /\ RaceOK /\ [Next]_vars =>
        [\A k \in Callers : pc[k] # "panic" /\ pc'[k] = "panic" =>
           \E j \in Callers \ {k} : pc[j] = "spawn"]_vars
  <2> SUFFICES ASSUME IInv, RaceOK, [Next]_vars, NEW k \in Callers,
                      pc[k] # "panic", pc'[k] = "panic"
               PROVE  \E j \in Callers \ {k} : pc[j] = "spawn"
    OBVIOUS
  <2>1. pc[k] = "readWg" /\ wg = NoSession
    BY PanicReads DEF ReadWg
  <2>2. PICK j \in Callers : pc[j] = "spawn"
    BY <2>1 DEF RaceOK, Closing
  <2>3. j # k
    BY <2>1, <2>2
  <2> QED
    BY <2>2, <2>3
<1> QED
  BY <1>1, <1>2, InitIInv, InitRace, PTL DEF SafeSpec, PanicOnlyRacing

-----------------------------------------------------------------------------
(***************************************************************************)
(* One caller.  The package documentation has one goroutine call Init and  *)
(* Stop.  Then Close() ends all that a successful Connect() started, and   *)
(* no session meets another.  (The run SideEyeConn_unowned shows that the *)
(* assumption is needed.)                                                  *)
(***************************************************************************)
OneCaller == \A k, j \in Callers : k = j

\* The goroutine of a session is not there, or no longer, or never will be.
Ended(s) == gpc[s] \in {"none", "never", "finished"}
AllEnded == \A s \in Sessions : Ended(s)

\* What is published, and what c.wg points to, at each step of the caller.
PlaceOK ==
  \A k \in Callers :
    /\ pc[k] \in {"create", "client", "publish"} => cur = NoSession /\ AllEnded
    /\ pc[k] = "spawn" => cur = mine[k] /\ AllEnded
    /\ pc[k] \in {"idle", "check", "status"} /\ cur = NoSession => AllEnded
    /\ pc[k] \in {"inner", "stopping"} => cur # NoSession
    /\ pc[k] \in {"readWg", "wait"} => cur = NoSession /\ wg # NoSession
    /\ pc[k] = "wait" => mine[k] = wg
    /\ pc[k] = "stopping" => mu = k
    /\ pc[k] # "panic"

\* A session that is published, or whose goroutine still runs, is the one c.wg points to.
WgOK ==
  /\ \A s \in Sessions : ~Ended(s) => wg = s
  /\ cur # NoSession =>
       \/ wg = cur /\ ~Ended(cur)
       \/ \E k \in Callers : pc[k] = "spawn"

\* A listener without a goroutine belongs to the Connect() in progress.
OwnedOK ==
  \A s \in Sessions : lis[s] # "none" /\ gpc[s] = "none" =>
    \E k \in Callers : Building(k) /\ mine[k] = s

\* How far a session is torn down at each step of its goroutine: only the caller stops its
\* server, and the goroutine is over only after the listener and the connection are.
TornOK ==
  \A s \in Sessions :
    /\ stop[s] = "no" => closer[s] = "idle" /\ gpc[s] \in {"none", "never", "start", "loop"}
    /\ stop[s] = "quit" => mu \in Callers /\ cur = s
    /\ gpc[s] \in {"none", "never"} => stop[s] = "no"
    /\ gpc[s] = "start" => closer[s] = "idle"
    /\ gpc[s] = "loop" => stop[s] # "done" /\ (stop[s] = "quit" => closer[s] # "idle")
    /\ gpc[s] = "late" => closer[s] = "waiting"
    /\ gpc[s] = "drain" => closer[s] # "idle" /\ (stop[s] = "done" => closer[s] = "returned")
    /\ gpc[s] \in {"ret", "finished"} => closer[s] = "returned"
    /\ gpc[s] = "finished" => stop[s] = "done"
    /\ gpc[s] # "stopping"

\* The sockets of a session.
QuietOK ==
  \A s \in Sessions :
    /\ cancelled[s] => closer[s] # "idle"
    /\ closer[s] = "returned" => lis[s] = "stopped" /\ ~conn[s]
    /\ conn[s] => gpc[s] \in {"loop", "drain"}

SeqInv == PlaceOK /\ WgOK /\ OwnedOK /\ TornOK /\ QuietOK

LEMMA InitSeq == Init => SeqInv
BY SideEyeConnAssumption
DEF Init, SeqInv, PlaceOK, WgOK, OwnedOK, TornOK, QuietOK, AllEnded, Ended, Building

\* A step of the caller outside closeInner().
LEMMA CallerKeepsSeq ==
  ASSUME OneCaller, IInv, SeqInv, NEW k \in Callers,
         \/ Call(k, "close") \/ Call(k, "connect") \/ CallStatus(k)
         \/ CloseSteps(k) \/ ConnectSteps(k)
  PROVE  SeqInv'
<1> USE SideEyeConnAssumption
    DEF OneCaller, SeqInv, PlaceOK, WgOK, OwnedOK, TornOK, QuietOK, AllEnded, Ended, Building,
        IInv, TypeOK, Actors, BuildOK, UnusedOK, HolderOK, PublishedNotStopped,
        lisVars, Goes, GoesWith
<1>1. CASE Call(k, "close") \/ Call(k, "connect")
  BY <1>1 DEF Call
<1>2. CASE CallStatus(k)
  BY <1>2 DEF CallStatus
<1>3. CASE CheckListener(k)
  BY <1>3 DEF CheckListener, AfterClose
<1>4. CASE ReadWg(k)
  BY <1>4 DEF ReadWg
<1>5. CASE WaitReturns(k)
  BY <1>5 DEF WaitReturns, AfterClose
<1>6. CASE StatusReturns(k)
  BY <1>6 DEF StatusReturns
<1>7. CASE ConnectRejected(k)
  BY <1>7 DEF ConnectRejected
<1>8. CASE NewListenerFails(k)
  BY <1>8 DEF NewListenerFails
<1>9. ASSUME NEW s \in Sessions, CreateListener(k, s)
      PROVE  SeqInv'
  BY <1>9 DEF CreateListener
<1>10. CASE ClientCreated(k)
  BY <1>10 DEF ClientCreated
<1>11. CASE ClientFails(k)
  BY <1>11 DEF ClientFails
<1>12. CASE Publish(k)
  BY <1>12 DEF Publish
<1>13. CASE Spawn(k)
  BY <1>13 DEF Spawn
<1> QED
  BY <1>1, <1>2, <1>3, <1>4, <1>5, <1>6, <1>7, <1>8, <1>9, <1>10, <1>11, <1>12, <1>13
  DEF CloseSteps, ConnectSteps

\* A step of closeInner(): with one caller, the goroutine of a session finds nothing to close.
LEMMA CloseInnerKeepsSeq ==
  ASSUME OneCaller, IInv, SeqInv, NEW a \in Actors, CloseInner(a)
  PROVE  SeqInv'
<1> USE SideEyeConnAssumption
    DEF OneCaller, SeqInv, PlaceOK, WgOK, OwnedOK, TornOK, QuietOK, AllEnded, Ended, Building,
        IInv, TypeOK, Actors, BuildOK, UnusedOK, HolderOK, PublishedNotStopped,
        lisVars, AtInner, Goto
<1>1. CASE InnerSkips(a)
  BY <1>1 DEF InnerSkips
<1>2. CASE InnerStops(a)
  <2>1. a \in Callers
    BY <1>2 DEF InnerStops
  <2>2. /\ pc[a] = "inner" /\ mu = Free /\ cur \in Sessions
        /\ mu' = a
        /\ stop' = [stop EXCEPT ![cur] = "quit"]
        /\ pc' = [pc EXCEPT ![a] = "stopping"]
        /\ UNCHANGED <<cur, wg, goal, mine, gpc, lis, conn>>
    BY <1>2, <2>1 DEF InnerStops
  <2>3. stop[cur] = "no" /\ gpc[cur] \in {"start", "loop"}
    BY <2>1, <2>2
  <2>4. CASE gpc[cur] = "loop"
    BY <1>2, <2>1, <2>2, <2>3, <2>4 DEF InnerStops
  <2>5. CASE gpc[cur] = "start"
    BY <1>2, <2>1, <2>2, <2>3, <2>5 DEF InnerStops
  <2> QED
    BY <2>3, <2>4, <2>5
<1>3. CASE InnerReturns(a)
  BY <1>3 DEF InnerReturns
<1> QED
  BY <1>1, <1>2, <1>3 DEF CloseInner

\* A step of a session's goroutine or of its listener.
LEMMA SessionKeepsSeq ==
  ASSUME OneCaller, IInv, SeqInv, NEW s \in Sessions,
         Serve(s) \/ Offer(s) \/ Hand(s) \/ Drop(s) \/ Leave(s) \/ Finish(s)
  PROVE  SeqInv'
<1> USE SideEyeConnAssumption
    DEF OneCaller, SeqInv, PlaceOK, WgOK, OwnedOK, TornOK, QuietOK, AllEnded, Ended, Building,
        IInv, TypeOK, Actors, BuildOK, UnusedOK, HolderOK, PublishedNotStopped,
        lisVars, callerVars
<1>1. CASE ServeStarts(s)
  BY <1>1 DEF ServeStarts
<1>2. CASE ServeReturnsLate(s)
  BY <1>2 DEF ServeReturnsLate
<1>3. CASE ServeFails(s)
  BY <1>3 DEF ServeFails
<1>4. CASE ServeReturns(s)
  BY <1>4 DEF ServeReturns
<1>5. CASE Offer(s)
  BY <1>5 DEF Offer, ListenerMoves
<1>6. CASE Hand(s)
  BY <1>6 DEF Hand, ListenerMoves
<1>7. CASE Drop(s)
  BY <1>7 DEF Drop, ListenerMoves
<1>8. CASE Leave(s)
  BY <1>8 DEF Leave, ListenerMoves
<1>9. CASE Finish(s)
  BY <1>9 DEF Finish, ListenerMoves
<1> QED
  BY <1>1, <1>2, <1>3, <1>4, <1>5, <1>6, <1>7, <1>8, <1>9 DEF Serve

LEMMA StopKeepsSeq ==
  ASSUME IInv, SeqInv, StopClosedListener
  PROVE  SeqInv'
BY SideEyeConnAssumption
DEF SeqInv, PlaceOK, WgOK, OwnedOK, TornOK, QuietOK, AllEnded, Ended, Building,
    IInv, TypeOK, Actors, HolderOK, StopClosedListener, callerVars

LEMMA NextSeq ==
  ASSUME OneCaller, IInv, SeqInv, [Next]_vars
  PROVE  SeqInv'
<1>1. CASE UNCHANGED vars
  BY <1>1
  DEF SeqInv, PlaceOK, WgOK, OwnedOK, TornOK, QuietOK, AllEnded, Ended, Building,
      vars, callerVars, lisVars
<1> QED
  BY <1>1, StopKeepsSeq, CallerKeepsSeq, CloseInnerKeepsSeq, SessionKeepsSeq DEF Next

LEMMA SeqInvariance ==
  ASSUME OneCaller
  PROVE  SafeSpec => [](IInv /\ SeqInv)
<1>1. (IInv /\ SeqInv) /\ [Next]_vars => (IInv /\ SeqInv)'
  BY NextIInv, NextSeq
<1> QED
  BY <1>1, InitIInv, InitSeq, PTL DEF SafeSpec

-----------------------------------------------------------------------------
\* Connect() (side_eye_conn.go:115-189), called by one goroutine: a session dials or holds a
\* connection only after the previous one has ended, but for the listeners of Connects that
\* failed.
THEOREM OneLives ==
  ASSUME OneCaller
  PROVE  SafeSpec => []SingleLive
<1>1. IInv /\ SeqInv => SingleLive
  BY DEF IInv, SeqInv, OneCaller, SingleLive, Live, Orphan, WgOK, OwnedOK, TornOK, QuietOK, PlaceOK,
         AllEnded, Ended, Building, TypeOK
<1> QED
  BY <1>1, SeqInvariance, PTL

\* The goroutine of a session (side_eye_conn.go:175-186), with one caller, never comes to its
\* closeInner() late enough to find another session.
THEOREM OwnStopped ==
  ASSUME OneCaller
  PROVE  SafeSpec => []GoroutineStopsOwn
<1>1. IInv /\ SeqInv => GoroutineStopsOwn
  BY DEF IInv, SeqInv, GoroutineStopsOwn, WgOK, PlaceOK, AllEnded, Ended, TypeOK
<1> QED
  BY <1>1, SeqInvariance, PTL

\* With the step that ends a Close(), whatever it is, nothing is published any more.
LEMMA CloseOverClears ==
  ASSUME OneCaller, IInv, SeqInv, NEW k \in Callers, CloseOver(k), Next
  PROVE  cur' = NoSession
<1> USE SideEyeConnAssumption DEF OneCaller, CloseOver, IInv, TypeOK, SeqInv, PlaceOK
<1>1. ASSUME NEW j \in Callers,
             \/ Call(j, "close") \/ Call(j, "connect") \/ CallStatus(j)
             \/ CloseSteps(j) \/ ConnectSteps(j)
      PROVE  cur' = NoSession
  BY <1>1
  DEF Call, CallStatus, CloseSteps, ConnectSteps, CheckListener, ReadWg, WaitReturns,
      StatusReturns, ConnectRejected, NewListenerFails, CreateListener, ClientCreated,
      ClientFails, Publish, Spawn, Goes, GoesWith
<1>2. ASSUME NEW a \in Actors, CloseInner(a)
      PROVE  cur' = NoSession
  BY <1>2 DEF CloseInner, InnerSkips, InnerStops, InnerReturns, AtInner, Goto, Actors
<1>3. ASSUME \/ StopClosedListener
             \/ \E s \in Sessions :
                  Serve(s) \/ Offer(s) \/ Hand(s) \/ Drop(s) \/ Leave(s) \/ Finish(s)
      PROVE  pc' = pc
  BY <1>3
  DEF StopClosedListener, Serve, ServeStarts, ServeReturnsLate, ServeFails, ServeReturns,
      Offer, Hand, Drop, Leave, Finish, ListenerMoves, callerVars
<1> QED
  BY <1>1, <1>2, <1>3 DEF Next

LEMMA CloseOverEndsAll ==
  ASSUME OneCaller, IInv, SeqInv, NEW k \in Callers, CloseOver(k), [Next]_vars
  PROVE  \A s \in Sessions : Gone(s)' \/ Orphan(s)'
<1>1. IInv' /\ SeqInv'
  BY NextIInv, NextSeq
<1>2. pc'[k] \in {"idle", "create"} /\ cur' = NoSession
  BY CloseOverClears DEF CloseOver, vars, callerVars
<1>3. \A s \in Sessions : gpc'[s] \in {"none", "never", "finished"}
  BY <1>1, <1>2 DEF SeqInv, PlaceOK, AllEnded, Ended
<1>4. \A s \in Sessions : gpc'[s] = "none" => lis'[s] = "none"
  BY <1>1, <1>2 DEF OneCaller, SeqInv, OwnedOK, Building
<1>5. \A s \in Sessions : gpc'[s] = "finished" => lis'[s] = "stopped"
  BY <1>1 DEF SeqInv, TornOK, QuietOK
<1>6. \A s \in Sessions : ~conn'[s]
  BY <1>1, <1>3 DEF SeqInv, QuietOK
<1> QED
  BY <1>3, <1>4, <1>5, <1>6 DEF Live, Gone, Orphan

\* Close() (side_eye_conn.go:196-208), called by one goroutine: when it is over, or the Close()
\* of a Connect(), no session is left of any earlier Connect() that succeeded.
THEOREM CloseEndsAll ==
  ASSUME OneCaller
  PROVE  SafeSpec => CloseEndsConnected
<1>1. ASSUME IInv, SeqInv, [Next]_vars, NEW k \in Callers, CloseOver(k)
      PROVE  \A s \in Sessions : Gone(s)' \/ Orphan(s)'
  BY <1>1, CloseOverEndsAll
<1>2. IInv /\ SeqInv /\ [Next]_vars =>
        [\A k \in Callers : CloseOver(k) =>
           \A s \in Sessions : Gone(s)' \/ Orphan(s)']_vars
  BY <1>1
<1> QED
  BY <1>2, SeqInvariance, PTL DEF SafeSpec, CloseEndsConnected

-----------------------------------------------------------------------------
\* What a step may do to the listener of session s.
ListenerStep(s) ==
  \/ UNCHANGED <<lis[s], cancelled[s], closer[s]>>
  \/ lis[s] = "none" /\ lis'[s] = "connecting" /\ UNCHANGED <<cancelled[s], closer[s]>>
  \/ /\ \/ lis[s] = "connecting" /\ lis'[s] = "offering"
        \/ lis[s] = "offering" /\ lis'[s] = "serving"
        \/ lis[s] = "serving" /\ lis'[s] = "connecting"
        \/ cancelled[s] /\ lis[s] \in {"connecting", "serving"} /\ lis'[s] = "leaving"
        \/ lis[s] = "leaving" /\ lis'[s] = "stopped"
     /\ UNCHANGED <<cancelled[s], closer[s]>>
  \/ /\ closer[s] = "idle" /\ closer'[s] = "waiting"
     /\ cancelled'[s] = TRUE /\ UNCHANGED lis[s]
  \/ /\ closer[s] = "waiting" /\ closer'[s] = "returned" /\ lis[s] = "stopped"
     /\ UNCHANGED <<lis[s], cancelled[s]>>

\* Each of these is a step of AbstractListener, or none.
LEMMA ListenerStepAbstract ==
  ASSUME NEW s \in Sessions, ListenerStep(s)
  PROVE  Lis(s)!Next \/ UNCHANGED Lis(s)!vars
BY DEF ListenerStep, Lis!Next, Lis!vars, Lis!Offer, Lis!Hand, Lis!Drop, Lis!Leave, Lis!Finish,
       Lis!Move, Lis!Close, Lis!CloseReturns

\* No step does anything else.
LEMMA NextListenerStep ==
  ASSUME OneCaller, IInv, SeqInv, [Next]_vars, NEW s \in Sessions
  PROVE  ListenerStep(s)
<1> USE DEF ListenerStep, IInv, TypeOK, SeqInv, TornOK, lisVars
<1>1. CASE UNCHANGED vars
  BY <1>1 DEF vars
<1>2. ASSUME NEW k \in Callers,
             \/ Call(k, "close") \/ Call(k, "connect") \/ CallStatus(k) \/ CloseSteps(k)
      PROVE  ListenerStep(s)
  BY <1>2 DEF Call, CallStatus, CloseSteps, CheckListener, ReadWg, WaitReturns, StatusReturns
<1>3. ASSUME NEW k \in Callers, ConnectSteps(k)
      PROVE  ListenerStep(s)
  BY <1>3 DEF ConnectSteps, ConnectRejected, NewListenerFails, CreateListener, ClientCreated,
              ClientFails, Publish, Spawn
<1>4. ASSUME NEW a \in Actors, CloseInner(a)
      PROVE  ListenerStep(s)
  <2>1. CASE InnerStops(a)
    <3>1. cur \in Sessions /\ lis' = lis /\ stop[cur] = "no"
      BY <2>1 DEF InnerStops, PublishedNotStopped
    <3>2. CASE gpc[cur] = "loop"
      BY <2>1, <3>1, <3>2 DEF InnerStops
    <3>3. CASE gpc[cur] # "loop"
      BY <2>1, <3>1, <3>3 DEF InnerStops
    <3> QED
      BY <3>2, <3>3
  <2>2. CASE InnerSkips(a) \/ InnerReturns(a)
    BY <2>2 DEF InnerSkips, InnerReturns
  <2> QED
    BY <1>4, <2>1, <2>2 DEF CloseInner
<1>5. CASE StopClosedListener
  BY <1>5 DEF StopClosedListener, HolderOK
<1>6. ASSUME NEW t \in Sessions, Serve(t)
      PROVE  ListenerStep(s)
  BY <1>6 DEF Serve, ServeStarts, ServeReturnsLate, ServeFails, ServeReturns
<1>7. ASSUME NEW t \in Sessions, Offer(t) \/ Hand(t) \/ Drop(t) \/ Leave(t) \/ Finish(t)
      PROVE  ListenerStep(s)
  BY <1>7 DEF Offer, Hand, Drop, Leave, Finish, ListenerMoves
<1> QED
  BY <1>1, <1>2, <1>3, <1>4, <1>5, <1>6, <1>7 DEF Next

\* Connect, Close and gRPC (side_eye_conn.go, called by one goroutine) drive the listener of
\* each session as AbstractListener allows, and what that promises holds of it: it is
\* closed once, and stops only when it is told to.
THEOREM DrivesListeners ==
  ASSUME OneCaller
  PROVE  SafeSpec => ListenersAbstract
<1>1. Init => \A s \in Sessions : Lis(s)!Init
  BY DEF Init, Lis!Init
<1>2. IInv /\ SeqInv /\ [Next]_vars =>
        [\A s \in Sessions : Lis(s)!Next \/ UNCHANGED Lis(s)!vars]_vars
  BY NextListenerStep, ListenerStepAbstract
<1> QED
  BY <1>1, <1>2, SeqInvariance, PTL DEF SafeSpec, ListenersAbstract

-----------------------------------------------------------------------------
(***************************************************************************)
(* The HTTP page.                                                          *)
(***************************************************************************)
\* A step of the page is one of the connection, or leaves it alone.
LEMMA PageStepConnects == [PageNext]_pageAndConnVars => [Next]_vars
<1> SUFFICES ASSUME [PageNext]_pageAndConnVars PROVE [Next]_vars
  OBVIOUS
<1>1. CASE UNCHANGED pageAndConnVars
  BY <1>1 DEF pageAndConnVars
<1>2. ASSUME NEW k \in Callers, (\E what \in Kinds : Arrive(k, what)) \/ Polled(k) \/ Render(k)
      PROVE  UNCHANGED vars
  BY <1>2 DEF Arrive, Polled, Render, Serves, ReadsStatus
<1>3. ASSUME NEW k \in Callers, StopConn(k) \/ InitConn(k)
      PROVE  Call(k, "close") \/ Call(k, "connect")
  BY <1>3 DEF StopConn, InitConn, Serves
<1>4. ASSUME NEW k \in Callers, CloseSteps(k) \/ ConnectSteps(k) \/ CloseInner(k)
      PROVE  Next
  BY <1>4 DEF Next, Actors
<1>5. ASSUME NEW s \in Sessions,
             \/ Server(s) \/ Leaves(s)
             \/ (Offer(s) \/ Hand(s) \/ Drop(s)) /\ UNCHANGED pageVars
      PROVE  Next
  BY <1>5 DEF Next, Actors, Server, Leaves
<1>6. CASE StopGoesOn
  BY <1>6 DEF StopGoesOn, Next
<1>7. ASSUME NEW k \in Callers, (\E what \in Kinds : Arrive(k, what)) \/ Request(k)
      PROVE  [Next]_vars
  <2>1. CASE StopConn(k) \/ InitConn(k)
    BY <2>1, <1>3 DEF Next
  <2> QED
    BY <1>7, <2>1, <1>2, <1>4 DEF Request
<1> QED
  BY <1>1, <1>5, <1>6, <1>7 DEF PageNext

\* The page (http_handler.go:93-177) over the connection: each of its behaviours is one of
\* SideEyeConn, however many requests there are at once.
THEOREM PageUsesConnection == PageSpec => SafeSpec
<1>1. PageInit => Init
  BY DEF PageInit
<1> QED
  BY <1>1, PageStepConnects, PTL DEF PageSpec, SafeSpec

\* closeInner() (side_eye_conn.go:212-222) under concurrent POSTs: a session found under mu was
\* not stopped before.
THEOREM PageStopsOnce == PageSpec => []PublishedNotStopped
BY PageUsesConnection, StoppedOnce, PTL

\* c.wg.Wait() (side_eye_conn.go:205) under concurrent POSTs: only a POST that overlaps with
\* another one's Connect() panics.
THEOREM PagePanicRaces == PageSpec => PanicOnlyRacing
BY PageUsesConnection, PanicRaces, PTL

-----------------------------------------------------------------------------
(***************************************************************************)
(* CaptureSelfSnapshot.                                                    *)
(***************************************************************************)
\* A step of the program is one of the connection, or leaves it alone.
LEMMA SelfStepConnects == [SelfNext]_selfAndConnVars => [Next]_vars
<1> SUFFICES ASSUME [SelfNext]_selfAndConnVars PROVE [Next]_vars
  OBVIOUS
<1>1. CASE UNCHANGED selfAndConnVars
  BY <1>1 DEF selfAndConnVars
<1>2. ASSUME NEW k \in Callers, Begin(k) \/ CloseConn(k) \/ ProgramCalls(k)
      PROVE  Call(k, "close") \/ Call(k, "connect") \/ CallStatus(k)
  BY <1>2 DEF Begin, CloseConn, ProgramCalls
<1>3. ASSUME NEW k \in Callers,
             \/ ConnectFailed(k) \/ NewAPIClient(k) \/ NewAPIClientFails(k) \/ Asked(k)
             \/ CloseAPIClient(k) \/ Return(k) \/ ClientCalls(k)
      PROVE  UNCHANGED vars
  BY <1>3
  DEF ConnectFailed, NewAPIClient, NewAPIClientFails, Asked, CloseAPIClient, Return, ClientCalls,
      NewSideEyeClient, CaptureSnapshot, DeleteRecording, CloseSideEyeClient, OnClient
<1>4. CASE ConnSteps
  BY <1>4 DEF ConnSteps, Next
<1> QED
  BY <1>1, <1>2, <1>3, <1>4 DEF SelfNext, SelfSteps, Next

\* CaptureSelfSnapshot (side_eye.go:138-168) uses the connection as SideEyeConn allows.
THEOREM SelfUsesConnection == SelfSpec => SafeSpec
<1>1. SelfInit => Init
  BY DEF SelfInit
<1> QED
  BY <1>1, SelfStepConnects, PTL DEF SelfSpec, SafeSpec

-----------------------------------------------------------------------------
\* Where a CaptureSelfSnapshot stands when it has a client, and when it is about to return.
SelfOK ==
  /\ self \in [Callers -> {"none", "connect", "ask", "release", "close", "closing"}]
  /\ api \in [Callers -> BOOLEAN]
  /\ \A k \in Callers :
       /\ api[k] => self[k] \in {"ask", "release"}
       /\ self[k] \in {"ask", "release", "close"} => pc[k] = "idle"
       /\ self[k] = "closing" =>
            \/ pc[k] = "idle" /\ cur = NoSession
            \/ goal[k] = "close" /\ pc[k] \in {"check", "inner", "stopping", "readWg", "wait"}

LEMMA SelfInitOK == SelfInit => SelfOK
BY DEF SelfInit, SelfOK

\* A step of the connection under a CaptureSelfSnapshot.
LEMMA ConnKeepsSelfOK ==
  ASSUME OneCaller, IInv, SeqInv, SelfOK, ConnSteps, UNCHANGED selfVars
  PROVE  SelfOK'
<1> USE SideEyeConnAssumption
    DEF OneCaller, IInv, TypeOK, SeqInv, PlaceOK, SelfOK, selfVars, lisVars, callerVars
<1>1. ASSUME NEW k \in Callers, CloseSteps(k)
      PROVE  SelfOK'
  BY <1>1 DEF CloseSteps, CheckListener, ReadWg, WaitReturns, StatusReturns, Goes, GoesWith,
              AfterClose
<1>2. ASSUME NEW k \in Callers, ConnectSteps(k)
      PROVE  SelfOK'
  BY <1>2 DEF ConnectSteps, ConnectRejected, NewListenerFails, CreateListener, ClientCreated,
              ClientFails, Publish, Spawn, Goes, GoesWith
<1>3. ASSUME NEW a \in Actors, CloseInner(a)
      PROVE  SelfOK'
  BY <1>3 DEF CloseInner, InnerSkips, InnerStops, InnerReturns, AtInner, Goto, Actors
<1>4. CASE StopClosedListener
  BY <1>4 DEF StopClosedListener
<1>5. ASSUME NEW s \in Sessions,
             Serve(s) \/ Offer(s) \/ Hand(s) \/ Drop(s) \/ Leave(s) \/ Finish(s)
      PROVE  SelfOK'
  BY <1>5 DEF Serve, ServeStarts, ServeReturnsLate, ServeFails, ServeReturns,
              Offer, Hand, Drop, Leave, Finish, ListenerMoves
<1> QED
  BY <1>1, <1>2, <1>3, <1>4, <1>5 DEF ConnSteps

\* A step of CaptureSelfSnapshot itself, or of the program.
LEMMA SelfKeepsSelfOK ==
  ASSUME OneCaller, IInv, SelfOK, NEW k \in Callers,
         Begin(k) \/ SelfSteps(k) \/ ProgramCalls(k) \/ ClientCalls(k)
  PROVE  SelfOK'
<1> USE DEF OneCaller, IInv, TypeOK, SelfOK, SelfStep, vars, callerVars
<1>1. CASE Begin(k)
  BY <1>1 DEF Begin, Call
<1>2. CASE ConnectFailed(k)
  <2>1. SelfStep(k, "connect", "none") /\ UNCHANGED <<vars, api>> /\ cur = NoSession
    BY <1>2 DEF ConnectFailed
  <2>2. api' = api /\ ~api[k] /\ pc' = pc /\ goal' = goal /\ cur' = cur
    BY <2>1
  <2>3. \A j \in Callers : api[j] => self'[j] \in {"ask", "release"}
    BY <2>1, <2>2
  <2> QED
    BY <2>1, <2>2, <2>3
<1>3. CASE NewAPIClient(k)
  <2>1. api' = [api EXCEPT ![k] = TRUE] /\ SelfStep(k, "connect", "ask") /\ UNCHANGED vars
    BY <1>3 DEF NewAPIClient
  <2>2. api' \in [Callers -> BOOLEAN]
    BY <2>1
  <2> QED
    BY <2>1, <2>2
<1>4. CASE NewAPIClientFails(k)
  <2>1. SelfStep(k, "connect", "close") /\ UNCHANGED <<vars, api>> /\ cur # NoSession
    BY <1>4 DEF NewAPIClientFails
  <2>2. api' = api /\ ~api[k] /\ pc' = pc /\ goal' = goal /\ cur' = cur
    BY <2>1
  <2>3. \A j \in Callers : api[j] => self'[j] \in {"ask", "release"}
    BY <2>1, <2>2
  <2> QED
    BY <2>1, <2>2, <2>3
<1>5. CASE Asked(k)
  BY <1>5 DEF Asked
<1>6. CASE CloseAPIClient(k)
  <2>1. api' = [api EXCEPT ![k] = FALSE] /\ SelfStep(k, "release", "close") /\ UNCHANGED vars
    BY <1>6 DEF CloseAPIClient
  <2>2. api' \in [Callers -> BOOLEAN]
    BY <2>1
  <2> QED
    BY <2>1, <2>2
<1>7. CASE CloseConn(k)
  BY <1>7 DEF CloseConn, Call
<1>8. CASE Return(k)
  BY <1>8 DEF Return
<1>9. CASE ProgramCalls(k)
  BY <1>9 DEF ProgramCalls, Call, CallStatus, Goes, GoesWith
<1>10. CASE ClientCalls(k)
  BY <1>10 DEF ClientCalls, NewSideEyeClient, CaptureSnapshot, DeleteRecording,
               CloseSideEyeClient, OnClient
<1> QED
  BY <1>1, <1>2, <1>3, <1>4, <1>5, <1>6, <1>7, <1>8, <1>9, <1>10 DEF SelfSteps

LEMMA SelfNextOK ==
  ASSUME OneCaller, IInv, SeqInv, SelfOK, [SelfNext]_selfAndConnVars
  PROVE  SelfOK'
<1>1. CASE UNCHANGED selfAndConnVars
  BY <1>1 DEF selfAndConnVars, selfVars, vars, callerVars, SelfOK
<1> QED
  BY <1>1, ConnKeepsSelfOK, SelfKeepsSelfOK DEF SelfNext

\* The step with which CaptureSelfSnapshot returns finds nothing published.
LEMMA ReturnsClosed ==
  ASSUME SelfOK, [SelfNext]_selfAndConnVars, NEW k \in Callers,
         self[k] # "none", self'[k] = "none"
  PROVE  pc[k] = "idle" /\ cur = NoSession /\ ~api[k] /\ api' = api /\ UNCHANGED vars
<1>1. ~UNCHANGED selfVars
  BY DEF selfVars
<1>2. PICK j \in Callers : Begin(j) \/ SelfSteps(j) \/ ProgramCalls(j) \/ ClientCalls(j)
  BY <1>1 DEF SelfNext, selfAndConnVars, selfVars
<1>3. ConnectFailed(j) \/ Return(j)
  BY <1>2
  DEF SelfOK, Begin, SelfSteps, NewAPIClient, NewAPIClientFails, Asked, CloseAPIClient,
      CloseConn, SelfStep, ProgramCalls, ClientCalls, NewSideEyeClient, CaptureSnapshot,
      DeleteRecording, CloseSideEyeClient, OnClient
<1>4. j = k
  BY <1>3 DEF ConnectFailed, Return, SelfStep, SelfOK
<1> QED
  BY <1>3, <1>4 DEF ConnectFailed, Return, SelfStep, SelfOK

\* An idle caller with nothing published has left nothing behind.
LEMMA IdleIsClean ==
  ASSUME OneCaller, SeqInv, NEW k \in Callers, pc[k] = "idle", cur = NoSession
  PROVE  \A s \in Sessions : Gone(s) \/ (Orphan(s) /\ ~conn[s])
BY DEF OneCaller, SeqInv, PlaceOK, OwnedOK, TornOK, QuietOK, AllEnded, Ended, Building, Live,
       Gone, Orphan

\* The deferred calls of CaptureSelfSnapshot (side_eye.go:151-158), called by one goroutine:
\* whichever step failed, the API client and the connection are closed when it returns, and no
\* listener is left but that of a Connect() that failed.
THEOREM SelfReleasesAll ==
  ASSUME OneCaller
  PROVE  SelfSpec => SelfReleased
<1>1. IInv /\ SeqInv /\ SelfOK /\ [SelfNext]_selfAndConnVars => SelfOK'
  BY SelfNextOK
<1>2. IInv /\ SeqInv /\ SelfOK /\ [SelfNext]_selfAndConnVars =>
        [\A k \in Callers : self[k] # "none" /\ self'[k] = "none" =>
           /\ ~api'[k]
           /\ \A s \in Sessions : Gone(s)' \/ (Orphan(s) /\ ~conn[s])']_selfAndConnVars
  <2> SUFFICES ASSUME SeqInv, SelfOK, [SelfNext]_selfAndConnVars, NEW k \in Callers,
                      self[k] # "none", self'[k] = "none"
               PROVE  /\ ~api'[k]
                      /\ \A s \in Sessions : Gone(s)' \/ (Orphan(s) /\ ~conn[s])'
    OBVIOUS
  <2>1. pc[k] = "idle" /\ cur = NoSession /\ ~api[k] /\ api' = api /\ UNCHANGED vars
    BY ReturnsClosed
  <2>2. \A s \in Sessions : Gone(s) \/ (Orphan(s) /\ ~conn[s])
    BY <2>1, IdleIsClean
  <2> QED
    BY <2>1, <2>2 DEF vars, lisVars, Live, Gone, Orphan
<1> QED
  BY <1>1, <1>2, SelfInitOK, SelfUsesConnection, SeqInvariance, PTL DEF SelfSpec, SelfReleased

\* Init, Stop and CaptureSelfSnapshot (side_eye.go), called by one goroutine: a session dials
\* or holds a connection only after the previous one has ended, but for the listeners of
\* Connects that failed.
THEOREM SelfOneLives ==
  ASSUME OneCaller
  PROVE  SelfSpec => []SingleLive
BY SelfUsesConnection, OneLives, PTL
=============================================================================

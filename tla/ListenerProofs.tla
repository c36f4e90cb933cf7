--------------------------- MODULE ListenerProofs ---------------------------
(***************************************************************************)
(* Safety of serverdial.Listener for every number of connections, users    *)
(* and closers, from one inductive invariant.                              *)
(***************************************************************************)
EXTENDS Listener, TLAPS

Holding == runPc \in {"header", "send", "watch"}

\* conn is set exactly while run() holds a connection, and stays set once it
\* left with an accepted connection still in use.
CurOK ==
  /\ Holding => cur \in Conns
  /\ runPc \in {"start", "loop", "wait", "dialing"} => cur = NoConn
  /\ runPc \in {"header", "send"} => cur \notin accepted

\* The only socket that can be open is the one in run()'s hands.
OpenOK == \A c \in Conns : tcp[c] = "open" => c = cur

\* The stages of wrappedConn.Close are passed in order.
CloseOK ==
  /\ onClose \subseteq entered
  /\ entered \subseteq accepted
  /\ \A c \in entered : tcp[c] = "closed"
  /\ \A u \in Users : closing[u] # NoConn => closing[u] \in entered \ onClose
  /\ \A u, w \in Users : closing[u] # NoConn /\ closing[u] = closing[w] => u = w

\* run() leaves only after a cancellation, and tells before it closes done.
LeaveOK ==
  /\ runPc \in {"exit", "closing", "finished"} => ctxDone
  /\ runPc \in {"closing", "finished"} => status = "Disconnected"
  /\ done => runPc = "finished"
  /\ \A k \in Closers : closer[k] = "returned" => done

IInv == TypeOK /\ CurOK /\ OpenOK /\ CloseOK /\ LeaveOK /\ ConnectedMeansHeld

LEMMA InitIInv == Init => IInv
BY ListenerAssumption
DEF Init, IInv, TypeOK, CurOK, Holding, OpenOK, CloseOK, LeaveOK, ConnectedMeansHeld

\* Every action keeps the invariant.
LEMMA NextIInv == IInv /\ [Next]_vars => IInv'
<1> SUFFICES ASSUME IInv, [Next]_vars
             PROVE  IInv'
  OBVIOUS
<1> USE ListenerAssumption
    DEF IInv, TypeOK, CurOK, Holding, OpenOK, CloseOK, LeaveOK, ConnectedMeansHeld,
        dialVars, connVars
<1>1. CASE RunStart
  BY <1>1 DEF RunStart
<1>2. CASE WaitForInterval
  BY <1>2 DEF WaitForInterval
<1>3. CASE WaitCancelled
  BY <1>3 DEF WaitCancelled
<1>4. CASE StartDial
  BY <1>4 DEF StartDial
<1>5. CASE DialFails
  BY <1>5 DEF DialFails
<1>6. ASSUME NEW c \in Conns, DialConnects(c)
      PROVE  IInv'
  BY <1>6 DEF DialConnects
<1>7. CASE HeaderFails
  BY <1>7 DEF HeaderFails
<1>8. CASE HeaderWritten
  BY <1>8 DEF HeaderWritten
<1>9. CASE Deliver
  BY <1>9 DEF Deliver
<1>10. CASE WatchClosed
  BY <1>10 DEF WatchClosed
<1>11. CASE WatchCancelled
  BY <1>11 DEF WatchCancelled
<1>12. CASE DeferStatus
  BY <1>12 DEF DeferStatus
<1>13. CASE DeferDone
  BY <1>13 DEF DeferDone
<1>14. CASE DialIntervalPasses
  BY <1>14 DEF DialIntervalPasses
<1>15. CASE CallAccept \/ AcceptCancelled
  BY <1>15 DEF CallAccept, AcceptCancelled
<1>16. ASSUME NEW u \in Users, NEW c \in Conns, ConnClose(u, c)
       PROVE  IInv'
  BY <1>16 DEF ConnClose
<1>17. ASSUME NEW u \in Users, ConnSignal(u)
       PROVE  IInv'
  BY <1>17 DEF ConnSignal
<1>18. ASSUME NEW k \in Closers, Close(k)
       PROVE  IInv'
  BY <1>18 DEF Close
<1>19. ASSUME NEW k \in Closers, CloseReturns(k)
       PROVE  IInv'
  BY <1>19 DEF CloseReturns
<1>20. CASE UNCHANGED vars
  BY <1>20 DEF vars
<1>21. QED
  BY <1>1, <1>2, <1>3, <1>4, <1>5, <1>6, <1>7, <1>8, <1>9, <1>10, <1>11, <1>12,
     <1>13, <1>14, <1>15, <1>16, <1>17, <1>18, <1>19, <1>20
  DEF Next, Run, Dial

-----------------------------------------------------------------------------
\* The inductive invariant holds in every reachable state.
THEOREM Inductive == SafeSpec => []IInv
<1>1. QED
  BY InitIInv, NextIInv, PTL DEF SafeSpec

\* Type correctness of the listener.
THEOREM TypeCorrect == SafeSpec => []TypeOK
<1>1. IInv => TypeOK
  BY DEF IInv
<1>2. QED
  BY <1>1, Inductive, PTL

\* "there's ever at most one connection active" (server_dial.go:19), for any
\* number of connections dialed and of goroutines closing them.
THEOREM AtMostOne == SafeSpec => []AtMostOneConnection
<1>1. IInv => AtMostOneConnection
  BY DEF IInv, OpenOK, AtMostOneConnection, OpenConns
<1>2. QED
  BY <1>1, Inductive, PTL

\* wrappedConn.Close never closes its channel twice, however many goroutines
\* call it.
THEOREM CloseOnce == SafeSpec => []NoDoubleClose
<1>1. IInv => NoDoubleClose
  BY DEF IInv, CloseOK, NoDoubleClose
<1>2. QED
  BY <1>1, Inductive, PTL

\* The status claims a connection only while run() holds one.
THEOREM StatusHonest == SafeSpec => []ConnectedMeansHeld
<1>1. IInv => ConnectedMeansHeld
  BY DEF IInv
<1>2. QED
  BY <1>1, Inductive, PTL

-----------------------------------------------------------------------------
(***************************************************************************)
(* After Close() has returned.                                             *)
(***************************************************************************)
Silent ==
  /\ status = "Disconnected" /\ status' = "Disconnected"
  /\ OpenConns' \subseteq OpenConns
  /\ accepted' = accepted

\* A step of a listener whose goroutine is gone opens nothing and hands nothing out.
LEMMA FinishedIsSilent ==
  ASSUME IInv, Next, runPc = "finished"
  PROVE  Silent
<1> USE DEF IInv, TypeOK, LeaveOK, OpenConns, Silent, dialVars, connVars
<1>1. CASE Run \/ DialIntervalPasses
  BY <1>1 DEF Run, RunStart, WaitForInterval, WaitCancelled, StartDial, Dial,
     DialFails, DialConnects, HeaderFails, HeaderWritten, Deliver, WatchClosed,
     WatchCancelled, DeferStatus, DeferDone, DialIntervalPasses
<1>2. CASE CallAccept \/ AcceptCancelled
  BY <1>2 DEF CallAccept, AcceptCancelled
<1>3. ASSUME NEW u \in Users, NEW c \in Conns, ConnClose(u, c)
      PROVE  Silent
  BY <1>3 DEF ConnClose
<1>4. ASSUME NEW u \in Users, ConnSignal(u)
      PROVE  Silent
  BY <1>4 DEF ConnSignal
<1>5. ASSUME NEW k \in Closers, Close(k) \/ CloseReturns(k)
      PROVE  Silent
  BY <1>5 DEF Close, CloseReturns
<1>6. QED
  BY <1>1, <1>2, <1>3, <1>4, <1>5 DEF Next

\* Once a Close() has returned, nothing is dialed, opened or handed out, and the
\* status stays Disconnected (Close waits for done, server_dial.go:271).
THEOREM QuietForEver == SafeSpec => QuietAfterClose
<1>1. IInv /\ [Next]_vars =>
        [(\E k \in Closers : closer[k] = "returned") => Silent]_vars
  <2> SUFFICES ASSUME IInv, Next, NEW k \in Closers, closer[k] = "returned"
               PROVE  Silent
    OBVIOUS
  <2>1. runPc = "finished"
    BY DEF IInv, LeaveOK
  <2>2. QED
    BY <2>1, FinishedIsSilent
<1>2. QED
  BY <1>1, Inductive, PTL DEF SafeSpec, QuietAfterClose, Silent

-----------------------------------------------------------------------------
(***************************************************************************)
(* The listener implements AbstractListener (the safety part of it).       *)
(***************************************************************************)
LEMMA InitImplements == Init => Abs!Init
BY DEF Init, Abs!Init, absPhase

\* Each step of the listener is a step of AbstractListener or a stutter.
LEMMA StepImplements == IInv /\ [Next]_vars => [Abs!Next]_Abs!vars
<1> SUFFICES ASSUME IInv, [Next]_vars
             PROVE  Abs!Next \/ UNCHANGED Abs!vars
  OBVIOUS
<1> USE DEF IInv, TypeOK, LeaveOK, absPhase, Abs!vars, Abs!Next, Abs!Move
<1>1. CASE RunStart \/ WaitForInterval \/ StartDial \/ DialFails \/ HeaderFails
  BY <1>1 DEF RunStart, WaitForInterval, StartDial, DialFails, HeaderFails
<1>2. ASSUME NEW c \in Conns, DialConnects(c)
      PROVE  UNCHANGED Abs!vars
  BY <1>2 DEF DialConnects
<1>3. CASE HeaderWritten
  BY <1>3 DEF HeaderWritten, Abs!Offer
<1>4. CASE Deliver
  BY <1>4 DEF Deliver, Abs!Hand
<1>5. CASE WatchClosed
  BY <1>5 DEF WatchClosed, Abs!Drop
<1>6. CASE WaitCancelled \/ WatchCancelled
  BY <1>6 DEF WaitCancelled, WatchCancelled, Abs!Leave
<1>7. CASE DeferStatus
  BY <1>7 DEF DeferStatus
<1>8. CASE DeferDone
  BY <1>8 DEF DeferDone, Abs!Finish
<1>9. CASE DialIntervalPasses \/ CallAccept \/ AcceptCancelled
  BY <1>9 DEF DialIntervalPasses, CallAccept, AcceptCancelled
<1>10. ASSUME NEW u \in Users, ConnSignal(u) \/ \E c \in Conns : ConnClose(u, c)
       PROVE  UNCHANGED Abs!vars
  BY <1>10 DEF ConnSignal, ConnClose
<1>11. ASSUME NEW k \in Closers, Close(k)
       PROVE  Abs!Next
  BY <1>11 DEF Close, Abs!Close
<1>12. ASSUME NEW k \in Closers, CloseReturns(k)
       PROVE  Abs!Next
  BY <1>12 DEF CloseReturns, Abs!CloseReturns
<1>13. CASE UNCHANGED vars
  BY <1>13 DEF vars
<1>14. QED
  BY <1>1, <1>2, <1>3, <1>4, <1>5, <1>6, <1>7, <1>8, <1>9, <1>10, <1>11, <1>12,
     <1>13 DEF Next, Run, Dial

\* run(), Accept() and Close() together implement the safety part of the abstract
\* listener that the gRPC server relies on.
THEOREM Implements == SafeSpec => Abs!SafeSpec
<1>1. QED
  BY InitImplements, StepImplements, Inductive, PTL DEF SafeSpec, Abs!SafeSpec
=============================================================================

--------------------------- MODULE CaptureProofs ---------------------------
(***************************************************************************)
(* Safety of Capture for every set of concurrent RPCs.  The two facilities *)
(* they share are treated alike: who owns one is a function of where the   *)
(* goroutines of the RPCs are.                                             *)
(***************************************************************************)
EXTENDS Capture, TLAPS

Starting == {"idle", "profile", "trace", "hello"}
Returning == {"deferErr", "deferStop", "stopping", "deferCpu", "finished"}

\* The RPC has started the CPU profile and has yet to stop it.
HoldsCpu(r) ==
  \/ cpu[r] \in {"hello", "wait"}
  \/ ~explicit[r] /\ main[r] \notin {"idle", "profile", "finished"}

CpuOK(r) ==
  /\ cpuOwner = r <=> HoldsCpu(r)
  /\ explicit[r] => main[r] # "profile"
  /\ ~explicit[r] => cpu[r] \in {"none", "finished"}
  /\ main[r] = "idle" <=> cpu[r] = "none"

\* The RPC has started the trace and has yet to stop it, or never will.
HoldsTrace(r) ==
  \/ main[r] \in {"hello", "select", "timeUp", "stopping"}
  \/ main[r] \in {"deferErr", "deferStop"} /\ stopSet[r]
  \/ helloFailed[r]

TraceOK(r) ==
  /\ traceOwner = r <=> HoldsTrace(r)
  /\ traceLock = r <=> main[r] \in {"timeUp", "stopping"}
  /\ main[r] \in {"select", "timeUp", "stopping"} => stopSet[r]
  /\ main[r] \in Starting \cup {"last"} => ~stopSet[r]
  /\ helloFailed[r] => main[r] \in {"deferCpu", "finished"}

\* The pipe is closed once, at its end only when the tracer has finished, and
\* nothing was lost before.
PipeOK(r) ==
  /\ main[r] \in Starting \cup {"select", "timeUp"} => pipe[r] = "open"
  /\ pipe[r] = "eof" => tr[r] = "ended"
  /\ lost[r] => pipe[r] = "err"
  /\ rd[r] = "sendLast" => pipe[r] = "eof" /\ ~have[r]
  /\ main[r] \in Starting => rd[r] = "none"
  /\ main[r] \in Returning \ {"deferErr"} => rd[r] \in {"none", "done"}

IInv == TypeOK /\ \A r \in Rpcs : CpuOK(r) /\ TraceOK(r) /\ PipeOK(r)

LEMMA InitIInv == Init => IInv
BY CaptureAssumption
DEF Init, IInv, TypeOK, CpuOK, HoldsCpu, TraceOK, HoldsTrace, PipeOK, Starting, Returning

\* Cancelling the group's context or leaving it alone keeps its type.
LEMMA FailsKeepsType ==
  ASSUME NEW r \in Rpcs, ctx \in [Rpcs -> BOOLEAN], Fails(r) \/ UNCHANGED ctx
  PROVE  ctx' \in [Rpcs -> BOOLEAN]
BY DEF Fails, Set

\* Every action keeps the invariant.
LEMMA NextIInv == IInv /\ [Next]_vars => IInv'
<1> SUFFICES ASSUME IInv, [Next]_vars
             PROVE  IInv'
  OBVIOUS
<1> USE CaptureAssumption
    DEF IInv, TypeOK, CpuOK, HoldsCpu, TraceOK, HoldsTrace, PipeOK, Starting, Returning,
        Set, pipeVars, ownVars, flagVars
<1>1. CASE UNCHANGED vars
  BY <1>1 DEF vars
<1>2. ASSUME NEW r \in Rpcs, CallCapture(r) \/ ClientLeaves(r)
      PROVE  IInv'
  <2>1. CASE CallCapture(r)
    BY <2>1 DEF CallCapture
  <2>2. CASE ClientLeaves(r)
    BY <2>2 DEF ClientLeaves
  <2> QED
    BY <1>2, <2>1, <2>2
<1>3. ASSUME NEW r \in Rpcs, Cpu(r)
      PROVE  IInv'
  <2>1. CASE CpuStarts(r)
    <3>1. Fails(r) \/ UNCHANGED ctx
      BY <2>1 DEF CpuStarts
    <3>2. ctx' \in [Rpcs -> BOOLEAN]
      BY <3>1, FailsKeepsType
    <3> QED
      BY <2>1, <3>2 DEF CpuStarts
  <2>2. CASE CpuHelloSent(r)
    BY <2>2 DEF CpuHelloSent
  <2>3. CASE CpuAborts(r)
    BY <2>3 DEF CpuAborts, Fails
  <2>4. CASE CpuTimeUp(r)
    BY <2>4 DEF CpuTimeUp
  <2>5. CASE CpuSends(r)
    <3>1. Fails(r) \/ UNCHANGED ctx
      BY <2>5 DEF CpuSends
    <3>2. ctx' \in [Rpcs -> BOOLEAN]
      BY <3>1, FailsKeepsType
    <3>3. /\ cpu[r] = "chunks"
          /\ cpu' = [cpu EXCEPT ![r] = "finished"]
          /\ UNCHANGED <<main, rd, tr, broken, pipeVars, ownVars, flagVars>>
      BY <2>5 DEF CpuSends
    <3> QED
      BY <3>2, <3>3
  <2> QED
    BY <1>3, <2>1, <2>2, <2>3, <2>4, <2>5 DEF Cpu
<1>4. ASSUME NEW r \in Rpcs, Main(r)
      PROVE  IInv'
  <2>1. CASE ProfileStarts(r)
    <3>1. Fails(r) \/ UNCHANGED ctx
      BY <2>1 DEF ProfileStarts
    <3>2. ctx' \in [Rpcs -> BOOLEAN]
      BY <3>1, FailsKeepsType
    <3> QED
      BY <2>1, <3>2 DEF ProfileStarts
  <2>2. CASE TraceStarts(r)
    BY <2>2 DEF TraceStarts
  <2>3. CASE HelloSent(r)
    BY <2>3 DEF HelloSent
  <2>4. CASE HelloFails(r)
    BY <2>4 DEF HelloFails
  <2>5. CASE SelectCtx(r)
    BY <2>5 DEF SelectCtx
  <2>6. CASE SelectErr(r)
    BY <2>6 DEF SelectErr, Receives
  <2>7. CASE SelectTime(r)
    BY <2>7 DEF SelectTime
  <2>8. CASE TimeUpStopped(r)
    BY <2>8 DEF TimeUpStopped, StopReturns
  <2>9. CASE LastReceived(r)
    BY <2>9 DEF LastReceived, Receives
  <2>10. CASE DeferErr(r)
    BY <2>10 DEF DeferErr, Receives
  <2>11. CASE DeferStop(r)
    BY <2>11 DEF DeferStop
  <2>12. CASE DeferStopped(r)
    BY <2>12 DEF DeferStopped, StopReturns
  <2>13. CASE DeferCpu(r)
    <3>1. Fails(r) \/ UNCHANGED ctx
      BY <2>13 DEF DeferCpu
    <3>2. ctx' \in [Rpcs -> BOOLEAN]
      BY <3>1, FailsKeepsType
    <3>3. /\ main[r] = "deferCpu"
          /\ main' = [main EXCEPT ![r] = "finished"]
          /\ cpuOwner' = IF explicit[r] THEN cpuOwner ELSE NoRpc
          /\ UNCHANGED <<rd, tr, cpu, broken, pipeVars, traceOwner, traceLock, flagVars>>
      BY <2>13 DEF DeferCpu
    <3> QED
      BY <3>2, <3>3
  <2> QED
    BY <1>4, <2>1, <2>2, <2>3, <2>4, <2>5, <2>6, <2>7, <2>8, <2>9, <2>10, <2>11,
       <2>12, <2>13 DEF Main, Select
<1>5. ASSUME NEW r \in Rpcs, Tracer(r)
      PROVE  IInv'
  <2>1. CASE TracerWrites(r)
    BY <2>1 DEF TracerWrites
  <2>2. CASE TracerLoses(r)
    BY <2>2 DEF TracerLoses, AfterWrite
  <2> QED
    BY <1>5, <2>1, <2>2 DEF Tracer
<1>6. ASSUME NEW r \in Rpcs, Reader(r)
      PROVE  IInv'
  <2>1. CASE ReadData(r)
    BY <2>1 DEF ReadData, AfterWrite
  <2>2. CASE ReadEof(r)
    BY <2>2 DEF ReadEof
  <2>3. CASE ReadErr(r)
    BY <2>3 DEF ReadErr
  <2>4. CASE ReaderSends(r)
    <3>1. CASE rd[r] = "send"
      BY <2>4, <3>1 DEF ReaderSends
    <3>2. CASE rd[r] # "send"
      BY <2>4, <3>2 DEF ReaderSends
    <3> QED
      BY <3>1, <3>2
  <2>5. CASE ReaderSendFails(r)
    BY <2>5 DEF ReaderSendFails
  <2> QED
    BY <1>6, <2>1, <2>2, <2>3, <2>4, <2>5 DEF Reader
<1> QED
  BY <1>1, <1>2, <1>3, <1>4, <1>5, <1>6 DEF Next

LEMMA Invariance == SafeSpec => []IInv
BY InitIInv, NextIInv, PTL DEF SafeSpec

-----------------------------------------------------------------------------
\* The variables of Capture's goroutines have their types, and trace.Stop() is
\* only ever inside the RPC whose trace it stops.
THEOREM CaptureTypeCorrect == SafeSpec => []TypeOK
<1>1. IInv => TypeOK
  BY DEF IInv
<1> QED
  BY <1>1, Invariance, PTL

\* The CPU profile of an RPC is neither stopped nor inherited by another one.
THEOREM ProfileKept == SafeSpec => []ProfileHeld
<1>1. IInv => ProfileHeld
  BY DEF IInv, CpuOK, HoldsCpu, ProfileHeld
<1> QED
  BY <1>1, Invariance, PTL

\* When Capture has returned its CPU profile is stopped, on every path.
THEOREM ProfileStopped == SafeSpec => []ProfileReleased
<1>1. IInv => ProfileReleased
  BY DEF IInv, CpuOK, HoldsCpu, ProfileReleased, Returned
<1> QED
  BY <1>1, Invariance, PTL

\* When Capture has returned its trace is stopped, but for the return between
\* trace.Start and the registration of stop.
THEOREM TraceStopped == SafeSpec => []TraceReleased
<1>1. IInv => TraceReleased
  BY DEF IInv, TraceOK, HoldsTrace, TraceReleased, Returned
<1> QED
  BY <1>1, Invariance, PTL

\* The goroutine that reads the pipe never outlives Capture.
THEOREM NoReaderLeaked == SafeSpec => []ReaderGone
<1>1. IInv => ReaderGone
  BY DEF IInv, PipeOK, Returning, ReaderGone, Returned
<1> QED
  BY <1>1, Invariance, PTL

\* ExecutionTraceComplete is sent only after every batch the tracer wrote.
THEOREM WholeTrace == SafeSpec => []CompleteIsWhole
<1>1. IInv => CompleteIsWhole
  BY DEF IInv, PipeOK, CompleteIsWhole
<1> QED
  BY <1>1, Invariance, PTL
=============================================================================

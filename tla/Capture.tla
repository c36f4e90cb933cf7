------------------------------- MODULE Capture -------------------------------
(***************************************************************************)
(* The GoPprof.Capture RPC (internal/server/server.go): an execution trace *)
(* streamed while it is produced and, when asked for, a CPU profile sent   *)
(* when it is over; both for a given duration, as two goroutines of an     *)
(* errgroup.  Concurrent RPCs share the two process-wide facilities: the   *)
(* CPU profiler and the execution tracer (runtime/trace), which are        *)
(* external and modelled as this code uses them.                           *)
(*                                                                         *)
(* Per RPC: the trace goroutine (main), the goroutine that reads the pipe  *)
(* and sends chunks (rd), the tracer goroutine that trace.Start creates    *)
(* and that writes into the pipe (tr), and the CPU profile goroutine       *)
(* (cpu).  Chunks carry no contents: what matters is whether one was lost. *)
(***************************************************************************)
EXTENDS Naturals

CONSTANTS
  Rpcs,    \* Capture calls
  NoRpc

ASSUME CaptureAssumption == NoRpc \notin Rpcs

VARIABLES
  explicit,    \* the request also asks for the CPU profile
  main, rd, tr, cpu,
  ctx,         \* the errgroup's context is done
  broken,      \* the client is gone: Send fails
  pipe,        \* "open", closed by Close ("eof") or by CloseWithError ("err")
  have,        \* the reader's buffer is not empty (n > 0)
  lost,        \* a piece of the trace went nowhere
  stopSet,     \* main's variable stop is not nil
  helloFailed, \* the ExecutionTraceStart message was not sent
  cpuOwner,    \* who started the CPU profile that is running
  traceOwner,  \* who started the trace that is running
  traceLock    \* who is inside trace.Stop, which holds the tracing lock

pipeVars == <<pipe, have, lost>>
ownVars == <<cpuOwner, traceOwner, traceLock>>
flagVars == <<explicit, stopSet, helloFailed>>
vars == <<main, rd, tr, cpu, ctx, broken, pipeVars, ownVars, flagVars>>

TypeOK ==
  /\ explicit \in [Rpcs -> BOOLEAN]
  /\ main \in [Rpcs -> {"idle", "profile", "trace", "hello", "select", "timeUp",
                        "last", "deferErr", "deferStop", "stopping", "deferCpu",
                        "finished"}]
  /\ rd \in [Rpcs -> {"none", "read", "send", "sendLast", "offerErr", "done"}]
  /\ tr \in [Rpcs -> {"none", "run", "write", "flush", "ended"}]
  /\ cpu \in [Rpcs -> {"none", "start", "hello", "wait", "chunks", "finished"}]
  /\ ctx \in [Rpcs -> BOOLEAN]
  /\ broken \in [Rpcs -> BOOLEAN]
  /\ pipe \in [Rpcs -> {"open", "eof", "err"}]
  /\ have \in [Rpcs -> BOOLEAN]
  /\ lost \in [Rpcs -> BOOLEAN]
  /\ stopSet \in [Rpcs -> BOOLEAN]
  /\ helloFailed \in [Rpcs -> BOOLEAN]
  /\ {cpuOwner, traceOwner, traceLock} \subseteq Rpcs \cup {NoRpc}
  \* trace.Stop is called by main, and never twice.
  /\ traceLock \in Rpcs => main[traceLock] \in {"timeUp", "stopping"} /\ traceOwner = traceLock

Init ==
  /\ explicit \in [Rpcs -> BOOLEAN]
  /\ main = [r \in Rpcs |-> "idle"]
  /\ rd = [r \in Rpcs |-> "none"]
  /\ tr = [r \in Rpcs |-> "none"]
  /\ cpu = [r \in Rpcs |-> "none"]
  /\ ctx = [r \in Rpcs |-> FALSE]
  /\ broken = [r \in Rpcs |-> FALSE]
  /\ pipe = [r \in Rpcs |-> "open"]
  /\ have = [r \in Rpcs |-> FALSE]
  /\ lost = [r \in Rpcs |-> FALSE]
  /\ stopSet = [r \in Rpcs |-> FALSE]
  /\ helloFailed = [r \in Rpcs |-> FALSE]
  /\ cpuOwner = NoRpc
  /\ traceOwner = NoRpc
  /\ traceLock = NoRpc

Set(f, r, v) == f' = [f EXCEPT ![r] = v]

\* A goroutine of the group returns: an error cancels the context of the others.
Fails(r) == Set(ctx, r, TRUE)

-----------------------------------------------------------------------------
(***************************************************************************)
(* Capture(), and the client.                                              *)
(***************************************************************************)
CallCapture(r) ==
  /\ main[r] = "idle"
  /\ Set(main, r, IF explicit[r] THEN "trace" ELSE "profile")
  /\ Set(cpu, r, IF explicit[r] THEN "start" ELSE "finished")
  /\ UNCHANGED <<rd, tr, ctx, broken, pipeVars, ownVars, flagVars>>

\* The stream's context ends and no later Send succeeds.
ClientLeaves(r) ==
  /\ main[r] # "idle"
  /\ ~broken[r]
  /\ Set(broken, r, TRUE)
  /\ Set(ctx, r, TRUE)
  /\ UNCHANGED <<main, rd, tr, cpu, pipeVars, ownVars, flagVars>>

(***************************************************************************)
(* The CPU profile goroutine (runCpuProfile).                              *)
(***************************************************************************)
CpuStarts(r) ==
  /\ cpu[r] = "start"
  /\ IF cpuOwner = NoRpc
     THEN Set(cpu, r, "hello") /\ cpuOwner' = r /\ UNCHANGED ctx
     ELSE Set(cpu, r, "finished") /\ Fails(r) /\ UNCHANGED cpuOwner
  /\ UNCHANGED <<main, rd, tr, broken, pipeVars, traceOwner, traceLock, flagVars>>

CpuHelloSent(r) ==
  /\ cpu[r] = "hello"
  /\ ~broken[r]
  /\ Set(cpu, r, "wait")
  /\ UNCHANGED <<main, rd, tr, ctx, broken, pipeVars, ownVars, flagVars>>

\* Mutant: the early returns leave the profile running.
CpuAbortsRunning(r) ==
  /\ \/ cpu[r] = "hello" /\ broken[r]
     \/ cpu[r] = "wait" /\ ctx[r]
  /\ Set(cpu, r, "finished")
  /\ Fails(r)
  /\ UNCHANGED <<main, rd, tr, broken, pipeVars, ownVars, flagVars>>

\* Send fails, or the context ends first: the deferred stop() runs.
CpuAborts(r) ==
  /\ \/ cpu[r] = "hello" /\ broken[r]
     \/ cpu[r] = "wait" /\ ctx[r]
  /\ cpuOwner' = NoRpc
  /\ Set(cpu, r, "finished")
  /\ Fails(r)
  /\ UNCHANGED <<main, rd, tr, broken, pipeVars, traceOwner, traceLock, flagVars>>

CpuTimeUp(r) ==
  /\ cpu[r] = "wait"
  /\ cpuOwner' = NoRpc
  /\ Set(cpu, r, "chunks")
  /\ UNCHANGED <<main, rd, tr, ctx, broken, pipeVars, traceOwner, traceLock, flagVars>>

\* All chunks and the completion message were sent, or one Send failed.
CpuSends(r) ==
  /\ cpu[r] = "chunks"
  /\ Set(cpu, r, "finished")
  /\ IF broken[r] THEN Fails(r) ELSE UNCHANGED ctx
  /\ UNCHANGED <<main, rd, tr, broken, pipeVars, ownVars, flagVars>>

-----------------------------------------------------------------------------
(***************************************************************************)
(* The trace goroutine up to its select.                                   *)
(***************************************************************************)
\* Mutant: the deferred StopCPUProfile is registered before the error check.
ProfileStartsStopping(r) ==
  /\ main[r] = "profile"
  /\ IF cpuOwner = NoRpc
     THEN Set(main, r, "trace") /\ cpuOwner' = r /\ UNCHANGED ctx
     ELSE Set(main, r, "finished") /\ Fails(r) /\ cpuOwner' = NoRpc
  /\ UNCHANGED <<rd, tr, cpu, broken, pipeVars, traceOwner, traceLock, flagVars>>

\* Without an explicit CPU profile one is started whose samples go to the trace.
ProfileStarts(r) ==
  /\ main[r] = "profile"
  /\ IF cpuOwner = NoRpc
     THEN Set(main, r, "trace") /\ cpuOwner' = r /\ UNCHANGED ctx
     ELSE Set(main, r, "finished") /\ Fails(r) /\ UNCHANGED cpuOwner
  /\ UNCHANGED <<rd, tr, cpu, broken, pipeVars, traceOwner, traceLock, flagVars>>

\* trace.Start(writer) fails when a trace is running.
TraceStarts(r) ==
  /\ main[r] = "trace"
  /\ traceLock = NoRpc
  /\ IF traceOwner = NoRpc
     THEN Set(main, r, "hello") /\ Set(tr, r, "run") /\ traceOwner' = r
     ELSE Set(main, r, "deferCpu") /\ UNCHANGED <<tr, traceOwner>>
  /\ UNCHANGED <<rd, cpu, ctx, broken, pipeVars, cpuOwner, traceLock, flagVars>>

\* The deferred calls are registered, the reader goroutine starts.
HelloSent(r) ==
  /\ main[r] = "hello"
  /\ ~broken[r]
  /\ Set(main, r, "select")
  /\ Set(rd, r, "read")
  /\ Set(stopSet, r, TRUE)
  /\ UNCHANGED <<tr, cpu, ctx, broken, pipeVars, ownVars, explicit, helloFailed>>

\* BootTime or Send fails: the function returns with the trace running.
HelloFails(r) ==
  /\ main[r] = "hello"
  /\ Set(main, r, "deferCpu")
  /\ Set(helloFailed, r, TRUE)
  /\ UNCHANGED <<rd, tr, cpu, ctx, broken, pipeVars, ownVars, explicit, stopSet>>

(***************************************************************************)
(* Its select: the context, an error of the reader, the time.              *)
(***************************************************************************)
\* Mutant: the pipe is closed as if the trace were complete.
SelectCtxClosing(r) ==
  /\ main[r] = "select"
  /\ ctx[r]
  /\ Set(pipe, r, "eof")
  /\ Set(main, r, "deferErr")
  /\ UNCHANGED <<rd, tr, cpu, ctx, broken, have, lost, ownVars, flagVars>>

\* Mutant: the pipe is not closed when the context ends.
SelectCtxOpen(r) ==
  /\ main[r] = "select"
  /\ ctx[r]
  /\ Set(main, r, "deferErr")
  /\ UNCHANGED <<rd, tr, cpu, ctx, broken, pipeVars, ownVars, flagVars>>

SelectCtx(r) ==
  /\ main[r] = "select"
  /\ ctx[r]
  /\ Set(pipe, r, "err")
  /\ Set(main, r, "deferErr")
  /\ UNCHANGED <<rd, tr, cpu, ctx, broken, have, lost, ownVars, flagVars>>

\* A receive from errCh: the reader hands over its error and returns (closing
\* errCh), or has closed errCh already.
Receives(r) ==
  /\ rd[r] \in {"offerErr", "done"}
  /\ Set(rd, r, "done")

SelectErr(r) ==
  /\ main[r] = "select"
  /\ Receives(r)
  /\ Set(main, r, "deferErr")
  /\ UNCHANGED <<tr, cpu, ctx, broken, pipeVars, ownVars, flagVars>>

\* time.After(duration): trace.Stop() is called.
SelectTime(r) ==
  /\ main[r] = "select"
  /\ traceLock = NoRpc
  /\ traceLock' = r
  /\ Set(main, r, "timeUp")
  /\ UNCHANGED <<rd, tr, cpu, ctx, broken, pipeVars, cpuOwner, traceOwner, flagVars>>

\* trace.Stop() waited for the tracer to write its last batch.
StopReturns ==
  /\ traceOwner' = NoRpc
  /\ traceLock' = NoRpc

TimeUpStopped(r) ==
  /\ main[r] = "timeUp"
  /\ tr[r] = "ended"
  /\ StopReturns
  /\ Set(stopSet, r, FALSE)
  /\ Set(pipe, r, "eof")
  /\ Set(main, r, "last")
  /\ UNCHANGED <<rd, tr, cpu, ctx, broken, have, lost, cpuOwner, explicit, helloFailed>>

LastReceived(r) ==
  /\ main[r] = "last"
  /\ Receives(r)
  /\ Set(main, r, "deferErr")
  /\ UNCHANGED <<tr, cpu, ctx, broken, pipeVars, ownVars, flagVars>>

(***************************************************************************)
(* Its deferred calls: wait for the reader, stop the trace unless that was *)
(* done, stop the CPU profile it started.                                  *)
(***************************************************************************)
\* Mutant: the deferred receive from errCh is missing.
DeferErrAtOnce(r) ==
  /\ main[r] = "deferErr"
  /\ Set(main, r, "deferStop")
  /\ UNCHANGED <<rd, tr, cpu, ctx, broken, pipeVars, ownVars, flagVars>>

DeferErr(r) ==
  /\ main[r] = "deferErr"
  /\ Receives(r)
  /\ Set(main, r, "deferStop")
  /\ UNCHANGED <<tr, cpu, ctx, broken, pipeVars, ownVars, flagVars>>

\* Mutant: stop() is not called by a deferred function.
DeferStopNever(r) ==
  /\ main[r] = "deferStop"
  /\ Set(main, r, "deferCpu")
  /\ UNCHANGED <<rd, tr, cpu, ctx, broken, pipeVars, ownVars, flagVars>>

DeferStop(r) ==
  /\ main[r] = "deferStop"
  /\ IF stopSet[r]
     THEN traceLock = NoRpc /\ traceLock' = r /\ Set(main, r, "stopping")
     ELSE Set(main, r, "deferCpu") /\ UNCHANGED traceLock
  /\ UNCHANGED <<rd, tr, cpu, ctx, broken, pipeVars, cpuOwner, traceOwner, flagVars>>

DeferStopped(r) ==
  /\ main[r] = "stopping"
  /\ tr[r] = "ended"
  /\ StopReturns
  /\ Set(main, r, "deferCpu")
  /\ UNCHANGED <<rd, tr, cpu, ctx, broken, pipeVars, cpuOwner, flagVars>>

\* The goroutine returns; only a trace that ran its time returns no error.
DeferCpu(r) ==
  /\ main[r] = "deferCpu"
  /\ IF explicit[r] THEN UNCHANGED cpuOwner ELSE cpuOwner' = NoRpc
  /\ IF pipe[r] = "eof" /\ ~broken[r] THEN UNCHANGED ctx ELSE Fails(r)
  /\ Set(main, r, "finished")
  /\ UNCHANGED <<rd, tr, cpu, broken, pipeVars, traceOwner, traceLock, flagVars>>

-----------------------------------------------------------------------------
(***************************************************************************)
(* The tracer goroutine (external): it writes batches for as long as the   *)
(* trace runs and a last one when trace.Stop() asks for it; an error of    *)
(* the pipe is ignored and the batch is gone.                              *)
(***************************************************************************)
TracerWrites(r) ==
  /\ tr[r] = "run"
  /\ Set(tr, r, IF traceLock = r THEN "flush" ELSE "write")
  /\ UNCHANGED <<main, rd, cpu, ctx, broken, pipeVars, ownVars, flagVars>>

AfterWrite(r) == IF tr[r] = "flush" THEN "ended" ELSE "run"

TracerLoses(r) ==
  /\ tr[r] \in {"write", "flush"}
  /\ pipe[r] # "open"
  /\ Set(tr, r, AfterWrite(r))
  /\ Set(lost, r, TRUE)
  /\ UNCHANGED <<main, rd, cpu, ctx, broken, pipe, have, ownVars, flagVars>>

(***************************************************************************)
(* The reader goroutine.                                                   *)
(***************************************************************************)
\* A batch arrives: the chunk is full now, or the reader wants more.
ReadData(r) ==
  /\ rd[r] = "read"
  /\ pipe[r] = "open"
  /\ tr[r] \in {"write", "flush"}
  /\ Set(tr, r, AfterWrite(r))
  /\ Set(have, r, TRUE)
  /\ \/ Set(rd, r, "send")
     \/ UNCHANGED rd
  /\ UNCHANGED <<main, cpu, ctx, broken, pipe, lost, ownVars, flagVars>>

ReadEof(r) ==
  /\ rd[r] = "read"
  /\ pipe[r] = "eof"
  /\ Set(rd, r, IF have[r] THEN "send" ELSE "sendLast")
  /\ UNCHANGED <<main, tr, cpu, ctx, broken, pipeVars, ownVars, flagVars>>

\* The pipe was closed with an error; what was read of a chunk is dropped.
ReadErr(r) ==
  /\ rd[r] = "read"
  /\ pipe[r] = "err"
  /\ Set(rd, r, "offerErr")
  /\ UNCHANGED <<main, tr, cpu, ctx, broken, pipeVars, ownVars, flagVars>>

ReaderSends(r) ==
  /\ rd[r] \in {"send", "sendLast"}
  /\ ~broken[r]
  /\ Set(rd, r, IF rd[r] = "send" THEN "read" ELSE "done")
  /\ Set(have, r, IF rd[r] = "send" THEN FALSE ELSE have[r])
  /\ UNCHANGED <<main, tr, cpu, ctx, broken, pipe, lost, ownVars, flagVars>>

\* errCh <- err waits until main receives.
ReaderSendFails(r) ==
  /\ rd[r] \in {"send", "sendLast"}
  /\ broken[r]
  /\ Set(rd, r, "offerErr")
  /\ UNCHANGED <<main, tr, cpu, ctx, broken, pipeVars, ownVars, flagVars>>

-----------------------------------------------------------------------------
Cpu(r) == CpuStarts(r) \/ CpuHelloSent(r) \/ CpuAborts(r) \/ CpuTimeUp(r) \/ CpuSends(r)

Select(r) == SelectCtx(r) \/ SelectErr(r) \/ SelectTime(r)

Main(r) ==
  \/ ProfileStarts(r) \/ TraceStarts(r) \/ HelloSent(r) \/ HelloFails(r)
  \/ Select(r) \/ TimeUpStopped(r) \/ LastReceived(r)
  \/ DeferErr(r) \/ DeferStop(r) \/ DeferStopped(r) \/ DeferCpu(r)

Tracer(r) == TracerWrites(r) \/ TracerLoses(r)

Reader(r) ==
  ReadData(r) \/ ReadEof(r) \/ ReadErr(r) \/ ReaderSends(r) \/ ReaderSendFails(r)

Next ==
  \E r \in Rpcs :
    CallCapture(r) \/ ClientLeaves(r) \/ Cpu(r) \/ Main(r) \/ Tracer(r) \/ Reader(r)

(***************************************************************************)
(* Fairness: every goroutine runs when it can, a duration passes, and a    *)
(* client that stays reads what it is sent.                                *)
(***************************************************************************)
SafeSpec == Init /\ [][Next]_vars

Spec ==
  /\ SafeSpec
  /\ \A r \in Rpcs : WF_vars(Cpu(r)) /\ WF_vars(Main(r)) /\ WF_vars(Tracer(r)) /\ WF_vars(Reader(r))

-----------------------------------------------------------------------------
Returned(r) == main[r] = "finished" /\ cpu[r] = "finished"

\* A CPU profile is stopped by the RPC that started it, and only by that one:
\* a second Capture neither ends nor inherits the profile of the first.
ProfileHeld ==
  \A r \in Rpcs :
    /\ cpu[r] \in {"hello", "wait"} => cpuOwner = r
    /\ ~explicit[r] /\ main[r] \notin {"idle", "profile", "finished"} => cpuOwner = r

\* No CPU profile outlives the RPC that started it.
ProfileReleased == \A r \in Rpcs : Returned(r) => cpuOwner # r

\* No trace outlives the RPC that started it, unless its first message could not
\* be sent: that return comes before stop is registered.
TraceReleased == \A r \in Rpcs : Returned(r) /\ traceOwner = r => helloFailed[r]

\* "we don't leak the reader goroutine": it is gone when the RPC returns.
ReaderGone == \A r \in Rpcs : Returned(r) => rd[r] \in {"none", "done"}

\* ExecutionTraceComplete is sent only after the whole trace: the tracer wrote
\* its last batch and every batch was read and sent.
CompleteIsWhole ==
  \A r \in Rpcs : rd[r] = "sendLast" => tr[r] = "ended" /\ ~lost[r] /\ ~have[r]

\* The reader gave up although the tracer may still write to the pipe.
Abandoned(r) == pipe[r] = "open" /\ rd[r] \in {"offerErr", "done"}

\* Capture returns, unless the reader of some RPC abandoned an open pipe.
CaptureReturns ==
  \A r \in Rpcs : main[r] # "idle" ~> Returned(r) \/ \E q \in Rpcs : Abandoned(q)

\* "there's always someone reading from errCh (so the channel can be unbuffered)".
ErrChIsRead == \A r \in Rpcs : rd[r] = "offerErr" ~> rd[r] = "done"
=============================================================================

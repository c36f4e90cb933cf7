---------------------------- MODULE StopTheWorld ----------------------------
(***************************************************************************)
(* stoptheworld.StopTheWorld (internal/stoptheworld/stop_the_world.go) and *)
(* its signal handler (signal_linux_amd64.s, signal_darwin_arm64.s): f     *)
(* runs with the world stopped; a fault inside Dereference makes that call *)
(* return false, a fault elsewhere in f makes stopTheWorldWrapper return   *)
(* false, and every other fault of the process goes to the handler the     *)
(* application had installed.                                              *)
(*                                                                         *)
(* A fault changes nothing of this state except for the goroutine that     *)
(* runs f; what the handler would do with a fault of any thread in the     *)
(* current state is the operator Outcome.  Both platforms are covered at   *)
(* once: only linux reads snapshotTid, only darwin handles SIGBUS.         *)
(***************************************************************************)
EXTENDS Integers, Sequences, FiniteSets

CONSTANTS
  Snapshotters,  \* goroutines that call StopTheWorld
  Threads,       \* threads of the process, those of C libraries included
  Nobody         \* no goroutine, no thread

ASSUME StopTheWorldAssumption == Nobody \notin Snapshotters \cup Threads

VARIABLES
  swPc,     \* where each goroutine stands in StopTheWorld
  swOk,     \* what the wrapper returned to it
  thread,   \* the thread it runs on
  locked,   \* goroutines that are locked to their thread
  world,    \* the goroutine that stopped the world
  handler,  \* the process's action for the signal: "app" or "ours"
  stackTop, \* where the stack of the goroutine in f is
  state     \* the package's signalState

stwVars == <<swPc, swOk, thread, locked, world, handler, stackTop, state>>

\* Two places for a stack that is copied when it grows, and the distance of the
\* wrapper's frame from its top.
StackTops == {100, 200}
WrapperDepth == 10
WrapperFrame == stackTop - WrapperDepth

StwPhases == {"out", "lockThread", "lockMu", "config", "tid", "handler", "stop",
              "recovery", "f", "clearRecovery", "start", "untid", "unhandler",
              "unconfig", "unlockMu", "unlockThread", "back"}

SignalState ==
  [mu : Snapshotters \cup {Nobody}, config : BOOLEAN, prevAction : {"none", "app", "ours"},
   snapshotTid : Threads \cup {Nobody}, gPtr : Snapshotters \cup {Nobody},
   recoveryFrameBaseOffset : Int]

StwTypeOK ==
  /\ swPc \in [Snapshotters -> StwPhases]
  /\ swOk \in [Snapshotters -> BOOLEAN]
  /\ thread \in [Snapshotters -> Threads \cup {Nobody}]
  /\ locked \subseteq Snapshotters
  /\ world \in Snapshotters \cup {Nobody}
  /\ handler \in {"app", "ours"}
  /\ stackTop \in StackTops
  /\ state \in SignalState

StwInit ==
  /\ swPc = [g \in Snapshotters |-> "out"]
  /\ swOk = [g \in Snapshotters |-> FALSE]
  /\ thread = [g \in Snapshotters |-> Nobody]
  /\ locked = {}
  /\ world = Nobody
  /\ handler = "app"
  /\ stackTop = 100
  /\ state = [mu |-> Nobody, config |-> FALSE, prevAction |-> "none",
              snapshotTid |-> Nobody, gPtr |-> Nobody, recoveryFrameBaseOffset |-> 0]

-----------------------------------------------------------------------------
\* Go code of g runs: the world is not stopped by somebody else.
MayRun(g) == world \in {Nobody, g}

Steps(g, from, to) ==
  /\ MayRun(g)
  /\ swPc[g] = from
  /\ swPc' = [swPc EXCEPT ![g] = to]

\* A step that changes the signal state only.
Sets(g, from, to, s) ==
  /\ Steps(g, from, to)
  /\ state' = s
  /\ UNCHANGED <<swOk, thread, locked, world, handler, stackTop>>

\* The scheduler puts g on a thread nobody else is locked to.
RunsOn(g, t) ==
  /\ \A h \in locked : thread[h] # t
  /\ thread' = [thread EXCEPT ![g] = t]

CallStop(g, t) ==
  /\ Steps(g, "out", "lockThread")
  /\ RunsOn(g, t)
  /\ UNCHANGED <<swOk, locked, world, handler, stackTop, state>>

\* A goroutine that is not locked may continue on another thread.
Migrate(g, t) ==
  /\ MayRun(g)
  /\ g \notin locked
  /\ swPc[g] \notin {"out", "back"}
  /\ t # thread[g]
  /\ RunsOn(g, t)
  /\ UNCHANGED <<swPc, swOk, locked, world, handler, stackTop, state>>

LockOSThread(g) ==
  /\ Steps(g, "lockThread", "lockMu")
  /\ \A h \in locked : thread[h] # thread[g]
  /\ locked' = locked \cup {g}
  /\ UNCHANGED <<swOk, thread, world, handler, stackTop, state>>

LockMu(g) ==
  /\ state.mu = Nobody
  /\ Sets(g, "lockMu", "config", [state EXCEPT !.mu = g])

SetConfig(g) == Sets(g, "config", "tid", [state EXCEPT !.config = TRUE])

\* setHandler: gettid (linux), then sigaction.
SetTid(g) == Sets(g, "tid", "handler", [state EXCEPT !.snapshotTid = thread[g]])

SetHandler(g) ==
  /\ Steps(g, "handler", "stop")
  /\ state' = [state EXCEPT !.prevAction = handler]
  /\ handler' = "ours"
  /\ UNCHANGED <<swOk, thread, locked, world, stackTop>>

\* stopTheWorld and startTheWorld are the runtime's.
WorldBecomes(g, from, to, w) ==
  /\ Steps(g, from, to)
  /\ world' = w
  /\ UNCHANGED <<swOk, thread, locked, handler, stackTop, state>>

StopsTheWorld(g) == WorldBecomes(g, "stop", "recovery", g)

\* setRecoveryState: the wrapper's frame, as a distance from the top of the stack.
SetRecoveryState(g) ==
  Sets(g, "recovery", "f", [state EXCEPT !.gPtr = g,
                                         !.recoveryFrameBaseOffset = stackTop - WrapperFrame])

\* The stack of the goroutine that runs f grows and is copied.
StackMoves(g) ==
  /\ swPc[g] = "f"
  /\ stackTop' \in StackTops \ {stackTop}
  /\ UNCHANGED <<swPc, swOk, thread, locked, world, handler, state>>

\* The wrapper returns true after f, or false when the handler unwinds a fault of f
\* outside Dereference; either way the deferred calls of StopTheWorld run.
WrapperReturns(g, ok) ==
  /\ Steps(g, "f", "clearRecovery")
  /\ swOk' = [swOk EXCEPT ![g] = ok]
  /\ UNCHANGED <<thread, locked, world, handler, stackTop, state>>

\* Mutant: clearRecoveryState forgets the goroutine.
ClearRecoveryStateHalf(g) ==
  Sets(g, "clearRecovery", "start", [state EXCEPT !.recoveryFrameBaseOffset = 0])

ClearRecoveryState(g) ==
  Sets(g, "clearRecovery", "start",
       [state EXCEPT !.gPtr = Nobody, !.recoveryFrameBaseOffset = 0])

StartsTheWorld(g) == WorldBecomes(g, "start", "untid", Nobody)

\* Mutant: StopTheWorld unlocks the mutex before it restores the handler.
ResetTidUnlocking(g) ==
  Sets(g, "untid", "unhandler", [state EXCEPT !.snapshotTid = Nobody, !.mu = Nobody])

\* resetHandler: snapshotTid = 0 (linux), then sigaction.
ResetTid(g) == Sets(g, "untid", "unhandler", [state EXCEPT !.snapshotTid = Nobody])

ResetHandler(g) ==
  /\ Steps(g, "unhandler", "unconfig")
  /\ handler' = state.prevAction
  /\ UNCHANGED <<swOk, thread, locked, world, stackTop, state>>

ClearConfig(g) == Sets(g, "unconfig", "unlockMu", [state EXCEPT !.config = FALSE])

UnlockMu(g) == Sets(g, "unlockMu", "unlockThread", [state EXCEPT !.mu = Nobody])

UnlockOSThread(g) ==
  /\ Steps(g, "unlockThread", "back")
  /\ locked' = locked \ {g}
  /\ UNCHANGED <<swOk, thread, world, handler, stackTop, state>>

StopReturned(g) ==
  /\ Steps(g, "back", "out")
  /\ thread' = [thread EXCEPT ![g] = Nobody]
  /\ swOk' = [swOk EXCEPT ![g] = FALSE]
  /\ UNCHANGED <<locked, world, handler, stackTop, state>>

-----------------------------------------------------------------------------
(***************************************************************************)
(* The signal handler.                                                     *)
(***************************************************************************)
\* The functions on the stack at a fault, leaf first.
DereferenceStack == <<"memmove", "dereferenceInner", "Dereference", "f", "wrapper">>

FaultStack(where) ==
  IF where = "dereference" THEN DereferenceStack ELSE <<where, "wrapper">>

\* memmove saves no frame pointer, so the return address into its caller is not on
\* the chain of frames the handler walks.
Framed(fn) == fn # "memmove"

FramesToCheck == 4

\* Among the first program counters of the walk, one is in Dereference: the counter
\* of a function is seen at the leaf, or as the return address of a framed callee.
InDereference(stack) ==
  \E j \in 1..Len(stack) :
    /\ stack[j] = "Dereference"
    /\ j > 1 => Framed(stack[j-1])
    /\ Cardinality({i \in 1..j-1 : Framed(stack[i])}) < FramesToCheck

\* loop_start to passthrough.
Recovers(where) ==
  IF state.config /\ InDereference(FaultStack(where)) THEN "returns false"
  ELSE IF state.config /\ state.gPtr # Nobody THEN "unwinds"
  ELSE state.prevAction

\* On linux only the thread that took the snapshot is looked at.
sigsegvHandlerLinux(t, where) ==
  IF t # state.snapshotTid THEN state.prevAction ELSE Recovers(where)

sigsegvHandlerDarwin(where) == Recovers(where)

\* What becomes of a fault with signal sig of thread t on operating system os; linux
\* has our handler for SIGSEGV only.
Outcome(os, sig, t, where) ==
  IF handler = "app" THEN "app"
  ELSE IF os = "darwin" THEN sigsegvHandlerDarwin(where)
  ELSE IF sig = "SIGBUS" THEN "app" ELSE sigsegvHandlerLinux(t, where)

\* The frame to which the handler unwinds.
UnwindFrame == stackTop - state.recoveryFrameBaseOffset

-----------------------------------------------------------------------------
StwStep(g) ==
  \/ LockOSThread(g) \/ SetConfig(g) \/ SetTid(g) \/ SetHandler(g) \/ StopsTheWorld(g)
  \/ SetRecoveryState(g) \/ (\E ok \in BOOLEAN : WrapperReturns(g, ok))
  \/ ClearRecoveryState(g) \/ StartsTheWorld(g) \/ ResetTid(g) \/ ResetHandler(g)
  \/ ClearConfig(g) \/ UnlockMu(g) \/ UnlockOSThread(g)

StwNext ==
  \E g \in Snapshotters :
    \/ \E t \in Threads : CallStop(g, t) \/ Migrate(g, t)
    \/ LockMu(g) \/ StackMoves(g) \/ StwStep(g) \/ StopReturned(g)

StwSpec == StwInit /\ [][StwNext]_stwVars

-----------------------------------------------------------------------------
\* "Restore the old signal handler": when nobody is inside, the application has
\* its handler back, the world runs, and nothing is left that could make the next
\* fault look like one of ours.
WorldRestored ==
  state.mu = Nobody =>
    /\ handler = "app" /\ world = Nobody
    /\ ~state.config /\ state.gPtr = Nobody /\ state.snapshotTid = Nobody

\* "A signal handler that can gracefully recover": a fault of f makes Dereference
\* or the wrapper return false, into a frame that exists although the stack may
\* have moved; a fault of any other thread reaches the application's handler, as
\* long as Go code runs there (while the world is stopped only a thread of a C
\* library can fault, which the darwin handler does not tell apart).  The thread
\* that stopped the world runs the package's own code, which does not fault.
InF(g) == swPc[g] = "f"

FaultsContained ==
  /\ \A g \in Snapshotters, os \in {"linux", "darwin"}, sig \in {"SIGSEGV", "SIGBUS"} :
       InF(g) /\ (os = "linux" => sig = "SIGSEGV") =>
         /\ Outcome(os, sig, thread[g], "dereference") = "returns false"
         /\ Outcome(os, sig, thread[g], "f") = "unwinds"
         /\ state.gPtr = g /\ UnwindFrame = WrapperFrame
  /\ \A t \in Threads, os \in {"linux", "darwin"}, sig \in {"SIGSEGV", "SIGBUS"} :
       /\ \A g \in Snapshotters : world = g => thread[g] # t
       /\ os = "darwin" => world = Nobody
       => Outcome(os, sig, t, "application") = "app"
=============================================================================

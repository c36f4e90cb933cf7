------------------------- MODULE StopTheWorldProofs -------------------------
(***************************************************************************)
(* Proofs about StopTheWorld, for any goroutines and threads: whatever     *)
(* order its calls come in, everything is restored when the mutex is free, *)
(* and a fault in the meantime goes where it should.                       *)
(*                                                                         *)
(* The invariant says what each step of StopTheWorld has set up so far: the*)
(* deferred calls undo it in reverse order, so each piece of state is set  *)
(* on an interval of the phases of whoever holds state.mu.                 *)
(***************************************************************************)
EXTENDS StopTheWorld, FiniteSetTheorems, TLAPS

\* The intervals, from the inside out.
InRecovery == {"f", "clearRecovery"}
InStopped == {"recovery", "start"} \cup InRecovery
WithTid == {"handler", "stop", "untid"} \cup InStopped
WithHandler == {"stop", "untid", "unhandler"} \cup InStopped
WithConfig == {"tid", "handler", "unconfig"} \cup WithHandler
WithMu == {"config", "unlockMu"} \cup WithConfig
OnThread == {"lockMu", "unlockThread"} \cup WithMu

\* A goroutine inside is locked to its thread, alone.
ThreadOK ==
  /\ \A g \in Snapshotters : g \in locked <=> swPc[g] \in OnThread
  /\ \A g, h \in locked : thread[g] = thread[h] => g = h

MuOK == \A g \in Snapshotters : state.mu = g <=> swPc[g] \in WithMu

HandlerOK ==
  /\ handler = "ours" => \E g \in Snapshotters : swPc[g] \in WithHandler
  /\ \A g \in Snapshotters : swPc[g] \in WithHandler =>
       handler = "ours" /\ state.prevAction = "app"

ConfigOK == state.config <=> \E g \in Snapshotters : swPc[g] \in WithConfig

TidOK ==
  /\ state.snapshotTid # Nobody => \E g \in Snapshotters : swPc[g] \in WithTid
  /\ \A g \in Snapshotters : swPc[g] \in WithTid => state.snapshotTid = thread[g]

WorldOK == \A g \in Snapshotters : world = g <=> swPc[g] \in InStopped

RecoveryOK ==
  \A g \in Snapshotters :
    /\ state.gPtr = g <=> swPc[g] \in InRecovery
    /\ swPc[g] \in InRecovery => state.recoveryFrameBaseOffset = WrapperDepth

StwIInv ==
  /\ StwTypeOK /\ ThreadOK /\ MuOK /\ HandlerOK /\ ConfigOK /\ TidOK /\ WorldOK /\ RecoveryOK

LEMMA StwInitIInv == StwInit => StwIInv
BY StopTheWorldAssumption
DEF StwInit, StwIInv, StwTypeOK, SignalState, StwPhases, StackTops, ThreadOK, MuOK, HandlerOK,
    ConfigOK, TidOK, WorldOK, RecoveryOK, InRecovery, InStopped, WithTid, WithHandler,
    WithConfig, WithMu, OnThread

-----------------------------------------------------------------------------
\* What setRecoveryState and clearRecoveryState do to the signal state.
LEMMA RecoveryStateSet ==
  ASSUME state \in SignalState, NEW p \in Snapshotters \cup {Nobody}, NEW o \in Int,
         state' = [state EXCEPT !.gPtr = p, !.recoveryFrameBaseOffset = o]
  PROVE  state' \in SignalState /\ state'.gPtr = p /\ state'.recoveryFrameBaseOffset = o
<1>1. state' \in SignalState
  BY Zenon DEF SignalState
<1>2. state'.gPtr = p /\ state'.recoveryFrameBaseOffset = o
  BY Zenon DEF SignalState
<1> QED
  BY <1>1, <1>2

\* A step that changes the signal state, the handler or the world, or only a place on the
\* stack, keeps the invariant.
LEMMA StateStepKeepsStwIInv ==
  ASSUME StwIInv, NEW g \in Snapshotters,
         \/ SetConfig(g) \/ SetTid(g) \/ SetHandler(g) \/ StopsTheWorld(g) \/ SetRecoveryState(g)
         \/ ClearRecoveryState(g) \/ StartsTheWorld(g) \/ ResetTid(g) \/ ResetHandler(g)
         \/ ClearConfig(g) \/ LockMu(g) \/ UnlockMu(g)
  PROVE  StwIInv'
<1> USE StopTheWorldAssumption
    DEF StwIInv, StwTypeOK, SignalState, StwPhases, StackTops, ThreadOK, MuOK, HandlerOK,
        ConfigOK, TidOK, WorldOK, RecoveryOK, InRecovery, InStopped, WithTid, WithHandler,
        WithConfig, WithMu, OnThread, Sets, Steps, WorldBecomes
<1>1. CASE SetConfig(g)
  <2>1. state'.config = TRUE /\ state' \in SignalState
    BY <1>1 DEF SetConfig
  <2>2. /\ state'.mu = state.mu /\ state'.prevAction = state.prevAction
        /\ state'.snapshotTid = state.snapshotTid /\ state'.gPtr = state.gPtr
        /\ state'.recoveryFrameBaseOffset = state.recoveryFrameBaseOffset
    BY <1>1 DEF SetConfig
  <2> QED
    BY <1>1, <2>1, <2>2 DEF SetConfig
<1>2. CASE SetTid(g)
  BY <1>2 DEF SetTid
<1>3. CASE SetHandler(g)
  BY <1>3 DEF SetHandler
<1>4. CASE StopsTheWorld(g)
  BY <1>4 DEF StopsTheWorld
<1>5. CASE SetRecoveryState(g)
  <2>1. state' \in SignalState /\ state'.gPtr = g /\ state'.recoveryFrameBaseOffset = WrapperDepth
    <3>1. stackTop - WrapperFrame = WrapperDepth /\ WrapperDepth \in Int
      BY DEF WrapperFrame, WrapperDepth
    <3>2. state' = [state EXCEPT !.gPtr = g, !.recoveryFrameBaseOffset = WrapperDepth]
      BY <1>5, <3>1 DEF SetRecoveryState
    <3>3. state \in SignalState /\ g \in Snapshotters \cup {Nobody}
      OBVIOUS
    <3> HIDE DEF SignalState, StwIInv, StwTypeOK
    <3> QED
      BY <3>1, <3>2, <3>3, RecoveryStateSet
  <2>2. /\ state'.mu = state.mu /\ state'.prevAction = state.prevAction
        /\ state'.snapshotTid = state.snapshotTid /\ state'.config = state.config
    BY <1>5 DEF SetRecoveryState
  <2> QED
    BY <1>5, <2>1, <2>2 DEF SetRecoveryState
<1>6. CASE ClearRecoveryState(g)
  <2>1. state' \in SignalState /\ state'.gPtr = Nobody /\ state'.recoveryFrameBaseOffset = 0
    <3>1. state' = [state EXCEPT !.gPtr = Nobody, !.recoveryFrameBaseOffset = 0]
      BY <1>6 DEF ClearRecoveryState
    <3>2. state \in SignalState /\ 0 \in Int
      OBVIOUS
    <3> HIDE DEF SignalState, StwIInv, StwTypeOK
    <3> QED
      BY <3>1, <3>2, RecoveryStateSet
  <2>2. /\ state'.mu = state.mu /\ state'.prevAction = state.prevAction
        /\ state'.snapshotTid = state.snapshotTid /\ state'.config = state.config
    BY <1>6 DEF ClearRecoveryState
  <2> QED
    BY <1>6, <2>1, <2>2 DEF ClearRecoveryState
<1>7. CASE StartsTheWorld(g)
  BY <1>7 DEF StartsTheWorld
<1>8. CASE ResetTid(g)
  BY <1>8 DEF ResetTid
<1>9. CASE ResetHandler(g)
  BY <1>9 DEF ResetHandler
<1>10. CASE ClearConfig(g)
  <2>1. state'.config = FALSE /\ state' \in SignalState
    BY <1>10 DEF ClearConfig
  <2>2. /\ state'.mu = state.mu /\ state'.prevAction = state.prevAction
        /\ state'.snapshotTid = state.snapshotTid /\ state'.gPtr = state.gPtr
        /\ state'.recoveryFrameBaseOffset = state.recoveryFrameBaseOffset
    BY <1>10 DEF ClearConfig
  <2> QED
    BY <1>10, <2>1, <2>2 DEF ClearConfig
<1>11. CASE LockMu(g)
  BY <1>11 DEF LockMu
<1>12. CASE UnlockMu(g)
  BY <1>12 DEF UnlockMu
<1> QED
  BY <1>1, <1>2, <1>3, <1>4, <1>5, <1>6, <1>7, <1>8, <1>9, <1>10, <1>11, <1>12

\* What a goroutine does outside the signal state: its thread, its stack, its return.
LEMMA ThreadStepKeepsStwIInv ==
  ASSUME StwIInv, NEW g \in Snapshotters,
         \/ \E t \in Threads : CallStop(g, t) \/ Migrate(g, t)
         \/ LockOSThread(g) \/ StackMoves(g) \/ (\E ok \in BOOLEAN : WrapperReturns(g, ok))
         \/ UnlockOSThread(g) \/ StopReturned(g)
  PROVE  StwIInv'
<1> USE StopTheWorldAssumption
    DEF StwIInv, StwTypeOK, StwPhases, StackTops, ThreadOK, MuOK, HandlerOK, ConfigOK, TidOK,
        WorldOK, RecoveryOK, InRecovery, InStopped, WithTid, WithHandler, WithConfig, WithMu,
        OnThread, Steps, RunsOn, WrapperDepth
<1>1. ASSUME NEW t \in Threads, CallStop(g, t)
      PROVE  StwIInv'
  BY <1>1 DEF CallStop
<1>2. ASSUME NEW t \in Threads, Migrate(g, t)
      PROVE  StwIInv'
  BY <1>2 DEF Migrate
<1>3. CASE LockOSThread(g)
  BY <1>3 DEF LockOSThread
<1>4. CASE StackMoves(g)
  BY <1>4 DEF StackMoves
<1>5. ASSUME NEW ok \in BOOLEAN, WrapperReturns(g, ok)
      PROVE  StwIInv'
  <2>1. swOk' \in [Snapshotters -> BOOLEAN]
    BY <1>5, Zenon DEF WrapperReturns
  <2> QED
    BY <1>5, <2>1 DEF WrapperReturns
<1>6. CASE UnlockOSThread(g)
  BY <1>6 DEF UnlockOSThread
<1>7. CASE StopReturned(g)
  <2>1. swOk' \in [Snapshotters -> BOOLEAN]
    BY <1>7, Zenon DEF StopReturned
  <2> QED
    BY <1>7, <2>1 DEF StopReturned
<1> QED
  BY <1>1, <1>2, <1>3, <1>4, <1>5, <1>6, <1>7

\* Every step keeps the invariant.
LEMMA StwStepIInv == StwIInv /\ [StwNext]_stwVars => StwIInv'
<1> SUFFICES ASSUME StwIInv, [StwNext]_stwVars PROVE StwIInv'
  OBVIOUS
<1>1. CASE UNCHANGED stwVars
  BY <1>1
  DEF stwVars, StwIInv, StwTypeOK, ThreadOK, MuOK, HandlerOK, ConfigOK, TidOK, WorldOK, RecoveryOK
<1> QED
  BY <1>1, StateStepKeepsStwIInv, ThreadStepKeepsStwIInv DEF StwNext, StwStep

-----------------------------------------------------------------------------
\* Nobody inside means nothing is set.
LEMMA StwIInvRestored == StwIInv => WorldRestored
BY StopTheWorldAssumption
DEF StwIInv, StwTypeOK, SignalState, MuOK, HandlerOK, ConfigOK, TidOK, WorldOK, RecoveryOK,
    InRecovery, InStopped, WithTid, WithHandler, WithConfig, WithMu, WorldRestored

\* A fault inside Dereference is recognised: its return address is the second counter of
\* the walk, the first of a frame being that of dereferenceInner.
LEMMA DereferenceFound == InDereference(FaultStack("dereference"))
<1> DEFINE S == DereferenceStack
<1>1. Len(S) = 5 /\ S[1] = "memmove" /\ S[2] = "dereferenceInner" /\ S[3] = "Dereference"
  BY DEF DereferenceStack
<1>2. {i \in 1..3-1 : Framed(S[i])} = {2}
  BY <1>1 DEF Framed
<1>3. Cardinality({i \in 1..3-1 : Framed(S[i])}) = 1
  <2>1. Cardinality({2}) = 1
    BY FS_Singleton
  <2> QED
    BY <1>2, <2>1
<1>4. Framed(S[3-1])
  BY <1>1 DEF Framed
<1> HIDE DEF S
<1>5. InDereference(S)
  BY <1>1, <1>3, <1>4 DEF InDereference, FramesToCheck
<1> QED
  BY <1>5 DEF S, FaultStack

\* A fault anywhere else is not.
LEMMA DereferenceNotFound ==
  ASSUME NEW where \in {"f", "application"}
  PROVE  ~InDereference(FaultStack(where))
<1>1. FaultStack(where) = <<where, "wrapper">>
  BY DEF FaultStack
<1> DEFINE S == <<where, "wrapper">>
<1>2. Len(S) = 2 /\ S[1] # "Dereference" /\ S[2] # "Dereference"
  OBVIOUS
<1> HIDE DEF S
<1>3. ~InDereference(S)
  BY <1>2 DEF InDereference
<1> QED
  BY <1>1, <1>3 DEF S

\* What the phases say is what the handler looks at.
LEMMA StwIInvContains == StwIInv => FaultsContained
<1> SUFFICES ASSUME StwIInv PROVE FaultsContained
  OBVIOUS
<1> USE StopTheWorldAssumption
    DEF StwIInv, StwTypeOK, SignalState, MuOK, HandlerOK, ConfigOK, TidOK, WorldOK, RecoveryOK,
        InRecovery, InStopped, WithTid, WithHandler, WithConfig, WithMu
<1>1. ASSUME NEW g \in Snapshotters, NEW os \in {"linux", "darwin"},
             NEW sig \in {"SIGSEGV", "SIGBUS"}, InF(g), os = "linux" => sig = "SIGSEGV"
      PROVE  /\ Outcome(os, sig, thread[g], "dereference") = "returns false"
             /\ Outcome(os, sig, thread[g], "f") = "unwinds"
             /\ state.gPtr = g /\ UnwindFrame = WrapperFrame
  <2>1. /\ handler = "ours" /\ state.config /\ state.gPtr = g /\ g # Nobody
        /\ state.snapshotTid = thread[g] /\ state.recoveryFrameBaseOffset = WrapperDepth
    BY <1>1 DEF InF
  <2>2. Recovers("dereference") = "returns false" /\ Recovers("f") = "unwinds"
    BY <2>1, DereferenceFound, DereferenceNotFound DEF Recovers
  <2>3. UnwindFrame = WrapperFrame
    BY <2>1 DEF UnwindFrame, WrapperFrame
  <2> QED
    BY <1>1, <2>1, <2>2, <2>3 DEF Outcome, sigsegvHandlerLinux, sigsegvHandlerDarwin
<1>2. ASSUME NEW t \in Threads, NEW os \in {"linux", "darwin"},
             NEW sig \in {"SIGSEGV", "SIGBUS"}, \A g \in Snapshotters : world = g => thread[g] # t,
             os = "darwin" => world = Nobody
      PROVE  Outcome(os, sig, t, "application") = "app"
  <2>1. state.gPtr # Nobody => world \in Snapshotters /\ state.snapshotTid = thread[world]
    OBVIOUS
  <2>2. handler = "ours" => state.prevAction = "app"
    OBVIOUS
  <2>3. ASSUME handler = "ours", state.gPtr = Nobody
        PROVE  Recovers("application") = "app"
    BY <2>2, <2>3, DereferenceNotFound DEF Recovers
  <2> QED
    BY <1>2, <2>1, <2>2, <2>3 DEF Outcome, sigsegvHandlerLinux, sigsegvHandlerDarwin
<1> HIDE DEF StwIInv, StwTypeOK, SignalState, MuOK, HandlerOK, ConfigOK, TidOK, WorldOK, RecoveryOK
<1>3. \A g \in Snapshotters, os \in {"linux", "darwin"}, sig \in {"SIGSEGV", "SIGBUS"} :
        InF(g) /\ (os = "linux" => sig = "SIGSEGV") =>
          /\ Outcome(os, sig, thread[g], "dereference") = "returns false"
          /\ Outcome(os, sig, thread[g], "f") = "unwinds"
          /\ state.gPtr = g /\ UnwindFrame = WrapperFrame
  BY <1>1
<1>4. \A t \in Threads, os \in {"linux", "darwin"}, sig \in {"SIGSEGV", "SIGBUS"} :
        /\ \A g \in Snapshotters : world = g => thread[g] # t
        /\ os = "darwin" => world = Nobody
        => Outcome(os, sig, t, "application") = "app"
  BY <1>2
<1> QED
  BY <1>3, <1>4 DEF FaultsContained

-----------------------------------------------------------------------------
\* The inductive invariant holds throughout.
LEMMA StwAlwaysIInv == StwSpec => []StwIInv
BY StwInitIInv, StwStepIInv, PTL DEF StwSpec

\* resetHandler, clearConfig and clearRecoveryState (stop_the_world.go:25-45): when the mutex
\* is free handler, world and signal state are as before, for any number of goroutines.
THEOREM AllRestored == StwSpec => []WorldRestored
BY StwAlwaysIInv, StwIInvRestored, PTL

\* sigsegvHandler (both assembler files): faults of f are recovered from into a frame that
\* exists, those of the application are handed on, at every moment.
THEOREM FaultsHandled == StwSpec => []FaultsContained
BY StwAlwaysIInv, StwIInvContains, PTL
=============================================================================

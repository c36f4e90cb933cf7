--------------------------- MODULE SnapshotService ---------------------------
(***************************************************************************)
(* The RPCs of server.Server other than Capture (internal/server/          *)
(* server.go): Snapshot with its two requests, WatchProcesses, MachinaInfo,*)
(* GetExecutable and Events.  It composes Fetcher and StopTheWorld: a      *)
(* Snapshot fetches its program and then runs snapshot.Snapshot (internal/ *)
(* snapshot/snapshot.go), whose body is f of StopTheWorld; while one RPC   *)
(* has stopped the world no other RPC takes a step.                        *)
(*                                                                         *)
(* Client, network and artifact store are external: a stream's context     *)
(* ends when its client leaves, and then its calls fail.                   *)
(***************************************************************************)
EXTENDS Fetcher, StopTheWorld

ASSUME ServiceAssumption == Callers = Snapshotters

VARIABLES
  rpc,  \* where the handler of each stream stands
  hash  \* s.hash: the sync.Once and its result

vars == <<fetcherVars, ctx, stwVars, rpc, hash>>

RpcPhases == {"none", "setup", "fetch", "header", "request", "prepare", "stop", "finish",
              "send", "hash", "hashing", "update", "info", "connected", "file", "events"}

TypeOK ==
  /\ FetcherTypeOK
  /\ StwTypeOK
  /\ rpc \in [Callers -> RpcPhases]
  /\ hash \in {"none", "computing", "known", "failed"}
  /\ \A r \in Callers : fpc[r] # "out" => rpc[r] = "fetch"
  /\ \A r \in Callers : swPc[r] # "out" => rpc[r] = "stop"

Init ==
  /\ FetcherInit
  /\ StwInit
  /\ rpc = [r \in Callers |-> "none"]
  /\ hash = "none"

-----------------------------------------------------------------------------
\* A step of the handler of r, or of what it calls, while the world lets it run.
At(r, phase) == MayRun(r) /\ rpc[r] = phase

Goes(r, from, to) == At(r, from) /\ rpc' = [rpc EXCEPT ![r] = to]

Local == UNCHANGED <<fetcherVars, ctx, stwVars>>

\* A call on the stream, which fails once its context is done.
Calls(r, from, to) ==
  /\ Goes(r, from, to)
  /\ to = "none" <=> ctx[r]
  /\ Local
  /\ UNCHANGED hash

\* A client opens a stream; the handler that ran in its place has returned.
Serve(r, first) ==
  /\ first \in {"setup", "hash", "info", "file", "events"}
  /\ Goes(r, "none", first)
  /\ CtxRenewed(r)
  /\ UNCHANGED <<fetcherVars, stwVars, hash>>

ClientLeaves(r) ==
  /\ MayRun(Nobody)
  /\ rpc[r] # "none"
  /\ ~ctx[r]
  /\ CtxDone(r)
  /\ UNCHANGED <<fetcherVars, stwVars, rpc, hash>>

(***************************************************************************)
(* Snapshot.                                                               *)
(***************************************************************************)
\* The first Recv: a setup request with a key, another message, or an error.
RecvSetup(r, k) ==
  /\ Goes(r, "setup", "fetch")
  /\ ~ctx[r]
  /\ CallFetch(r, k)
  /\ UNCHANGED <<ctx, stwVars, hash>>

RecvFails(r) ==
  /\ \E phase \in {"setup", "request"} : Goes(r, phase, "none")
  /\ Local
  /\ UNCHANGED hash

FetchSteps(r) ==
  /\ At(r, "fetch")
  /\ FetchStep(r)
  /\ UNCHANGED <<stwVars, rpc, hash>>

RemoteSteps(r) ==
  /\ At(r, "fetch")
  /\ Remote(r)
  /\ UNCHANGED <<stwVars, rpc, hash>>

Fetched(r) ==
  /\ Goes(r, "fetch", IF answer[r] = "program" THEN "header" ELSE "none")
  /\ FetchReturned(r)
  /\ UNCHANGED <<ctx, stwVars, hash>>

SendHeader(r) == \E to \in {"request", "none"} : Calls(r, "header", to)

RecvSnapshot(r) == ~ctx[r] /\ Calls(r, "request", "prepare")

\* The platform or the runtime configuration is not supported, or the buffer cannot
\* take a header; otherwise the world is stopped.
Rejected(r) == Goes(r, "prepare", "none") /\ Local /\ UNCHANGED hash

StopWorld(r, t) ==
  /\ Goes(r, "prepare", "stop")
  /\ CallStop(r, t)
  /\ UNCHANGED <<fetcherVars, ctx, hash>>

StopSteps(r) ==
  /\ At(r, "stop")
  /\ StwStep(r)
  /\ UNCHANGED <<fetcherVars, ctx, rpc, hash>>

\* The scheduler, the mutex and the growing stack: nothing makes these happen.
StopMoves(r) ==
  /\ At(r, "stop")
  /\ StackMoves(r) \/ \E t \in Threads : Migrate(r, t)
  /\ UNCHANGED <<fetcherVars, ctx, rpc, hash>>

StopLocks(r) ==
  /\ At(r, "stop")
  /\ LockMu(r)
  /\ UNCHANGED <<fetcherVars, ctx, rpc, hash>>

\* "failed to execute snapshot" when the wrapper returned false.
WorldStarted(r) ==
  /\ Goes(r, "stop", IF swOk[r] THEN "finish" ELSE "none")
  /\ StopReturned(r)
  /\ UNCHANGED <<fetcherVars, ctx, hash>>

\* f could not make an iterator of the goroutines; otherwise the response is ready (a boot
\* time that is not implemented is left out).
NoGoroutines(r) == Goes(r, "finish", "none") /\ Local /\ UNCHANGED hash

Finish(r) == Goes(r, "finish", "send") /\ Local /\ UNCHANGED hash

SendOutput(r) == Goes(r, "send", "none") /\ Local /\ UNCHANGED hash

(***************************************************************************)
(* The other RPCs.                                                         *)
(***************************************************************************)
\* getBinaryHash: one handler computes, the others wait, an error stays for good.
ComputeHash(r) ==
  /\ Goes(r, "hash", "hashing")
  /\ hash = "none"
  /\ hash' = "computing"
  /\ Local

HashDone(r, result) ==
  /\ Goes(r, "hashing", IF result = "known" THEN "update" ELSE "none")
  /\ hash' = result
  /\ Local

HashRead(r) ==
  /\ hash \in {"known", "failed"}
  /\ Goes(r, "hash", IF hash = "known" THEN "update" ELSE "none")
  /\ Local
  /\ UNCHANGED hash

\* The executable's path is missing, or Send fails, or the stream stays open.
SendUpdate(r) == Goes(r, "update", "none") /\ Local /\ UNCHANGED hash

UpdateSent(r) == ~ctx[r] /\ Calls(r, "update", "connected")

SendInfo(r) == \E to \in {"connected", "none"} : Calls(r, "info", to)

\* Mutant: the stream's context is not waited for.
DisconnectedNever(r) == FALSE /\ Calls(r, "connected", "none")

Disconnected(r) == Calls(r, "connected", "none")

\* GetExecutable: a chunk is sent, or the file ends, or something fails.
SendChunk(r) == ~ctx[r] /\ Calls(r, "file", "file")

FileDone(r) == Goes(r, "file", "none") /\ Local /\ UNCHANGED hash

Events(r) == Goes(r, "events", "none") /\ Local /\ UNCHANGED hash

-----------------------------------------------------------------------------
\* What a handler does as soon as it can run.
Handler(r) ==
  \/ FetchSteps(r) \/ Fetched(r) \/ SendHeader(r)
  \/ Rejected(r) \/ (\E t \in Threads : StopWorld(r, t)) \/ StopSteps(r) \/ WorldStarted(r)
  \/ NoGoroutines(r) \/ Finish(r) \/ SendOutput(r)
  \/ ComputeHash(r) \/ (\E res \in {"known", "failed"} : HashDone(r, res)) \/ HashRead(r)
  \/ SendUpdate(r) \/ UpdateSent(r) \/ SendInfo(r) \/ Disconnected(r)
  \/ FileDone(r) \/ Events(r)

\* Where it waits: for the client, the artifact store or the mutex.
Waits(r) == RecvFails(r) \/ RemoteSteps(r)

Next ==
  \E r \in Callers :
    \/ \E first \in RpcPhases : Serve(r, first)
    \/ ClientLeaves(r)
    \/ \E k \in Keys : RecvSetup(r, k)
    \/ RecvSnapshot(r) \/ SendChunk(r) \/ StopMoves(r)
    \/ Handler(r) \/ StopLocks(r) \/ Waits(r)

SafeSpec == Init /\ [][Next]_vars

(***************************************************************************)
(* Fairness.  A handler that may run runs in the end although others stop  *)
(* the world again and again, and whoever waits for state.mu gets it       *)
(* (sync.Mutex hands over to a waiter that starves).  A call on a stream   *)
(* or on the artifact store returns once its context is done; before, the  *)
(* peer may be silent for ever.  A file ends: the steps of one handler are *)
(* sequential, and a chunk changes nothing, so one condition says it all.  *)
(***************************************************************************)
Fairness ==
  \A r \in Callers : SF_vars(Handler(r) \/ StopLocks(r) \/ (ctx[r] /\ Waits(r)))

Spec == SafeSpec /\ Fairness

-----------------------------------------------------------------------------
\* "Ex expects this RPC to run for the lifetime of the agent", and no longer: once
\* the client has left, the handler returns, unless it shares the fetch of a client
\* that is still there, whose artifact store may be silent.
SharesFetch(r) ==
  \E l \in Callers : fpc[r] = "wait" /\ flight[fkey[r]] = l /\ ~ctx[l]

RpcReturns ==
  \A r \in Callers : ctx[r] /\ rpc[r] # "none" ~> rpc[r] = "none" \/ SharesFetch(r)
=============================================================================

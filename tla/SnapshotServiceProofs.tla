------------------------ MODULE SnapshotServiceProofs ------------------------
(***************************************************************************)
(* Proofs about the fetcher and SnapshotService, for any number of         *)
(* streams, programs and threads.  The cache of the fetcher keeps its      *)
(* bound, and a call fails with the cancellation of another only when it   *)
(* shared its fetch and heard of it as a status error.  The service uses   *)
(* the fetcher and StopTheWorld only as their modules allow: each of its   *)
(* behaviours is one of Fetcher and one of StopTheWorld, so that what was  *)
(* proved about them holds in it.                                          *)
(***************************************************************************)
EXTENDS SnapshotService, StopTheWorldProofs

(***************************************************************************)
(* The fetcher.                                                            *)
(***************************************************************************)
Fetches(c) == fpc[c] \in {"get", "recv", "decode", "end"}

\* A fetch in flight is that of a call that fetches this key ...
FlightOK ==
  \A k \in Keys : flight[k] # NoCaller => fkey[flight[k]] = k /\ Fetches(flight[k])

\* ... each call that fetches is registered, and who waits has somebody to wait for.
FetchOK ==
  \A c \in Callers :
    /\ Fetches(c) => flight[fkey[c]] = c
    /\ fpc[c] = "wait" => flight[fkey[c]] # NoCaller

\* The cancellation with which a fetch has ended is that of the call that fetched.
AnswerOK == \A c \in Callers : fpc[c] = "end" /\ answer[c] \in Cancellations => ctx[c]

FetcherIInv == FetcherTypeOK /\ CacheBounded /\ FlightOK /\ FetchOK /\ AnswerOK

LEMMA FetcherInitIInv == FetcherInit => FetcherIInv
<1> SUFFICES ASSUME FetcherInit PROVE FetcherIInv
  OBVIOUS
<1>1. CacheBounded
  BY FetcherAssumption, FS_EmptySet DEF FetcherInit, CacheBounded
<1>2. FetcherTypeOK
  BY FS_EmptySet DEF FetcherInit, FetcherTypeOK
<1> QED
  BY <1>1, <1>2
  DEF FetcherInit, FetcherIInv, FlightOK, FetchOK, AnswerOK, Fetches, Cancellations

\* Storing a program keeps the cache finite and within its bound.
LEMMA StoreBounded ==
  ASSUME FetcherTypeOK, CacheBounded, NEW c \in Callers, Store(c)
  PROVE  IsFiniteSet(cache') /\ Cardinality(cache') <= Capacity
<1> USE FetcherAssumption DEF FetcherTypeOK, CacheBounded
<1>1. CASE Cardinality(cache) < Capacity
  <2>1. cache' = cache \cup {fkey[c]}
    BY <1>1 DEF Store
  <2>2. Cardinality(cache) \in Nat /\ Capacity \in Nat
    BY FS_CardinalityType
  <2>3. /\ IsFiniteSet(cache \cup {fkey[c]})
        /\ Cardinality(cache \cup {fkey[c]}) = IF fkey[c] \in cache THEN Cardinality(cache)
                                               ELSE Cardinality(cache) + 1
    BY FS_AddElement
  <2> QED
    BY <1>1, <2>1, <2>2, <2>3
<1>2. CASE ~(Cardinality(cache) < Capacity)
  <2>1. PICK k \in cache : cache' = (cache \ {k}) \cup {fkey[c]}
    BY <1>2 DEF Store
  <2>2. /\ IsFiniteSet(cache \ {k})
        /\ Cardinality(cache \ {k}) = Cardinality(cache) - 1
    BY FS_RemoveElement
  <2>3. Cardinality(cache) \in Nat /\ Capacity \in Nat
    BY FS_CardinalityType
  <2>4. /\ IsFiniteSet((cache \ {k}) \cup {fkey[c]})
        /\ Cardinality((cache \ {k}) \cup {fkey[c]}) =
             IF fkey[c] \in cache \ {k} THEN Cardinality(cache \ {k})
             ELSE Cardinality(cache \ {k}) + 1
    BY <2>2, FS_AddElement
  <2> QED
    BY <2>1, <2>2, <2>3, <2>4
<1> QED
  BY <1>1, <1>2

\* A step that leaves the cache alone keeps its bound.
LEMMA CacheKept ==
  ASSUME FetcherTypeOK, CacheBounded, UNCHANGED cache
  PROVE  IsFiniteSet(cache') /\ Cardinality(cache') <= Capacity
BY DEF FetcherTypeOK, CacheBounded

-----------------------------------------------------------------------------
\* What happens to a context, and to those of callers in FetchSnapshotProgram.
LEMMA CtxChanges ==
  ASSUME ctx \in [Callers -> BOOLEAN], NEW c \in Callers, CtxDone(c) \/ CtxRenewed(c)
  PROVE  /\ ctx' \in [Callers -> BOOLEAN]
         /\ \A d \in Callers : fpc[d] # "out" /\ ctx[d] => ctx'[d]
<1>1. ctx' \in [Callers -> BOOLEAN]
  BY Zenon DEF CtxDone, CtxRenewed
<1>2. \A d \in Callers : fpc[d] # "out" /\ ctx[d] => ctx'[d]
  BY DEF CtxDone, CtxRenewed
<1> QED
  BY <1>1, <1>2

\* A step of FetchSnapshotProgram that neither stores a program nor ends a fetch keeps the
\* invariant.
LEMMA CallerKeepsFetcherIInv ==
  ASSUME FetcherIInv, NEW c \in Callers,
         \/ Hit(c) \/ Miss(c) \/ Lead(c) \/ Join(c) \/ Wake(c) \/ Remote(c)
         \/ (\E k \in Keys : CallFetch(c, k)) /\ UNCHANGED ctx
         \/ FetchReturned(c) /\ UNCHANGED ctx
         \/ (CtxDone(c) \/ CtxRenewed(c)) /\ UNCHANGED fetcherVars
  PROVE  FetcherIInv'
<1> USE FetcherAssumption
    DEF FetcherIInv, FetcherTypeOK, FlightOK, FetchOK, AnswerOK, Fetches, Moves, Errors,
        Cancellations
<1>0. CacheBounded' /\ IsFiniteSet(cache')
  <2>1. UNCHANGED cache
    BY DEF Hit, Miss, Lead, Join, Wake, Remote, GetArtifact, LastChunk, RemoteFails, CallFetch,
           FetchReturned, fetcherVars
  <2> QED
    BY <2>1, CacheKept DEF CacheBounded
<1>1. CASE Hit(c)
  BY <1>0, <1>1 DEF Hit
<1>2. CASE Miss(c)
  BY <1>0, <1>2 DEF Miss
<1>3. CASE Lead(c)
  BY <1>0, <1>3 DEF Lead
<1>4. CASE Join(c)
  BY <1>0, <1>4 DEF Join
<1>5. CASE Wake(c)
  BY <1>0, <1>5 DEF Wake, Retry
<1>6. CASE Remote(c)
  <2>1. CASE GetArtifact(c)
    BY <1>0, <2>1 DEF GetArtifact
  <2>2. CASE LastChunk(c)
    BY <1>0, <2>2 DEF LastChunk
  <2>3. ASSUME NEW e \in Errors, RemoteFails(c, e)
        PROVE  FetcherIInv'
    BY <1>0, <2>3 DEF RemoteFails
  <2> QED
    BY <1>6, <2>1, <2>2, <2>3 DEF Remote
<1>7. ASSUME NEW k \in Keys, CallFetch(c, k), UNCHANGED ctx
      PROVE  FetcherIInv'
  BY <1>0, <1>7 DEF CallFetch
<1>8. CASE FetchReturned(c) /\ UNCHANGED ctx
  BY <1>0, <1>8 DEF FetchReturned
<1>9. CASE (CtxDone(c) \/ CtxRenewed(c)) /\ UNCHANGED fetcherVars
  BY <1>0, <1>9, CtxChanges DEF fetcherVars
<1> QED
  BY <1>1, <1>2, <1>3, <1>4, <1>5, <1>6, <1>7, <1>8, <1>9

\* Every step keeps the invariant.
LEMMA FetcherStepIInv == FetcherIInv /\ [FetcherNext]_<<fetcherVars, ctx>> => FetcherIInv'
<1> SUFFICES ASSUME FetcherIInv, [FetcherNext]_<<fetcherVars, ctx>> PROVE FetcherIInv'
  OBVIOUS
<1>1. ASSUME NEW c \in Callers, Store(c)
      PROVE  FetcherIInv'
  <2>1. IsFiniteSet(cache') /\ CacheBounded'
    BY <1>1, StoreBounded DEF FetcherIInv, CacheBounded
  <2>2. cache' \subseteq Keys
    BY <1>1 DEF FetcherIInv, FetcherTypeOK, Store, Moves
  <2> QED
    BY <1>1, <2>1, <2>2, FetcherAssumption
    DEF FetcherIInv, FetcherTypeOK, FlightOK, FetchOK, AnswerOK, Fetches, Store, Moves,
        Cancellations
<1>2. ASSUME NEW c \in Callers, EndFlight(c)
      PROVE  FetcherIInv'
  <2>1. IsFiniteSet(cache') /\ CacheBounded'
    BY <1>2, CacheKept DEF FetcherIInv, CacheBounded, EndFlight
  <2> QED
    BY <1>2, <2>1, FetcherAssumption
    DEF FetcherIInv, FetcherTypeOK, FlightOK, FetchOK, AnswerOK, Fetches, EndFlight,
        Cancellations
<1>3. CASE UNCHANGED <<fetcherVars, ctx>>
  BY <1>3 DEF fetcherVars, FetcherIInv, FetcherTypeOK, CacheBounded, FlightOK, FetchOK, AnswerOK,
              Fetches
<1> QED
  BY <1>1, <1>2, <1>3, CallerKeepsFetcherIInv DEF FetcherNext, FetchStep

\* A caller is woken by the end of the flight that FlightOK knows of ...
LEMMA WokenBy ==
  ASSUME FetcherIInv, [FetcherNext]_<<fetcherVars, ctx>>, NEW c \in Callers,
         fpc[c] = "wait", fpc'[c] = "woke", answer'[c] \in Cancellations
  PROVE  \E l \in Callers : flight[fkey[c]] = l /\ ctx[l]
<1> USE DEF FetcherIInv, FetcherTypeOK, Moves
<1>1. ASSUME NEW d \in Callers,
             \/ Hit(d) \/ Miss(d) \/ Lead(d) \/ Join(d) \/ Store(d) \/ Wake(d) \/ Remote(d)
             \/ (\E k \in Keys : CallFetch(d, k)) \/ FetchReturned(d) \/ UNCHANGED fetcherVars
      PROVE  FALSE
  BY <1>1 DEF Hit, Miss, Lead, Join, Store, Wake, Remote, GetArtifact, LastChunk, RemoteFails,
              CallFetch, FetchReturned, fetcherVars
<1>2. PICK l \in Callers : EndFlight(l)
  BY <1>1 DEF FetcherNext, FetchStep, fetcherVars
<1>3. fpc[l] = "end" /\ fkey[l] = fkey[c] /\ answer'[c] = answer[l]
  BY <1>2 DEF EndFlight
<1>4. flight[fkey[c]] = l
  BY <1>3 DEF FetchOK, Fetches
<1>5. ctx[l]
  BY <1>3 DEF AnswerOK
<1> QED
  BY <1>4, <1>5

\* ... and returns a cancellation that is its own, or that it was woken with and does not
\* recognise.
LEMMA ReturnsWith ==
  ASSUME FetcherIInv, [FetcherNext]_<<fetcherVars, ctx>>, NEW c \in Callers,
         fpc[c] # "back", fpc'[c] = "back", answer'[c] \in Cancellations
  PROVE  ctx[c] \/ (fpc[c] = "woke" /\ answer[c] = "status")
<1> USE DEF FetcherIInv, FetcherTypeOK, Moves, Cancellations
<1>1. ASSUME NEW d \in Callers,
             \/ Hit(d) \/ Miss(d) \/ Lead(d) \/ Join(d) \/ Store(d) \/ Remote(d)
             \/ (\E k \in Keys : CallFetch(d, k)) \/ FetchReturned(d) \/ UNCHANGED fetcherVars
      PROVE  FALSE
  BY <1>1 DEF Hit, Miss, Lead, Join, Store, Remote, GetArtifact, LastChunk, RemoteFails,
              CallFetch, FetchReturned, fetcherVars
<1>2. ASSUME NEW d \in Callers, EndFlight(d)
      PROVE  ctx[c]
  BY <1>2 DEF EndFlight, AnswerOK
<1>3. ASSUME NEW d \in Callers, Wake(d)
      PROVE  ctx[c] \/ (fpc[c] = "woke" /\ answer[c] = "status")
  BY <1>3 DEF Wake, Retry
<1> QED
  BY <1>1, <1>2, <1>3 DEF FetcherNext, FetchStep, fetcherVars

-----------------------------------------------------------------------------
\* The inductive invariant holds throughout, whatever callers and contexts do.
LEMMA FetcherAlwaysIInv == FetcherSpec => []FetcherIInv
BY FetcherInitIInv, FetcherStepIInv, PTL DEF FetcherSpec

\* maxCapacity: the cache of programs (fetcher.go:74) never holds more than it may,
\* however many calls store at the same time.
THEOREM CacheWithinCapacity == FetcherSpec => []CacheBounded
<1>1. FetcherIInv => CacheBounded
  BY DEF FetcherIInv
<1> QED
  BY <1>1, FetcherAlwaysIInv, PTL

\* The retry of FetchSnapshotProgram (fetcher.go:84-87): a call fails with a cancellation only
\* when its own context is done, or when it shared the fetch of a call whose context was done and
\* heard of it as a status error, for which errors.Is is false.
THEOREM SharedOnlyByStatus == FetcherSpec => SharedFailures
<1>1. FetcherIInv /\ [FetcherNext]_<<fetcherVars, ctx>> =>
        [\A c \in Callers :
           /\ fpc[c] = "wait" /\ fpc'[c] = "woke" /\ answer'[c] \in Cancellations =>
                \E l \in Callers : flight[fkey[c]] = l /\ ctx[l]
           /\ fpc[c] # "back" /\ fpc'[c] = "back" /\ answer'[c] \in Cancellations =>
                ctx[c] \/ (fpc[c] = "woke" /\ answer[c] = "status")]_<<fetcherVars, ctx>>
  BY WokenBy, ReturnsWith
<1> QED
  BY <1>1, FetcherAlwaysIInv, PTL DEF FetcherSpec, SharedFailures

-----------------------------------------------------------------------------
(***************************************************************************)
(* The service.                                                            *)
(***************************************************************************)
\* A step of the service is a step of the fetcher, or leaves it alone.
LEMMA ServiceStepFetches == [Next]_vars => [FetcherNext]_<<fetcherVars, ctx>>
<1> SUFFICES ASSUME [Next]_vars PROVE [FetcherNext]_<<fetcherVars, ctx>>
  OBVIOUS
<1>1. CASE UNCHANGED vars
  BY <1>1 DEF vars
<1>2. ASSUME NEW r \in Callers, (\E first \in RpcPhases : Serve(r, first)) \/ ClientLeaves(r)
      PROVE  (CtxDone(r) \/ CtxRenewed(r)) /\ UNCHANGED fetcherVars
  BY <1>2 DEF Serve, ClientLeaves
<1>3. ASSUME NEW r \in Callers, NEW k \in Keys, RecvSetup(r, k)
      PROVE  CallFetch(r, k) /\ UNCHANGED ctx
  BY <1>3 DEF RecvSetup
<1>4. ASSUME NEW r \in Callers, Fetched(r)
      PROVE  FetchReturned(r) /\ UNCHANGED ctx
  BY <1>4 DEF Fetched
<1>5. ASSUME NEW r \in Callers, FetchSteps(r) \/ RemoteSteps(r)
      PROVE  FetchStep(r) \/ Remote(r)
  BY <1>5 DEF FetchSteps, RemoteSteps
<1>6. ASSUME NEW r \in Callers,
             \/ RecvSnapshot(r) \/ SendChunk(r) \/ StopMoves(r) \/ StopLocks(r) \/ RecvFails(r)
             \/ SendHeader(r) \/ Rejected(r) \/ (\E t \in Threads : StopWorld(r, t))
             \/ StopSteps(r) \/ WorldStarted(r) \/ NoGoroutines(r) \/ Finish(r) \/ SendOutput(r)
             \/ ComputeHash(r) \/ (\E res \in {"known", "failed"} : HashDone(r, res))
             \/ HashRead(r) \/ SendUpdate(r) \/ UpdateSent(r) \/ SendInfo(r) \/ Disconnected(r)
             \/ FileDone(r) \/ Events(r)
      PROVE  UNCHANGED <<fetcherVars, ctx>>
  BY <1>6
  DEF RecvSnapshot, SendChunk, StopMoves, StopLocks, RecvFails, SendHeader, Rejected, StopWorld,
      StopSteps, WorldStarted, NoGoroutines, Finish, SendOutput, ComputeHash, HashDone, HashRead,
      SendUpdate, UpdateSent, SendInfo, Disconnected, FileDone, Events, Calls, Local
<1> QED
  BY <1>1, <1>2, <1>3, <1>4, <1>5, <1>6 DEF Next, Handler, Waits, FetcherNext

\* A step of the service is a step of StopTheWorld, or leaves it alone.
LEMMA ServiceStepStops == [Next]_vars => [StwNext]_stwVars
<1> SUFFICES ASSUME [Next]_vars PROVE [StwNext]_stwVars
  OBVIOUS
<1>1. CASE UNCHANGED vars
  BY <1>1 DEF vars
<1>2. ASSUME NEW r \in Callers, NEW t \in Threads, StopWorld(r, t)
      PROVE  CallStop(r, t)
  BY <1>2 DEF StopWorld
<1>3. ASSUME NEW r \in Callers, StopMoves(r)
      PROVE  StackMoves(r) \/ \E t \in Threads : Migrate(r, t)
  BY <1>3 DEF StopMoves
<1>4. ASSUME NEW r \in Callers, StopLocks(r)
      PROVE  LockMu(r)
  BY <1>4 DEF StopLocks
<1>5. ASSUME NEW r \in Callers, StopSteps(r)
      PROVE  StwStep(r)
  BY <1>5 DEF StopSteps
<1>6. ASSUME NEW r \in Callers, WorldStarted(r)
      PROVE  StopReturned(r)
  BY <1>6 DEF WorldStarted
<1>7. ASSUME NEW r \in Callers,
             \/ (\E first \in RpcPhases : Serve(r, first)) \/ ClientLeaves(r)
             \/ (\E k \in Keys : RecvSetup(r, k)) \/ Fetched(r) \/ FetchSteps(r) \/ RemoteSteps(r)
             \/ RecvSnapshot(r) \/ SendChunk(r) \/ RecvFails(r)
             \/ SendHeader(r) \/ Rejected(r) \/ NoGoroutines(r) \/ Finish(r) \/ SendOutput(r)
             \/ ComputeHash(r) \/ (\E res \in {"known", "failed"} : HashDone(r, res))
             \/ HashRead(r) \/ SendUpdate(r) \/ UpdateSent(r) \/ SendInfo(r) \/ Disconnected(r)
             \/ FileDone(r) \/ Events(r)
      PROVE  UNCHANGED stwVars
  BY <1>7
  DEF Serve, ClientLeaves, RecvSetup, Fetched, FetchSteps, RemoteSteps, RecvSnapshot, SendChunk,
      RecvFails, SendHeader, Rejected, NoGoroutines, Finish, SendOutput, ComputeHash, HashDone,
      HashRead, SendUpdate, UpdateSent, SendInfo, Disconnected, FileDone, Events, Calls, Local
<1> QED
  BY <1>1, <1>2, <1>3, <1>4, <1>5, <1>6, <1>7, ServiceAssumption
  DEF Next, Handler, Waits, StwNext

\* The composition (server.go:180-213): a service is a fetcher and a StopTheWorld.
THEOREM ServiceComposes == SafeSpec => FetcherSpec /\ StwSpec
BY ServiceStepFetches, ServiceStepStops, PTL DEF SafeSpec, Init, FetcherSpec, StwSpec

\* maxCapacity (fetcher.go:74) in the service, for any number of streams and programs.
THEOREM ServiceCacheBounded == SafeSpec => []CacheBounded
BY ServiceComposes, CacheWithinCapacity, PTL

\* The retry (fetcher.go:84-87) in the service: a Snapshot whose client is still there is refused
\* for the cancellation of another one only if it shared the other's fetch and was handed a
\* status error.
THEOREM ServiceSharedOnlyByStatus == SafeSpec => SharedFailures
BY ServiceComposes, SharedOnlyByStatus, PTL

\* StopTheWorld's deferred calls (stop_the_world.go:25) in the service.
THEOREM ServiceRestoresWorld == SafeSpec => []WorldRestored
BY ServiceComposes, AllRestored, PTL

\* The signal handlers in the service: a fault while a snapshot is taken is contained, one of
\* the application while another thread prepares or ends a snapshot is the application's.
THEOREM ServiceContainsFaults == SafeSpec => []FaultsContained
BY ServiceComposes, FaultsHandled, PTL

-----------------------------------------------------------------------------
\* A handler is in FetchSnapshotProgram, or in StopTheWorld, only where it calls it.
RpcOK ==
  /\ rpc \in [Callers -> RpcPhases]
  /\ hash \in {"none", "computing", "known", "failed"}
  /\ \A r \in Callers : fpc[r] # "out" => rpc[r] = "fetch"
  /\ \A r \in Callers : swPc[r] # "out" => rpc[r] = "stop"

\* A step inside FetchSnapshotProgram brings nobody else into it.
LEMMA FetchStaysInside ==
  ASSUME FetcherTypeOK, NEW r \in Callers, FetchStep(r) \/ Remote(r)
  PROVE  /\ fpc[r] # "out"
         /\ \A c \in Callers : fpc[c] = "out" => fpc'[c] = "out"
BY DEF FetcherTypeOK, FetchStep, Remote, Hit, Miss, Lead, Join, Store, EndFlight, Wake,
       GetArtifact, LastChunk, RemoteFails, Moves

\* Nor does one inside StopTheWorld.
LEMMA StopStaysInside ==
  ASSUME StwTypeOK, NEW g \in Snapshotters,
         StwStep(g) \/ LockMu(g) \/ StackMoves(g) \/ \E t \in Threads : Migrate(g, t)
  PROVE  \A h \in Snapshotters : swPc[h] = "out" => swPc'[h] = "out"
BY DEF StwTypeOK, StwStep, LockOSThread, SetConfig, SetTid, SetHandler, StopsTheWorld,
       SetRecoveryState, WrapperReturns, ClearRecoveryState, StartsTheWorld, ResetTid,
       ResetHandler, ClearConfig, UnlockMu, UnlockOSThread, LockMu, StackMoves, Migrate, Steps,
       Sets, WorldBecomes

LEMMA RpcStep == FetcherTypeOK /\ StwTypeOK /\ RpcOK /\ [Next]_vars => RpcOK'
<1> SUFFICES ASSUME FetcherTypeOK, StwTypeOK, RpcOK, [Next]_vars PROVE RpcOK'
  OBVIOUS
<1> USE ServiceAssumption DEF RpcOK, RpcPhases, Goes, At
<1>1. CASE UNCHANGED vars
  BY <1>1 DEF vars, fetcherVars, stwVars
<1>2. ASSUME NEW r \in Callers,
             \/ (\E first \in RpcPhases : Serve(r, first)) \/ ClientLeaves(r)
             \/ RecvSnapshot(r) \/ SendChunk(r) \/ RecvFails(r)
             \/ SendHeader(r) \/ Rejected(r) \/ NoGoroutines(r) \/ Finish(r) \/ SendOutput(r)
             \/ ComputeHash(r) \/ (\E res \in {"known", "failed"} : HashDone(r, res))
             \/ HashRead(r) \/ SendUpdate(r) \/ UpdateSent(r) \/ SendInfo(r) \/ Disconnected(r)
             \/ FileDone(r) \/ Events(r)
      PROVE  RpcOK'
  BY <1>2
  DEF Serve, ClientLeaves, RecvSnapshot, SendChunk, RecvFails, SendHeader, Rejected, NoGoroutines,
      Finish, SendOutput, ComputeHash, HashDone, HashRead, SendUpdate, UpdateSent, SendInfo,
      Disconnected, FileDone, Events, Calls, Local, fetcherVars, stwVars
<1>3. ASSUME NEW r \in Callers, NEW k \in Keys, RecvSetup(r, k)
      PROVE  RpcOK'
  BY <1>3 DEF RecvSetup, CallFetch, Moves, FetcherTypeOK, stwVars
<1>4. ASSUME NEW r \in Callers, FetchSteps(r) \/ RemoteSteps(r)
      PROVE  RpcOK'
  BY <1>4, FetchStaysInside DEF FetchSteps, RemoteSteps, stwVars
<1>5. ASSUME NEW r \in Callers, Fetched(r)
      PROVE  RpcOK'
  BY <1>5 DEF Fetched, FetchReturned, Moves, FetcherTypeOK, stwVars
<1>6. ASSUME NEW r \in Callers, NEW t \in Threads, StopWorld(r, t)
      PROVE  RpcOK'
  BY <1>6 DEF StopWorld, CallStop, Steps, StwTypeOK, fetcherVars
<1>7. ASSUME NEW r \in Callers, StopSteps(r) \/ StopMoves(r) \/ StopLocks(r)
      PROVE  RpcOK'
  BY <1>7, StopStaysInside DEF StopSteps, StopMoves, StopLocks, fetcherVars
<1>8. ASSUME NEW r \in Callers, WorldStarted(r)
      PROVE  RpcOK'
  BY <1>8 DEF WorldStarted, StopReturned, Steps, StwTypeOK, fetcherVars
<1> QED
  BY <1>1, <1>2, <1>3, <1>4, <1>5, <1>6, <1>7, <1>8 DEF Next, Handler, Waits

\* Type correctness of the service: each handler of server.go stands in one place, and the
\* components it calls agree.
THEOREM ServiceTypeCorrect == SafeSpec => []TypeOK
<1>1. Init => RpcOK
  BY ServiceAssumption DEF Init, RpcOK, RpcPhases, FetcherInit, StwInit
<1>2. FetcherIInv => FetcherTypeOK
  BY DEF FetcherIInv
<1>3. StwIInv => StwTypeOK
  BY DEF StwIInv
<1>4. FetcherTypeOK /\ StwTypeOK /\ RpcOK => TypeOK
  BY DEF RpcOK, TypeOK
<1> QED
  BY <1>1, <1>2, <1>3, <1>4, RpcStep, ServiceComposes, FetcherAlwaysIInv, StwAlwaysIInv, PTL
  DEF SafeSpec
=============================================================================

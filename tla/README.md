# side-eye-go: specifications and proofs

side-eye-go is a library that a Go program links in order to be observed by the
Side-Eye service. The program dials the service, serves gRPC over the dialed
connection, and on request stops its own world, writes the stacks and the data of
all goroutines to a buffer, or streams an execution trace. This directory holds
TLA+ models of that code, the TLC configurations that check them, and proofs.
Paths below are relative to the repository.

## 1. Inventory

| Part | Source | State | Operations | Here |
|---|---|---|---|---|
| Dialing listener | `internal/serverdial` | goroutine `run()`, `dialChan`, `dialingCtx`, `done`, `mu.status`, per connection `closeOnce`/`onClose` | `NewListener`, `run`, `Accept`, `wrappedConn.Close`, `Close` | `Listener`, `AbstractListener`, `ListenerProofs` |
| Connection | `internal/sideeyeconn` | `mu` {listener, grpcServer, grpcConn}, `wg` | `Connect`, `Close`, `closeInner`, `Status`, the serving goroutine | `SideEyeConn`, `CallerProofs` |
| HTTP page | `sideeye/http_handler.go` | `h.config`, `ActiveConfig` | GET, POST (stop, stop and init) | `HttpPage`, `CallerProofs` |
| Public API, API client | `sideeye`, `internal/apiclient`, `sideeyeclient` | the singleton connection, a gRPC client | `Init`, `Stop`, `CaptureSelfSnapshot`, `CaptureSnapshot`, `DeleteRecording` | `SelfSnapshot`, `CallerProofs` |
| Capture RPC | `internal/server/server.go` | errgroup context, pipe, `errCh`, `stop`; process-wide CPU profiler and tracer | `Capture`, `runCpuProfile`, `runExecutionTrace` | `Capture`, `CaptureProofs` |
| Other RPCs | `internal/server/server.go` | the binary hash (once) | `Snapshot`, `WatchProcesses`, `MachinaInfo`, `GetExecutable`, `Events` | `SnapshotService`, `SnapshotServiceProofs` |
| Program fetcher | `internal/server/fetcher.go` | cache of two, singleflight group | `FetchSnapshotProgram` | `Fetcher`, `SnapshotServiceProofs` |
| Stop the world | `internal/stoptheworld` | `signalState`, the process's signal action | `StopTheWorld`, `Dereference`, the two signal handlers | `StopTheWorld`, `StopTheWorldProofs` |
| Snapshotter | `internal/snapshot`: `snapshot.go`, `out_buf.go`, `queue.go`, `internal/framing` | output buffer, pointer queue, map of stacks | `Snapshot`, `snapshotGoroutine`, `processQueue` | `SnapshotRun`, `OutBuf`, `SnapshotRunProofs`, `SnapshotTypeProofs` |
| Stack machine | `internal/snapshot/stack_machine.go`, `internal/stackmachine` | value stack, pc, offset, expression | one per opcode | `StackMachine`, `OpDecoder`, `SnapshotRunProofs`, `SnapshotTypeProofs` |
| Unwinder, goroutine iterator | `internal/snapshot/unwinder*.go`, `internal/allgs`, `internal/moduledata` | none of their own | walks over memory | operators in `SnapshotRun` |
| FIFO queue | `internal/fifo` | linked list of rings, free list | `PushBack`, `PeekFront`, `PopFront` | `FifoQueue`, `AbstractFifo`, `FifoQueueProofs` |
| Boot time, generated protocol code, tools | | none | | section 6 |

How they interact. `sideeye.Init`/`Stop`, `CaptureSelfSnapshot` and the HTTP handler
call a `SideEyeConn`. `Connect` creates a `Listener`, a gRPC server and a goroutine
in `Serve(listener)`; `Close` calls `grpcServer.Stop()`, which closes the listener and
the connections it handed out; closing a connection tells the listener's `run()` to
dial again. RPC handlers run on gRPC's goroutines: `Snapshot` fetches a program,
stops the world and runs the snapshotter, which feeds the stack machine from the
FIFO queue; `Capture` runs two to four goroutines that share process-wide
facilities.

What is hard, and what makes each part correct:

* **Listener**: rendezvous on unbuffered channels, cancellation, two closers of one
  connection. It must hold at most one connection, redial, and stop when told.
* **SideEyeConn**: a mutex held while other goroutines are waited for, a goroutine
  that closes "the" connection without knowing whether it is still its own, fields
  written outside the mutex. A Close must end everything that was started.
* **HTTP page**: requests at the same time over one connection. Each must be answered.
* **CaptureSelfSnapshot**: what is deferred depends on how far it came. It must give
  back what it took, and return when its context is done.
* **Capture**: three-way select, deferred calls, a pipe between a tracer that cannot
  be interrupted and a reader that can fail. Profiler and tracer must be released
  exactly by whoever started them; the completion message must mean completeness.
* **Fetcher**: a fetch runs with the context of whoever came first. The others should not
  fail with that call's cancellation, and the cache must keep its bound.
* **StopTheWorld**: six pieces of process-wide state set one after the other and taken
  back by deferred calls, with faults of this and of other threads in between.
* **Snapshotter and stack machine**: a buffer that may be full at any record, memory
  that cannot be read, scratch space at the end of the buffer, registers that survive
  from one run to the next. What is delivered must be parseable, without
  duplicates, and contain what was queued.
* **FIFO queue**: ring arithmetic, node reuse.

The hazards of the code, each at its line and with the properties that watch it,
are listed under `hazards` in `PROJECT.json`.

## 2. Modules

Which module extends or instantiates which:

    AbstractListener <- Listener (implements it)         AbstractFifo <- FifoQueue (implements it)
                     <- SideEyeConn (one copy a session)
    SideEyeConn <- HttpPage, SelfSnapshot                Fetcher, StopTheWorld <- SnapshotService
    OpDecoder, OutBuf <- StackMachine <- SnapshotRun     Capture
    X <- XProofs                                         X <- MCX (what TLC runs)
    HttpPage, SelfSnapshot <- CallerProofs               Fetcher <- SnapshotServiceProofs
    SnapshotRunProofs <- SnapshotTypeProofs

### AbstractListener, Listener

`AbstractListener` is what a listener promises its owner: it is *connecting*,
*offering* a connection, *serving* one, *leaving* or *stopped*; cancelled by `Close`,
it leaves by itself, unless it is offering.

`Listener` has one action per step between two points where another goroutine may
act. `runPc` is the position in `run()`; `cur` its local `conn`; `recent` stands for
`time.Since(lastDial) < dialInterval`; `tcp` is the state of the sockets; `accepted`,
`entered` and `onClose` are, per wrapped connection, returned by `Accept`, past
`closeOnce`, and with its channel closed. The send on `dialChan` and the receive in
`Accept` are one action (`Deliver`), as the channel is unbuffered. The deferred calls
of the goroutine are the last two actions. A member of `Conns` that is closed and
that nobody is closing may stand for a new connection, so that a behaviour may redial
without end. Environment: `CallAccept` is gRPC's Serve loop, `ConnClose`/`ConnSignal`
its transports.

### SideEyeConn

One *session* per `Connect`: its listener (`lis`, `cancelled`, `closer`: the
variables of an `AbstractListener`), its gRPC server (`stop`) and its goroutine
(`gpc`). `pc` is where each caller stands in `Connect`, `Close` or `Status`; the two
critical sections of `Connect` and those of `closeInner` are separate actions, and
the lock is held across `Stop()`, which is split into its phases (`InnerStops`,
`StopClosedListener`, `InnerReturns`). `grpc.Server` is external and follows grpc
1.56.3, the version of `go.mod`: `Stop` closes registered listeners, waits for the
Serve loop's current accept, closes connections; `Serve` on a stopped server closes
its listener; a Serve loop that sees the quit event waits for `done`. `c.wg` is read
and written without the lock; the race is modelled as an interleaving of whole
reads and writes of the pointer. A session whose artifacts client could not be created
never gets a goroutine (`gpc` is "never"); its listener is an `Orphan`.

`Lis(s)` instantiates `AbstractListener` for each session; `ListenersAbstract` says
that `SideEyeConn` only makes moves the abstract listener has, and
`Listener!ImplementsAbstract` that the real listener is one.

### HttpPage, SelfSnapshot

Both extend `SideEyeConn` by who calls it. In `HttpPage` a caller serves one HTTP request
after the other, and the callers run at the same time: a POST that connects is
`StopConn`, `InitConn`, `Polled` (the loop that looks at the status until it is no longer
Connecting) and `Render`. Between two of these the caller is inside `Connect` or `Close`
of `SideEyeConn`, whose steps are those of `CloseSteps`, `ConnectSteps` and `CloseInner`.
`SelfSnapshot` is one goroutine that calls `Init`, `Stop` and `CaptureSelfSnapshot` in any
order: connect, make a client, ask, and the deferred calls in reverse order from
wherever the first error was; it may also use a `SideEyeClient` of its own. `Translated`
is the translation of the service's error details.

### Capture

Per RPC: the goroutine of `runExecutionTrace` (`main`), the reader of the pipe (`rd`),
the tracer's goroutine (`tr`, external), the goroutine of `runCpuProfile` (`cpu`),
the errgroup's context, the client (`broken`: its stream no longer accepts messages).
`cpuOwner` and `traceOwner` are the process-wide facilities, `traceLock` the lock that
`trace.Stop` holds while it waits for the tracer's last batch. `trace.Start` on a
running trace fails; on one that is being stopped it waits. Data are reduced to
whether a chunk is pending (`have`) and whether a batch was lost (`lost`).

### Fetcher, StopTheWorld, SnapshotService

`Fetcher` is `FetchSnapshotProgram` with one action per step of the closure that
`singleflight.Do` runs for the first caller of a key (`Lead`); others wait (`Join`), hear
its answer (`EndFlight`) and look at it (`Wake`). Errors are of three kinds, because the
code distinguishes them: a context error, the gRPC status error that a cancelled remote
call really returns, and any other.

`StopTheWorld` has one action per statement of `StopTheWorld` and its deferred calls;
`state` is the package's `signalState`. A fault is not an action: `Outcome(os, sig, t,
where)` is what the handler of either platform would do with one, in the current state,
of thread `t` at a place of the code, by the walk over frame pointers (`InDereference`)
and the recovery state. The stack of the goroutine that runs `f` may be moved
(`StackMoves`).

`SnapshotService` extends both and adds, per stream, where the handler stands (`rpc`).
Every step of a handler asks `MayRun`: while one has stopped the world no other Go code
runs. `ctx` ends when the client leaves; calls on the stream fail then.

### OpDecoder, OutBuf, StackMachine, SnapshotRun

`OpDecoder` decodes the instruction at each place of a program, misaligned or not, by a
table of opcodes, operands and widths. `OutBuf` is the output buffer with real offsets,
lengths, padding and capacity; a value sits at the offset of its first byte, so that what
is compared is where a value is and which record leads there, not its bytes. `mem` says
what is at each address and which ranges can be read. `StackMachine` has one action per
opcode; `m` holds the registers, `m.on` whether a program runs, and `cut` that a program
was stopped by the step limit. `SnapshotRun` has the steps of `Snapshot` around it: the
header, each goroutine (`SkipGoroutine`, `BeginGoroutine`, `RunFrame` per frame of
interest, `EndGoroutine` with the truncation of one that did not fit), then the
queue (`PopEntry`). The unwinder is the functions `FrameChain`, `Pcs`, `CfasAmd64` and
`CfasArm64`; `Classified` is the search for a program counter.

The world is stopped, so nothing is concurrent here: what is nondeterministic is the
program, the memory and the size of the buffer, chosen in `Init`.

### FifoQueue, AbstractFifo

Pointers are members of `Nodes`, `Nil` is nil; garbage nodes may be returned by `new`.
`get` and `put` are modelled as the code has them, including the order of the two
assignments in `get`. The refinement mapping concatenates the contents of the rings
along the list.

### Mutants

Each module holds, next to some definitions, a variant of it with a plausible bug,
marked `Mutant:`. They are not part of any specification; they are there to see that
each property notices something (`mutants` in `PROJECT.json`).

## 3. Runs

| Configuration | Expected | Bounds | Distinct states | What it shows |
|---|---|---|---|---|
| `Listener_two` | pass | 2 connections, 2 users, 2 closers | 4,169 | at most one open socket, no double close, honest status, silence after Close; redialing, Accept and Close return; implements `AbstractListener` with its fairness |
| `Listener_hang` | violation | 1 of each | | Close may wait for ever (finding 1) |
| `SideEyeConn_sequential` | pass | 1 caller, 3 sessions, Connects that fail | 109,725 | one session at a time, Close ends every session whose Connect succeeded, `CaptureSelfSnapshot` returns and releases what it took; each session is an `AbstractListener` |
| `HttpPage_requests` | pass | 2 requests at a time, 2 sessions, Connects that fail | 192,232 | a session is stopped once, a request panics only in a race with another's Connect, `mu` is released, requests are answered but for three named kinds |
| `SideEyeConn_unowned` | violation | 2 callers, 2 sessions | | finding 2 |
| `Capture_two` | pass | 2 RPCs | 274,267 | ownership of profiler and tracer, no leaked reader, complete means whole; Capture returns unless a reader abandoned an open pipe |
| `Capture_errch` | violation | 1 RPC | | finding 4 |
| `SnapshotService_two` | pass | 2 streams, 2 programs, a cache of 1, 2 threads | 447,888 | the cache keeps its bound, world and handler are restored, faults go where they should, another's cancellation is passed on only as a status error, an abandoned RPC returns |
| `SnapshotService_status` | violation | 2 streams, 1 program, 1 thread | | finding 3 |
| `SnapshotRun_bytes` | pass | 7 programs, 11 memories, 52 sizes of buffer, 5 goroutines | 238,177 | the snapshot can be parsed, has every queued object and stack, each object once; no program disturbs what others wrote; a full buffer stays final |
| `SnapshotRun_header` | violation | the same | | finding 5 |
| `FifoQueue_refine` | pass | nodes of 2 elements, 4 nodes, length 5 | 3,473 | a queue |

Why the bounds are enough. Two connections let a new one be dialed while the old one
is still inside its Close. Two users are the two goroutines of
gRPC that race to close a connection. Three sessions let a goroutine that is late by
two generations meet the newest one; a bound on sessions is a bound on the number of
calls of Connect, the only unbounded counter of that model. Two requests at a time
suffice for a Close to meet another's Connect at each of its steps. Two Captures are
what it takes for one to find the profiler or the tracer taken, and to fail, while the
other is at any of its steps. Two streams share a fetch, or fetch two programs of which
one evicts the other from a cache of one (`maxCapacity` is two); two threads are the one
that stopped the world and another that faults. Five elements in rings of two fill two
nodes, wrap in them and leave one empty; `queueNodeSize` is 128 in the code and enters
only through `len = queueNodeSize` and the modulus.

`SnapshotRun` is run on one program text that has every instruction and routines for
frames, pointers, slices, strings, interfaces, both kinds of maps, subroutines and Go
contexts, with seven variants of static variables and configuration; on memories in
which each region in turn cannot be read, one of arm64, one with another slice length
and one with an unknown subroutine; and on buffers of 40 to 1256 bytes, in steps
that are no multiple of a record, so that each record is the one that does not fit in
some run, and none is in others. The five goroutines are two that share a stack, one
that runs, one that is dead and one without a frame. `MaxSteps` is 30 where the
code has 100000, so that a program is also cut off; `MaxStackFrames` is 3 where it has
512, so that a stack is also too deep. Numbers stay below 2^31; the four-byte type with its
mark is kept in 32 bits (`Marked`). The hash of a stack is an operator of the run, and
differs for the stacks of the run.

`CHECK_DEADLOCK FALSE` is set where the system really stops: after Close, when all
RPCs or the snapshot are over, or when the bound on sessions is used up.

Type invariants are stated in every module. Those of `Listener`, `Capture`,
`SideEyeConn`, `Fetcher`, `StopTheWorld` and `SnapshotService` are theorems
(section 5), so no run repeats them. That of `SnapshotRun`, also a theorem, is checked as
well: it bounds a length and a program counter that are computed from the bytes of the
program.

### Fairness

* `Listener`: goroutines that can run do (weak fairness per action). A dial ends
  when its context is cancelled, and is not otherwise known to end; nobody has to close
  anything. A `select` with several ready cases chooses uniformly at random, so a case
  that is ready again and again is taken: strong fairness of the cancellation cases and
  of the delivery. Strong fairness of `Deliver` is also what the arrival of `Accept`,
  which Serve calls in a loop, justifies.
* `SideEyeConn`, `HttpPage`, `SelfSnapshot`: strong fairness of the goroutines that need
  `mu`: `sync.Mutex` is fair in starvation mode, a goroutine that waits gets it. Nobody
  has to call, and dialing need not succeed. `CaptureSelfSnapshot` has a context
  with a deadline, so the service's answer, or an error in its place, comes.
* `Capture`: each goroutine runs when it can, time passes, a client that stays reads
  what it is sent.
* `SnapshotService`: a handler that may run runs in the end, although others stop the
  world again and again; a call on a stream or on the artifact store returns once its
  context is done, and is not known to return before.

## 4. Findings

1. `Listener_hang`: `run()` sends on `dialChan` without looking at its context; a
   connection established while the Serve loop leaves blocks it, and `Close`, for ever.
   `SideEyeConn` holds `mu` in that state. (This is the `Stuck` that liveness
   properties of `SideEyeConn` except.)
2. `SideEyeConn_unowned`: of two concurrent Connects both publish, and the session
   published first goes on unowned.
3. `SnapshotService_status`: a call that shares a fetch retries when the one that fetches
   was cancelled, but looks for the cancellation with `errors.Is`, which does not see
   through the gRPC status error that a cancelled remote call fails with. A Snapshot fails
   because the client of another one has left.
4. `Capture_errch`: `trace.Stop`, the tracer and a reader whose Send failed wait for
   each other.
5. `SnapshotRun_header`: `writeQueueEntry` goes on after its reservation failed and
   writes over the snapshot header.

Each is stated in `PROJECT.json` with the comment it contradicts. The properties that
pass name what they except: `SingleLive`, `CloseEndsConnected` and `SelfReleased` the
listener of a Connect whose artifacts client failed, `PanicOnlyRacing` a panic that takes
another caller's Connect, `SharedFailures` the status error of finding 3;
`TraceReleased` a Capture whose first message cannot be
sent, which returns before `stop` is registered and leaves the trace running;
`RequestsAnswered` a request that panics because it saw a session before its wait group
(`c.wg` is set after `mu` is released), one stuck behind finding 1, and one whose Close
found the wait group of a session that another request made in the meantime and waits
until that one is stopped (`Overtaken`); `RpcReturns` a caller that shares the fetch of a
client that is still there.

Two more flaws have no run of their own, because those properties name them:

* `Connect` returns on an error of `newArtifactsClient` and leaves a listener that dials for
  ever (`Orphan`). It violates `NothingUnowned` as well: with one caller, that invariant
  fails when `ClientMayFail` is TRUE, and holds when it is FALSE.
* `Connect` publishes the session and stores `c.wg` after it has released `mu`. A `Close` of
  another goroutine in between waits on a nil wait group, and panics.

Smaller observations, which contradict nothing that is written or change nothing that is
checked:

* With two callers, the goroutine of an old session may close a new one:
  `GoroutineStopsOwn` holds for one caller.
* `freeList.get` clears `qn.next` before it assigns `f.head = qn.next`, so of the free
  nodes it keeps none: `PushIntoNew` sets `free` to `Nil`.
* The frames of interest are taken from the end of a list that starts at the leaf, so
  they run from the root, where the comment above the loop says "from leaf to the root".
* The retry of the fetcher goes back to `Do`, not to the cache.
* An error of the binary hash stays for the life of the server.
* `ShouldRecord` recognises an object by address and type, so a longer slice over the
  same array is dropped when a shorter one came first; closures of unknown subroutines
  are written each time.
* `PrepareExprEval` writes eight bytes beyond the end without asking for room
  (`WritesInBuffer` excepts it), a program goes on after it filled the buffer until an
  instruction notices, and the step limit cuts large arrays off.
* The walk of a goroutine without a frame pointer leaves its program counter absolute.
* The frames of interest are remembered by the hash of the stack. Two stacks of one hash, the
  second of them shorter, make `snapshotGoroutine` index beyond the second: `RunFrame` ends
  in a panic then, which the run's stacks do not reach.
* The darwin handler hands every signal to the previous handler of SIGSEGV, also SIGBUS, and does not
  look at the thread.
* `WithApiTokenFromEnv` says that the constructor returns an error; it is dropped.
  `ProcessMissingError` is returned although the documentation lists four errors.
* The page reads the status four times while it is rendered, and a status "Unknown"
  just after Init ends the poll at once.

## 5. Proofs

`ListenerProofs` proves, for every set of connections, users and closers:

| Theorem | States |
|---|---|
| `TypeCorrect` | `SafeSpec => []TypeOK` |
| `AtMostOne` | `SafeSpec => []AtMostOneConnection` |
| `CloseOnce` | `SafeSpec => []NoDoubleClose` |
| `StatusHonest` | `SafeSpec => []ConnectedMeansHeld` |
| `QuietForEver` | `SafeSpec => QuietAfterClose` |
| `Implements` | `SafeSpec => Abs!SafeSpec` |

Assumptions: `ListenerAssumption` (the placeholder `NoConn` is not a connection; there
are connections and closers), checked by TLC in every run of the module.

Argument. None of the properties is inductive. `IInv` adds what the code relies on:
where `run()` holds a connection and which one; that a socket is open only if it is the
one `run()` holds, or `run()` has left for good; that `onClose` is closed only after the
socket; that a user is inside a connection's Close only if it took its `closeOnce`, and
alone; which status goes with which position of `run()`; that leaving requires a
cancellation; and that `done`, and so a returned Close, means `run()` is finished with
the status Disconnected. `InitIInv` and `NextIInv` (one step per action) make it
inductive, each theorem follows from it, and `FinishedIsSilent` and `StepImplements` are
the step lemmas of the last two.

`CaptureProofs` proves, for every set of concurrent RPCs:

| Theorem | States |
|---|---|
| `CaptureTypeCorrect` | `SafeSpec => []TypeOK` |
| `ProfileKept` | `SafeSpec => []ProfileHeld` |
| `ProfileStopped` | `SafeSpec => []ProfileReleased` |
| `TraceStopped` | `SafeSpec => []TraceReleased` |
| `NoReaderLeaked` | `SafeSpec => []ReaderGone` |
| `WholeTrace` | `SafeSpec => []CompleteIsWhole` |

Assumption: `CaptureAssumption` (`NoRpc` is not an RPC). Argument: the owner of each
process-wide facility is a function of program counters. `HoldsCpu(r)` and
`HoldsTrace(r)` say where an RPC stands when it has started the profile or the trace and
has yet to stop it; `CpuOK` and `TraceOK` make them equivalent to ownership, so that a
return, where neither holds, leaves nothing running. The one exception is the ghost
`helloFailed`, the path that section 4 describes. `PipeOK` orders the end of a trace: the pipe is closed
without an error only after the tracer's last batch, and nothing is lost before.

`CallerProofs` proves of the connection, for every set of sessions:

| Theorem | States | Callers |
|---|---|---|
| `ConnTypeCorrect` | `SafeSpec => []TypeOK` | any |
| `StoppedOnce` | `SafeSpec => []PublishedNotStopped` | any |
| `PanicRaces` | `SafeSpec => PanicOnlyRacing` | any |
| `OneLives` | `SafeSpec => []SingleLive` | one |
| `OwnStopped` | `SafeSpec => []GoroutineStopsOwn` | one |
| `CloseEndsAll` | `SafeSpec => CloseEndsConnected` | one |
| `DrivesListeners` | `SafeSpec => ListenersAbstract` | one |

Assumption: `SideEyeConnAssumption` (the placeholders and the two sorts of actors are
distinct); for the last four also `OneCaller` (at most one caller), a hypothesis of each
theorem: finding 2 is what happens without it. Each error return of Connect is covered; the
listener that one of them leaves is the exception that the properties name. Argument: `BuildOK` says that a Connect works on a session of its own, which
nobody has published or stopped; `UnusedOK` that a session has no trace before it is
created; `HolderOK` that who is inside `Stop()` finds a published session. `RaceOK`
says that while no wait group is stored, and a session is published or has been seen by a
caller that closes, some caller is between the publication and the store ("spawn"): so who
finds the pointer nil does so during another's Connect. With one
caller, `SeqInv` adds that a session whose goroutine is there is the one `c.wg` points to
(`WgOK`), that nothing is published and every goroutine has ended while Connect builds
the next one (`PlaceOK`), that a listener without a goroutine is being built
(`OwnedOK`), and how far a session is torn down at each step of its goroutine (`TornOK`,
`QuietOK`): the goroutine ends only after its listener and its connection have. So who
waits for the goroutine waits for all of it. For `DrivesListeners`, `NextListenerStep` lists
what a step may do to a session's listener and `ListenerStepAbstract` finds each among the
steps of `AbstractListener`; with `Implements` it closes the circle: the listener
implements what the connection relies on.

and that its two users take only steps that `SideEyeConn` allows, so what is proved of it
holds of them:

| Theorem | States | Callers |
|---|---|---|
| `PageUsesConnection` | `PageSpec => SafeSpec` | any |
| `PageStopsOnce` | `PageSpec => []PublishedNotStopped` | any |
| `PagePanicRaces` | `PageSpec => PanicOnlyRacing` | any |
| `SelfUsesConnection` | `SelfSpec => SafeSpec` | any |
| `SelfOneLives` | `SelfSpec => []SingleLive` | one |
| `SelfReleasesAll` | `SelfSpec => SelfReleased` | one |

`SelfReleasesAll` needs `SelfOK`: an API client is open only between two named steps, and
a `CaptureSelfSnapshot` that is about to return has an idle connection with nothing
published; then `IdleIsClean` gives the rest.

`StopTheWorldProofs` and `SnapshotServiceProofs` prove, for every set of streams, programs
and threads and every capacity:

| Theorem | States |
|---|---|
| `CacheWithinCapacity` | `FetcherSpec => []CacheBounded` |
| `SharedOnlyByStatus` | `FetcherSpec => SharedFailures` |
| `AllRestored` | `StwSpec => []WorldRestored` |
| `FaultsHandled` | `StwSpec => []FaultsContained` |
| `ServiceComposes` | `SafeSpec => FetcherSpec /\ StwSpec` |
| `ServiceCacheBounded`, `ServiceRestoresWorld`, `ServiceContainsFaults`, `ServiceSharedOnlyByStatus` | the invariants of the parts, and `SharedFailures`, under `SafeSpec` |
| `ServiceTypeCorrect` | `SafeSpec => []TypeOK` |

Assumptions: `FetcherAssumption` (placeholders, a positive capacity),
`StopTheWorldAssumption` (a placeholder), `ServiceAssumption` (a stream's handler is the
goroutine that stops the world). Argument: `FlightOK` and `FetchOK` tie a flight to the
one call that fetches, so that a cancellation at its end, in either form, is about its own
context (`AnswerOK`); `WokenBy` and `ReturnsWith` are the two steps that pass it on; the bound is arithmetic on cardinalities. In `StopTheWorld` each piece of
state is set exactly on an interval of the phases of whoever holds `state.mu`
(`WithMu`, `WithConfig`, ...); the intervals are nested because deferred calls
run in reverse order, and all are empty when the mutex is free. `ServiceComposes` is
refinement by the identity: each step of a handler is a step of the part it calls, or
leaves it alone, and the invariants of the parts follow for the whole.

`FifoQueueProofs` proves, for every size of node, every finite heap and every set of
elements:

| Theorem | States |
|---|---|
| `FifoInvariant` | `Spec => []FifoIInv` |
| `FifoDisjoint` | `Spec => []ListsDisjoint` |
| `FifoIsFifo` | `Spec => IsFifo` (every step is one of `AbstractFifo`, or leaves its queue as it is) |

Assumption: `FifoAssumption` (nodes hold at least one element, nil is not a node, the heap
is finite). Argument: `FifoIInv` says that the list in use and the free list are sequences
of distinct nodes, disjoint, each leading to the next and the last to nil; that all but the
last node in use are filled to the end of their ring, and `tail` is that last one; that
each `head` index and `len` are within the ring; and that `len` of the queue is what its
nodes hold. `ListsDisjoint` alone is not inductive: that a node taken from the free list
is in no other place needs the distinctness of both lists. The free list has at most the
node that was emptied last and what was free before, because `get` drops the rest. For the
refinement, pushing into the tail, pushing into a node put behind it and popping from
the first node are each shown to append to, or take the first of, what the rings hold in
the order of the list.

`Chain` and `Joined` are recursive functions, and the library's induction theorems take an
operator. The proofs use induction over a *set* of numbers instead (`NatInductionSet`, from
the well-foundedness of < by `WFMin`), and give a solution of each recursive equation, so
that the function CHOOSE picks satisfies it.

`SnapshotRunProofs` and `SnapshotTypeProofs` prove, for every memory, every sequence of
goroutines and every size of the buffer:

| Theorem | States | Programs |
|---|---|---|
| `FullIsForGood` | `Spec => FullStays`, the first half of `FullIsFinal` | any |
| `QueuedOnce` | `Spec => []Distinct /\ NeverAgain` | any |
| `SnapshotTypes` | `Spec => []TypeOK` | any |
| `BalancedRunsIsolated` | `Spec => []RunsIsolated` | balanced |
| `PreparedFullIsFinal` | `Spec /\ []~cut => FullIsFinal` | balanced and prepared |

Assumptions: `ProgramAssumption` (the messages a program is made of have their types),
`MachineAssumption`, `MemoryAssumption`, `ProcessAssumption` and `HashAssumption`
(addresses, words, bounds and hashes are numbers). TLC checks all of them in the runs of
`SnapshotRun`. A program is any sequence of bytes, so an instruction may be misaligned,
unknown or cut off by the end.

* `QueuedOnce` is the part of `NoDuplicates` and `ObjectsPresent` that does not depend on
  what a program does: the queue never holds an object twice, one that was taken out never
  comes back, and nothing that was seen is forgotten. `IsQueue` is inductive: what is in
  the queue was seen, and each once. `StaticsGrow` is by induction over the static
  variables.
* `SnapshotTypes`: `TypeOK` says that the buffer's length is within its capacity, the
  program counter within the program and the number of steps within its limit, and it is
  far from inductive. The length depends on registers (`resultsEnd`, the end of a walk) to
  which the buffer is cut off, and those on operands, on words read from memory, and on
  words read back from the buffer at offsets that are any number. `TypesIInv` says that all
  of these are numbers and where those two registers lie (`NumBuf`, `NumMachine`,
  `NumQueue`, `NumSnapshot`), and that no walk goes on when no program runs (`WalkEnded`).
  Three groups of lemmas carry it: `DecodeIs`, that any bytes decode to operands of the
  right kinds (`OpComplete` goes through the table of opcodes); those on `Extends`, that
  the operations of the buffer keep it one of numbers, no longer than its capacity; and
  one for each kind of instruction, that it leaves the machine in its ranges and the
  buffer no shorter than it was, or than the register to which it was cut off (`Stepped`,
  `Resized`, `Places`). The walk over frame pointers is a recursive function,
  so `FrameChainIs` gives a solution of it first.
* `BalancedRunsIsolated`: `Run` does not reset the value stack, so that each run starts
  with what the one before left, and a return pops whatever is on top. `Balanced(p, depth,
  called)` is what a compiler must see to: at each place of the program a fixed number of
  values is above the return address, jumps and calls agree about it, a return finds none.
  The theorem's hypothesis is that each program has such `depth` and `called`; without it
  the property is false (a program that is one `PushImm` and a `Return` leaves the code).
  The invariant, `RunsIInv`, describes the stack as frames: below each return address is
  what its caller had pushed, as many values as the caller's place says, down to a run's
  entry with none (`Stacked`). A run that ends early because the buffer is full leaves its
  values, but then no other run starts (`Halted`). What remains is a run that the step
  limit stopped, or an error, after which the property claims nothing (`Spoiled`).
  `StackedCall` and `StackedReturn` are the steps that add and remove a frame.
* `PreparedFullIsFinal`: `truncate` gives room back although the buffer is full, to
  `resultsEnd`, which survives from one run to the next. A program that saves a result
  before it has prepared an expression would cut off goroutines written long before, so
  the theorem is about programs that are *prepared* as well: every way to a
  `SaveExprResult` or a `DereferencePtr` leads through a `PrepareExprEval` of the same
  subroutine (`Prepared(p, depth, places)`; these are the places behind one). The invariant,
  `FinalIInv`, adds to `TypesIInv` and to the track of the stack that while a goroutine is
  written the buffer, and the registers to which it may be cut off, do not lie before the
  goroutine's header (`ResultsIn`). That they are only set to the end of the buffer
  is `PlacesEntered` and the clauses of `Places`. `[]~cut` is needed for the same reason as
  the exception of `RunsIsolated`: after a run that the step limit stopped, the next one
  may return into the middle of that one's expressions. TLC checks `FullIsFinal` also with
  such runs.

`MCSnapshotRun` computes `depth`, `called` and `places` for its programs, and TLC evaluates
`BalancedAssumption`, which says that they satisfy the hypotheses of both theorems.

Only model-checked, and why:

* All liveness: `Redials`, `AcceptUnblocks`, `CloseReturnsUnlessOffering`, `LockReleased`,
  `RequestsAnswered`, `SelfReturns`, `CaptureReturns`, `RpcReturns` and the fairness part
  of `ImplementsAbstract` need reasoning about ENABLED that the prover does not have.
* `SnapshotRun`'s `Parsable`, `ObjectsPresent`, `StacksPresent`, `NoDuplicates`,
  `EarlierIntact` and `WritesInBuffer`: they depend on what the instructions of a program
  write where. A program may set its offset to any value that it finds on its stack, so
  they hold of the programs a sensible compiler makes and not of every one; what such a
  program does with offsets is not a condition on its places alone, as `Balanced` and
  `Prepared` are. The first four also follow lengths from record to record, which are
  recursive functions over the data.

## 6. Not modelled, and why

* Boot time: one system call a platform, no state; no supported build can see it fail.
* Generated code (`*.pb.go`): getters, descriptors and reflection, without logic. The
  messages that the code reads are modelled as far as it reads them.
* Configuration, address parsing and options, logging, the text of the page and which
  configuration it shows (`h.config` and `ActiveConfig` are written without a lock and
  decide only that).
* The bytes of a value, and murmur2: a value is at one offset, a hash is an operator.
* Saving and restoring of registers in the signal handlers, `moduledata` and the offsets
  of the fields of a `g`: what they yield is a constant or read directly.
* `CaptureSelfSnapshot` while the program's other connection is open: the two do not
  share anything in this repository.
* The race detector's view of `c.wg`: reads and writes of a pointer are atomic here.
* The repository's tools, tests and examples.

## 7. Plan

What would add most from here, in this order:

1. `EarlierIntact`, for programs of which each value on the stack has a kind, an offset
   into the run's own part of the buffer or a number, and in which a subroutine says
   whether its caller's offset is still one when it returns. `Stacked` would carry the
   kinds beside the number of values. Then `StacksPresent` and the part of `Parsable` that
   is about goroutines: their records stay as they were written.
2. `CaptureSelfSnapshot` with two connections at once, for which `SideEyeConn` would be
   instantiated twice.

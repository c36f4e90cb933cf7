\* SnapshotService: two streams, two programs, room for one, two threads.
SPECIFICATION Spec
CONSTANTS
  Callers = {r1, r2}
  Snapshotters = {r1, r2}
  Keys = {p1, p2}
  Capacity = 1
  Threads = {t1, t2}
  NoCaller = NoCaller
  NoKey = NoKey
  Nobody = Nobody
INVARIANTS CacheBounded WorldRestored FaultsContained
PROPERTIES SharedFailures RpcReturns
CHECK_DEADLOCK FALSE

\* SnapshotService: a waiter hears of the cancellation of another stream as a status error.
SPECIFICATION SafeSpec
CONSTANTS
  Callers = {r1, r2}
  Snapshotters = {r1, r2}
  Keys = {p1}
  Capacity = 1
  Threads = {t1}
  NoCaller = NoCaller
  NoKey = NoKey
  Nobody = Nobody
INVARIANT CallersIsolated
CHECK_DEADLOCK FALSE

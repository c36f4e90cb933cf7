\* Capture: two RPCs that share the CPU profiler and the tracer.
SPECIFICATION Spec
CONSTANTS
  Rpcs = {r1, r2}
  NoRpc = NoRpc
INVARIANTS ProfileHeld ProfileReleased TraceReleased ReaderGone CompleteIsWhole
PROPERTY CaptureReturns
CHECK_DEADLOCK FALSE

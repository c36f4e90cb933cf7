\* SelfSnapshot over SideEyeConn: one caller, as the package documentation has it, and Connects that fail.
SPECIFICATION SelfSpec
CONSTANTS
  Callers = {k1}
  Sessions = {s1, s2, s3}
  Free = Free
  NoSession = NoSession
  ClientMayFail = TRUE
INVARIANTS SingleLive GoroutineStopsOwn
PROPERTIES CloseEndsConnected ListenersAbstract SelfReleased SelfReturns
CHECK_DEADLOCK FALSE

\* SideEyeConn: two HTTP requests connect at the same time.
SPECIFICATION SafeSpec
CONSTANTS
  Callers = {k1, k2}
  Sessions = {s1, s2}
  Free = Free
  NoSession = NoSession
  ClientMayFail = FALSE
INVARIANT NothingUnowned
CHECK_DEADLOCK FALSE

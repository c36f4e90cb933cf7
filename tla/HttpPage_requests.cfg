\* HttpPage: two callers serve any number of requests, one after the other or at once.
SPECIFICATION PageSpec
CONSTANTS
  Callers = {k1, k2}
  Sessions = {s1, s2}
  Free = Free
  NoSession = NoSession
  ClientMayFail = TRUE
INVARIANT PublishedNotStopped
PROPERTIES PanicOnlyRacing LockReleased RequestsAnswered
CHECK_DEADLOCK FALSE

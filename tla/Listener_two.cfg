\* Listener: two connections, users and closers (no symmetry: liveness is checked).
SPECIFICATION Spec
CONSTANTS
  Conns = {c1, c2}
  Users = {u1, u2}
  Closers = {k1, k2}
  NoConn = NoConn
INVARIANTS AtMostOneConnection NoDoubleClose ConnectedMeansHeld
PROPERTIES QuietAfterClose Redials AcceptUnblocks CloseReturnsUnlessOffering ImplementsAbstract
CHECK_DEADLOCK FALSE

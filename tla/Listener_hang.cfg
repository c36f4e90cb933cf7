\* Listener: the doc comment of cancelDialing, refuted.
SPECIFICATION Spec
CONSTANTS
  Conns = {c1}
  Users = {u1}
  Closers = {k1}
  NoConn = NoConn
PROPERTY CloseTerminates
CHECK_DEADLOCK FALSE

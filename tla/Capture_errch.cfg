\* Capture: the comment on errCh, refuted.
SPECIFICATION Spec
CONSTANTS
  Rpcs = {r1}
  NoRpc = NoRpc
PROPERTY ErrChIsRead
CHECK_DEADLOCK FALSE

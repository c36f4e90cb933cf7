\* FifoQueue: it implements AbstractFifo.
SPECIFICATION Spec
CONSTANTS
  Values = {v1, v2}
  NoValue = NoValue
  Nodes = {n1, n2, n3, n4}
  Nil = Nil
  NodeSize = 2
  MaxLen = 5
SYMMETRY Symmetry
INVARIANT ListsDisjoint
PROPERTY IsFifo
CHECK_DEADLOCK TRUE

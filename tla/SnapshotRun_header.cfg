\* SnapshotRun: the comment on writeQueueEntry, refuted.
SPECIFICATION Spec
CONSTANTS
  GoTypesRange <- TheGoTypesRange
  BssShift = 10
  MaxSteps = 30
  Memories <- TheMemories
  Capacities <- TheCapacities
  Programs <- ThePrograms
  Goroutines <- TheGoroutines
  TextBase = 500
  MaxStackFrames = 3
  Hash <- TheHash
INVARIANT HeaderIntact
CHECK_DEADLOCK FALSE

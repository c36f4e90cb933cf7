\* SnapshotRun: five goroutines, a program with every instruction, buffers of many sizes.
SPECIFICATION Spec
CONSTANTS
  GoTypesRange <- TheGoTypesRange
  BssShift = 10
  MaxSteps = 30
  Memories <- TheMemories
  Capacities <- TheCapacities
  Programs <- ThePrograms
  Goroutines <- TheGoroutines
  TextBase = 500
  MaxStackFrames = 3
  Hash <- TheHash
INVARIANTS TypeOK Parsable ObjectsPresent StacksPresent NoDuplicates RunsIsolated
PROPERTIES EarlierIntact WritesInBuffer FullIsFinal
CHECK_DEADLOCK FALSE

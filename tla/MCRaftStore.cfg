SPECIFICATION Spec
CONSTANTS
  Faults = {}
  MaxIndex = 6
  MaxTerm = 3
  MaxBatch = 2
INVARIANTS TypeOK MemoryMatchesDisk StoreMirrorsNode
PROPERTIES Implements
CHECK_DEADLOCK TRUE

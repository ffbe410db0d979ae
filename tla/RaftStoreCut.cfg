SPECIFICATION Spec
CONSTANTS
  Faults = {"cut"}
  MaxIndex = 4
  MaxTerm = 2
  MaxBatch = 2
PROPERTY CompactionLosesNothing
CHECK_DEADLOCK TRUE

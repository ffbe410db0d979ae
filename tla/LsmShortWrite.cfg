SPECIFICATION Spec
CONSTANTS
  Keys = {a, b}
  Values = {v, w}
  Tombstone = Tombstone
  Oversized = {}
  FlushThreshold = 2
  CompactionThreshold = 2
  Faults = {"shortwrite"}
  MaxSeq = 4
  MaxFile = 3
INVARIANTS ReplayComplete

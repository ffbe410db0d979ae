SPECIFICATION LegacySpec
CONSTANTS
  Keys = {a, b}
  Values = {v, w}
  Tombstone = Tombstone
  Oversized = {}
  FlushThreshold = 2
  CompactionThreshold = 2
  Faults = {"io"}
  MaxSeq = 4
  MaxFile = 3
SYMMETRY Symmetry
INVARIANTS TypeOK  ReplayComplete ReadsDurable LayersOrdered
PROPERTIES NumbersMoveForward

SPECIFICATION LegacySpec
CONSTANTS
  Keys = {a, b}
  Values = {v}
  Tombstone = Tombstone
  Oversized = {}
  FlushThreshold = 2
  CompactionThreshold = 2
  Faults = {"power"}
  MaxSeq = 3
  MaxFile = 2
SYMMETRY Symmetry
PROPERTIES Implements OnlyWritesShow

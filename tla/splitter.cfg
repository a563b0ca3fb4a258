SPECIFICATION Spec
CONSTANTS
  Narrations <- SmallNarrations
  Target = 300
  HardCap = 450
  Grace = 30
  SilenceGap = 5
  GraceGap = 4
  Words = 5
  Openings = {290, 430, 450, 481}
  Lengths = {10, 20, 450}
  Gaps = {0, 4, 5}
CHECK_DEADLOCK FALSE
INVARIANTS SplitterTypeOK ChunksPartition ChunksBounded CutsAreMeant
PROPERTIES SplitterEnds

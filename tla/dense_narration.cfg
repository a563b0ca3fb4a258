SPECIFICATION Spec
CONSTANTS
  Narrations <- DenseNarrations
  Target = 300
  HardCap = 450
  Grace = 30
  SilenceGap = 5
  GraceGap = 4
  Words = 100
  Openings = {}
  Lengths = {3, 5, 7}
  Gaps = {0}
CHECK_DEADLOCK FALSE
INVARIANTS ChunksWithinHardCap

SPECIFICATION Spec
CONSTANTS
  c1 = c1  c2 = c2  j1 = j1  j2 = j2
  Chunks = {c1, c2}
  Jobs = {j1, j2}
  JobOf <- OneChunkPerJob
  Codes = {h1, h2}
  RemotionCodes = {}
  MaxRetries = 2
  None = None
  Deliveries = {d1, d2}
  Overlap = FALSE
  BeginAfterRead = FALSE
CHECK_DEADLOCK FALSE
INVARIANTS RaisedIsRecorded

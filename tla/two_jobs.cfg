SPECIFICATION Spec
CONSTANTS
  c1 = c1  c2 = c2  j1 = j1  j2 = j2
  Chunks = {c1, c2}
  Jobs = {j1, j2}
  JobOf <- OneChunkPerJob
  Codes = {h1}
  RemotionCodes = {}
  MaxRetries = 1
  None = None
  Deliveries = {d1, d2}
  Healers = {}
  HealingMax = 1
  Feedback <- AnyFeedback
  Reviewers = {}
  Overlap = FALSE
  BeginAfterRead = TRUE
CHECK_DEADLOCK FALSE
PROPERTIES NobodyWaitsForever

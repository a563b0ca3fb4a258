SPECIFICATION Spec
CONSTANTS
  c1 = c1  c2 = c2  j1 = j1  j2 = j2
  Chunks = {c1, c2}
  Jobs = {j1}
  JobOf <- OneJob
  Codes = {h1}
  RemotionCodes = {}
  MaxRetries = 2
  None = None
  Deliveries = {d1, d2}
  Healers = {}
  HealingMax = 1
  Feedback <- AnyFeedback
  Reviewers = {r1, r2}
  Overlap = TRUE
  BeginAfterRead = TRUE
CHECK_DEADLOCK FALSE
INVARIANTS ReaperTypeOK ReviewTypeOK AssembledHasVideos AckedHasVideo

SPECIFICATION Spec
CONSTANTS
  c1 = c1  c2 = c2  j1 = j1
  Chunks = {c1, c2}
  Jobs = {j1}
  JobOf <- OneJob
  Codes = {h1}
  RemotionCodes = {}
  MaxRetries = 2
  None = None
  Healers = {o1, o2}
  HealingMax = 2
  Feedback <- AnyFeedback
  Overlap = TRUE
  BeginAfterRead = FALSE
CHECK_DEADLOCK FALSE
INVARIANTS HealingTypeOK AttemptsBounded HealingIsOwned FailureIsEscalated
PROPERTIES HealingEnds

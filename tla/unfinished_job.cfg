SPECIFICATION Spec
CONSTANTS
  QuizJobs = {q1}
  Videos = {v1}
  NumItems <- ThreeItems
  Repaired <- AnyRepair
  MaxAttempts = 3
  LostReplies = TRUE
  None = None
PROPERTIES AcceptedJobsEnd

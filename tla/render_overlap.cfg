SPECIFICATION Spec
CONSTANTS
  c1 = c1  c2 = c2  j1 = j1  j2 = j2
  Chunks = {c1, c2}
  Jobs = {j1}
  JobOf <- OneJob
  Codes = {h1, h2}
  RemotionCodes = {h2}
  MaxRetries = 2
  None = None
  Deliveries = {d1, d2, d3}
  Overlap = TRUE
  BeginAfterRead = TRUE
SYMMETRY DeliverySymmetry
CHECK_DEADLOCK FALSE
INVARIANTS TypeOK CacheBacked VideoPublished AckedHasVideo
PROPERTIES CacheWriteOnce

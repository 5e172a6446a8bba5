SPECIFICATION FairSpec
CONSTANTS
  j1 = j1
  j2 = j2
  c1 = c1
  c2 = c2
  c3 = c3
  q1 = q1
  None = None
  Jobs = {j1, j2}
  Calls = {c1, c2, c3, q1}
  MaxBatches <- MCMaxBatches
  JobOf <- MCJobOf
  PoolOf <- MCPoolOf
  Slots <- MCSlots
  PollInterval = 1
  MaxWait = 2
  MaxDelay = 1
  Modes = {"split", "single", "reload"}
  StartFaults = {"index", "buckets"}
INVARIANTS
  TypeOK
  SlotsAccounted
  WaitsForOwnPool
  EmbedOnlyWhenReady
  EmbeddedMeansAll
  PatienceBounded
PROPERTIES
  ResultIsKept
  JobsEnd
  InternalFollows
CHECK_DEADLOCK FALSE

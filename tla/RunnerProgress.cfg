CONSTANTS
  None = None
  Names = {n1, n2}
  Runs = {r1}
  Requests = {q1}
  MaxConcurrency = 1
  MaxActiveRuns = 1
  MaxCalls = 1
  MaxTurns = 1
  CanCrash = FALSE
  StoreCanFail = FALSE
  ListCanFail = FALSE
  Forgotten = {}
SPECIFICATION FairSpec
PROPERTIES
  RunFinishes
  ClaimReleased
CHECK_DEADLOCK FALSE

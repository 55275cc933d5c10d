CONSTANTS
  None = None
  Names = {n1}
  Runs = {r1}
  Requests = {q1}
  MaxConcurrency = 1
  MaxActiveRuns = 2
  MaxCalls = 1
  MaxTurns = 1
  CanCrash = TRUE
  StoreCanFail = FALSE
  ListCanFail = FALSE
  Forgotten = {}
SPECIFICATION FairSpec
PROPERTIES
  RunFinishes
CHECK_DEADLOCK FALSE

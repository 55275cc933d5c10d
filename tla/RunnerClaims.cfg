CONSTANTS
  None = None
  Names = {n1, n2}
  Runs = {r1}
  Requests = {q1, q2}
  MaxConcurrency = 1
  MaxActiveRuns = 2
  MaxCalls = 2
  MaxTurns = 1
  CanCrash = TRUE
  StoreCanFail = TRUE
  ListCanFail = TRUE
  Forgotten = {}
SPECIFICATION Spec
SYMMETRY Symmetric
INVARIANTS
  TypeOK
  ClaimsExact
  OneDriver
  SlotsExact
  InFlightIsOwned
CHECK_DEADLOCK FALSE

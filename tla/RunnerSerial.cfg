CONSTANTS
  None = None
  Names = {n1, n2}
  Runs = {r1, r2}
  Requests = {q1, q2}
  MaxConcurrency = 1
  MaxActiveRuns = 2
  MaxCalls = 1
  MaxTurns = 0
  CanCrash = FALSE
  StoreCanFail = FALSE
  ListCanFail = FALSE
  Forgotten = {}
SPECIFICATION Spec
SYMMETRY Symmetric
INVARIANTS
  SamplerExact
  DrivenHasRow
  SandboxHasRow
CHECK_DEADLOCK FALSE

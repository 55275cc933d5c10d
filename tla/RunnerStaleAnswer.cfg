CONSTANTS
  None = None
  Names = {n1}
  Runs = {r1}
  Requests = {q1, q2}
  MaxConcurrency = 1
  MaxActiveRuns = 2
  MaxCalls = 2
  MaxTurns = 2
  CanCrash = FALSE
  StoreCanFail = FALSE
  ListCanFail = FALSE
  Forgotten = {}
SPECIFICATION Spec
PROPERTIES
  AnswerMeetsItsQuestion
CHECK_DEADLOCK FALSE

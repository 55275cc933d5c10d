CONSTANTS
  MaxTurns = 2
  MaxCommits = 1
  MaxRestarts = 0
  Misses = 3
  People = {}
  RemoveOnSuccess = FALSE
  RemoveOnFailure = FALSE
  OpenPr = TRUE
  Commands = {}
  VerifyOn = "host"
  RmCanFail = FALSE
  ListCanFail = FALSE
SPECIFICATION Spec
INVARIANTS
  OneAgent
CHECK_DEADLOCK FALSE

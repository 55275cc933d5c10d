CONSTANTS
  MaxTurns = 1
  MaxCommits = 1
  MaxRestarts = 1
  Misses = 3
  People = {"remove"}
  RemoveOnSuccess = FALSE
  RemoveOnFailure = TRUE
  OpenPr = TRUE
  Commands = {"tests", "lint"}
  VerifyOn = "host"
  RmCanFail = FALSE
  ListCanFail = FALSE
SPECIFICATION Spec
INVARIANTS
  PushedWasVerified
CHECK_DEADLOCK FALSE

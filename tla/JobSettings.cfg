CONSTANTS
  MaxTurns = 2
  MaxCommits = 1
  MaxRestarts = 0
  Misses = 2
  People = {"remove", "stop"}
  RemoveOnSuccess = TRUE
  RemoveOnFailure = FALSE
  OpenPr = FALSE
  Commands = {"tests"}
  VerifyOn = "sandbox"
  RmCanFail = TRUE
  ListCanFail = TRUE
SPECIFICATION FairSpec
INVARIANTS
  SucceededIsPublished
PROPERTIES
  KeepsContract
  DriveEnds
CHECK_DEADLOCK FALSE

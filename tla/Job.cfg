CONSTANTS
  MaxTurns = 2
  MaxCommits = 1
  MaxRestarts = 1
  Misses = 3
  People = {"stop", "force", "kill"}
  RemoveOnSuccess = FALSE
  RemoveOnFailure = TRUE
  OpenPr = TRUE
  Commands = {"tests", "lint"}
  VerifyOn = "host"
  RmCanFail = FALSE
  ListCanFail = FALSE
SPECIFICATION FairSpec
INVARIANTS
  TypeOK
  PushedWasVerified
  SucceededIsPublished
  ActsOnOwnTurn
  InFlightIsDriven
PROPERTIES
  QuestionSurvives
  DriveEnds
  DoneIsJudged
  KeepsContract
CHECK_DEADLOCK FALSE

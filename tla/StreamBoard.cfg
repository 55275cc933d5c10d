CONSTANTS
  t1 = t1
  t2 = t2
  Threads = {t1, t2}
  Settings <- AllSettings
  MaxFetches = 2
SPECIFICATION FairSpec
INVARIANTS
  TypeOK
  QuietIsFresh
PROPERTIES
  EachEventOnce
  NoGap
  Converges
CHECK_DEADLOCK FALSE

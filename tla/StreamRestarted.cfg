CONSTANTS
  t1 = t1
  t2 = t2
  Threads = {t1, t2}
  Settings <- Restarted
  MaxFetches = 2
SPECIFICATION Spec
INVARIANTS
  QuietIsFreshForGood
CHECK_DEADLOCK FALSE

CONSTANTS
  Tasks = {t1, t2}
  CPUs = {c1, c2}
  MaxTime = 3
SPECIFICATION FairSpec
INVARIANTS NotEarly NextIsEarliest
PROPERTIES WakesUp HandlerEnds
CHECK_DEADLOCK FALSE

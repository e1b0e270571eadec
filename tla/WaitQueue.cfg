CONSTANTS
  Tasks = {t1, t2, t3}
  MaxAvail = 2
  Killable = {t1}
  Spurious = {t2}
SPECIFICATION FairSpec
INVARIANTS TypeOK SleepersQueued NoDuplicates NoLostWakeup
PROPERTIES NotifyOneWakes WaitersServed
CHECK_DEADLOCK FALSE

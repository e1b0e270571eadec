CONSTANT Tasks = {t1, t2, t3}
SPECIFICATION FairSpec
INVARIANTS Exclusion QueueIsSleepers
PROPERTY SleepersWokenWhileUsed
CHECK_DEADLOCK FALSE

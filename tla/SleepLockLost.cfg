CONSTANT Tasks = {t1, t2, t3}
SPECIFICATION FairSpec
PROPERTY SleepersWokenWhenFree
CHECK_DEADLOCK FALSE

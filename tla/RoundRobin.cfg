CONSTANTS
  t1 = t1
  t2 = t2
  t3 = t3
  idle = idle
  Tasks = {t1, t2, t3, idle}
  Idle = idle
SPECIFICATION Spec
INVARIANTS BoundedBypass IInv
PROPERTY IdleIsLast

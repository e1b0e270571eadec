CONSTANTS
  c1 = c1 c2 = c2 i1 = i1 i2 = i2 a = a b = b d = d
  CPUs = {c1, c2}
  Tasks = {i1, i2, a, b, d}
  Idle <- MCIdle
  Home <- MCHome
  Killable = {a, d}
SPECIFICATION Spec
INVARIANTS StackAlive OneCpuPerTask ReapedIsFreed FirstRunSucceeds
PROPERTY ExitedStaysOff
CHECK_DEADLOCK FALSE

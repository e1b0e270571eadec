CONSTANTS
  c1 = c1 c2 = c2 c3 = c3
  CPUs = {c1, c2, c3}
  Droppers = {c1, c2}
  Region <- ThreeRanges
  Shared = {8}
  Uses <- MostByOne
  Sampled = {c2, c3}
CONSTRAINT UntilDisturbed
SPECIFICATION FairSpec
INVARIANTS FreeIsUncached NmiExpected
PROPERTY ShootdownEnds
CHECK_DEADLOCK FALSE

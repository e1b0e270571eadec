CONSTANTS
  Self = self
  Killers = {k1, k2}
SPECIFICATION FairSpec
INVARIANTS JoinReturnsValue JoinedNeverRuns RunqueueClean ValueTakenOnce
PROPERTY JoinEnds
CHECK_DEADLOCK FALSE

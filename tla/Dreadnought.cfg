CONSTANTS
  p1 = p1 p2 = p2 p3 = p3
  Executor = executor
  Awaited <- AwaitThree
  Exiting = {p2}
  NoTask = NoTask
SPECIFICATION FairSpec
INVARIANT WakeNotLost
PROPERTY Completes
CHECK_DEADLOCK FALSE

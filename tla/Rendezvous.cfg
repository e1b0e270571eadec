CONSTANTS
  Senders = {s1, s2}
  Receivers = {r1, r2}
  Spurious = {s1, r1}
SPECIFICATION FairSpec
INVARIANTS NoBugBranch SlotNotReplaced
PROPERTIES ExchangesOnce ExchangesHappen
CHECK_DEADLOCK FALSE

CONSTANTS
  Tasks = {t1, t2, t3}
  FirstSender = t1
  FirstReceiver = t2
  Capacity = 2
SPECIFICATION FairSpec
INVARIANTS MessagesAnnounced StatusTruthful DisconnectHeard
PROPERTIES ReceiversServed SendersServed
CHECK_DEADLOCK FALSE

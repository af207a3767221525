SPECIFICATION FairSpec
CONSTANTS
  Producers = {p1, p2, p3}
  Consumers = {c1}
  BUS_QUEUE_DEPTH = 2
  MaxMsgs = 2
  MaxSpurious = 1
  NoMsg = NoMsg
  Free = Free
PROPERTIES
  ImplementsFifo
  ShutdownReleasesAll
  BlockedPublishReturns
CHECK_DEADLOCK FALSE

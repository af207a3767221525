SPECIFICATION FairSpec
CONSTANTS
  None = None
  c1 = c1  c2 = c2  c3 = c3  s1 = s1  s2 = s2
  Conns = {c1}
  Stacks = {s1}
  Features <- EmailOnly
  Registered <- EmailOnly
  GATEWAY_MAX_THREADS = 1
  BUS_QUEUE_DEPTH = 1
  no_cli = {TRUE}
  MaxAsks = 0
  MaxBeats = 2
INVARIANT BusOutlivesChannels
PROPERTIES AcceptedIsAnswered InjectedIsSent WorkerStopReturns
CHECK_DEADLOCK FALSE

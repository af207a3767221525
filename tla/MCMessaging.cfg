SPECIFICATION Spec
CONSTANTS
  None = None
  c1 = c1  c2 = c2  c3 = c3  s1 = s1  s2 = s2
  Conns = {c1, c2, c3}
  Stacks = {s1, s2}
  Features <- OnlyHeartbeat
  Registered <- EmailOnly
  GATEWAY_MAX_THREADS = 2
  BUS_QUEUE_DEPTH = 1
  no_cli = {FALSE}
  MaxAsks = 1
  MaxBeats = 1
SYMMETRY Symmetry
INVARIANTS SlotsAccounted PairOutlivesRequest
PROPERTY OwnAnswer
CHECK_DEADLOCK FALSE

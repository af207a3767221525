SPECIFICATION Spec
CONSTANTS
  Free = Free
  Worker = worker
  Subagents = {sub}
  MAX_TASKS = 2
  BUS_QUEUE_DEPTH = 1
  Kinds = {"shell", "agent_turn"}
  Actions = {"pause", "resume", "delete"}
  Intervals = {1}
  MaxId = 2
  MaxTime = 1
  MaxCrashes = 1
INVARIANTS ReplyNamesTask IdsUnique FileCurrent
CHECK_DEADLOCK FALSE

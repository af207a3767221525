SPECIFICATION FairSpec
CONSTANTS
  Free = Free
  Worker = worker
  Subagents = {sub}
  MAX_TASKS = 2
  BUS_QUEUE_DEPTH = 1
  Kinds = {"agent_turn"}
  Actions = {"delete"}
  Intervals = {1}
  MaxId = 2
  MaxTime = 2
  MaxCrashes = 0
PROPERTIES ToolReturns DueTaskFires
CHECK_DEADLOCK FALSE

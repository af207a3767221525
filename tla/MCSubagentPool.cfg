SPECIFICATION Spec
CONSTANTS
  Free = Free
  None = None
  Orchestrators = {worker}
  SUBAGENT_MAX_SLOTS = 2
  MaxIds = 3
  MaxTimeouts = 1
INVARIANTS SlotOutlivesThread CancelledOnlyOverdue 
PROPERTY RunningNotEvicted
CHECK_DEADLOCK FALSE

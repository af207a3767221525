SPECIFICATION Spec
CONSTANTS
  None = None
  cli = cli  a = a  b = b  c = c  d = d
  Chats = {cli, a, b, c, d}
  Cli = cli
  SESSION_MAX = 3
  ttl_seconds = 2
  Hash <- Colliding
  MaxTime = 5
INVARIANTS OneSessionPerChat Isolated
PROPERTY RefusedOnlyWhenBusy
CHECK_DEADLOCK FALSE

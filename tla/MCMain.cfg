SPECIFICATION Spec
CONSTANTS
  Inputs <- InputsVal
  Workspaces <- WorkspacesVal
  Replies <- RepliesVal
  MAX_SKILLS = 4
  MAX_REQUIRES = 2
  Installed = {}
  Lines = {"eof", "", "/new", "/quit", "text"}
  MAX_ENTRIES = 8
  MAX_SYSTEM_PARTS = 5
  MAX_TOOLS = 8
  MaxLines = 2
  MaxOther = 1
  MaxStores = 1
  MaxIterations = 2
  MaxSignals = 2
INVARIANT TerminalOwned
PROPERTY ConfigPriority

SPECIFICATION MemorySpec
CONSTANTS
  None = None  s1 = s1  s2 = s2
  Callers = {s1, s2}
  Subagents = {s1, s2}
  Clip <- ClipLong
  Sections <- TwoSections
  Template <- ShippedTemplate
  Categories <- AllCategories
  Keys <- TwoKeys
  Values <- LongValue
  ColonKeys <- None_
  LongValues <- None_
  Legacy <- NoLegacy
  Days <- TwoDays
  MAX_FILE_SIZE = 40
  BULLET_MAX = 20
  DiskFull = FALSE
  MaxCalls = 2
  MaxBoots = 2
  MaxLogs = 1
SYMMETRY CallersAlike
INVARIANT MutexIsReleased
PROPERTY ImplementsMap
CHECK_DEADLOCK FALSE

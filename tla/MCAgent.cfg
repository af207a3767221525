SPECIFICATION FairSpec
CONSTANTS
  MAX_MESSAGES = 12
  max_messages = 0
  max_iterations = 3
  MaxCalls = 3
  MaxTurns = 4
INVARIANTS
  HistoryFits
  SystemFirst
  RequestsOfTurnAnswered
PROPERTIES
  RollbackKeepsEarlierTurns
  TurnEnds

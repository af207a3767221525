SPECIFICATION MailFairSpec
CONSTANTS
  Addresses = {"b"}
  Mails <- Letters
  Patterns = {"*", "*,*"}
  Split <- AtCommas
  Tools = {t1}
  Matches <- PatternMatches
  Files <- MixedFiles
  MAX_RULES = 2
  LINE_RULES = 2
  Ordered = TRUE
  FetchFails = TRUE
  MaxMail = 2
  MaxCommands = 2
  MaxSends = 1
  MaxRestarts = 1
INVARIANTS PublishedOnce SentIsAllowed
PROPERTIES RestartKeepsRules MailIsProcessed
CHECK_DEADLOCK FALSE

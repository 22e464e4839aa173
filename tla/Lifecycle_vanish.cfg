CONSTANTS
  ReadErrorLimit = 2
  LinkMayVanish = TRUE
SPECIFICATION FairSpec
PROPERTIES RunReturns
CHECK_DEADLOCK FALSE

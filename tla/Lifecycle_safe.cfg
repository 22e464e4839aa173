CONSTANTS
  ReadErrorLimit = 2
  LinkMayVanish = TRUE
SPECIFICATION Spec
INVARIANTS TypeOK NothingLeftBehind
CHECK_DEADLOCK FALSE

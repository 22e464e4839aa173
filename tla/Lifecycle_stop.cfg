CONSTANTS
  ReadErrorLimit = 2
  LinkMayVanish = FALSE
SPECIFICATION FairSpec
INVARIANTS ExitZeroMeansServed
PROPERTIES ShutsDown

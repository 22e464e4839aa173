CONSTANTS
  h1 = h1 h2 = h2 h3 = h3 w1 = w1 w2 = w2
  Hosts = {h1, h2}
  NoHost = NoHost
  Workers = {w1}
  PoolMax = 2
  Hash <- HashPair
  LeaseChoices <- OneLease
  ReservedSets <- NothingReserved
  MaxTime = 4
SPECIFICATION Spec
PROPERTIES UsedStaysMapped

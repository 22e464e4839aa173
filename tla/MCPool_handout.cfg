CONSTANTS
  h1 = h1 h2 = h2 h3 = h3 w1 = w1 w2 = w2
  Hosts = {h1, h2, h3}
  NoHost = NoHost
  Workers = {w1}
  PoolMax = 2
  Hash <- HashColliding
  LeaseChoices <- OneLease
  ReservedSets <- EitherReserved
  MaxTime = 4
SPECIFICATION Spec
PROPERTIES HandedOutUnreserved

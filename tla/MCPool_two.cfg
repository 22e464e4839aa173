CONSTANTS
  h1 = h1 h2 = h2 h3 = h3 w1 = w1 w2 = w2
  Hosts = {h1, h2}
  NoHost = NoHost
  Workers = {w1, w2}
  PoolMax = 1
  Hash <- HashOne
  LeaseChoices <- TwoLeases
  ReservedSets <- OneReserved
  MaxTime = 3
SYMMETRY WorkerSymmetry
SPECIFICATION Spec
INVARIANTS Consistent
PROPERTIES LeavesHolderOnlyWhenDue KeepsLeases

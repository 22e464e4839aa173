CONSTANTS
  h1 = h1 h2 = h2 h3 = h3 w1 = w1 w2 = w2
  Hosts = {h1, h2, h3}
  NoHost = NoHost
  Workers = {w1}
  PoolMax = 3
  Hash <- HashColliding
  LeaseChoices <- OneLease
  ReservedSets <- TwoReserved
  MaxTime = 4
SPECIFICATION Spec
INVARIANTS TypeOK Consistent NoReservedLent AnswerHeldByAsker
PROPERTIES DirtyTracksOwner LeavesHolderOnlyWhenDue RejectedOnlyWhenFull KeepsLeases

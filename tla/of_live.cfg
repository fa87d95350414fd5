CONSTANTS
  o1 = o1
  o2 = o2
  o3 = o3
  None = None
  Orders = {o1}
  Oco <- NoPairs
  HasCallback = {o1}
  Workers = {w1}
  Commands = {c1, k1}
  Placers = {c1}
  Cancelers = {k1}
  Stoppers = {}
  MaxOld = 1
  MaxFaults = 2
SPECIFICATION FairSpec
INVARIANT WaitingIsExplained
PROPERTY KeepsContract
PROPERTY EventuallyAgrees
PROPERTY FillIsAnswered

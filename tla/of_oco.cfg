CONSTANTS
  o1 = o1
  o2 = o2
  o3 = o3
  None = None
  Orders = {o1, o2}
  Oco <- OnePair
  HasCallback = {o1, o2}
  Workers = {w1}
  Commands = {c1, k1}
  Placers = {c1}
  Cancelers = {k1}
  Stoppers = {}
  MaxOld = 0
  MaxFaults = 1
SPECIFICATION Spec
INVARIANT OneLegCalled
INVARIANT CallbackAfterTheEnd
CONSTRAINT Answered
SYMMETRY Legs

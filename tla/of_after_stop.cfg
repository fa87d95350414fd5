CONSTANTS
  o1 = o1
  o2 = o2
  o3 = o3
  None = None
  Orders = {o1, o2}
  Oco <- NoPairs
  HasCallback = {o1}
  Workers = {w1}
  Commands = {c1, s1}
  Placers = {c1}
  Cancelers = {}
  Stoppers = {s1}
  MaxOld = 0
  MaxFaults = 0
SPECIFICATION Spec
PROPERTY NoOrderAfterStop

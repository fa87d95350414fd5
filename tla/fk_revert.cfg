CONSTANTS
  o1 = o1
  o2 = o2
  o3 = o3
  s1 = s1
  None = None
  Orders = {o1, o2, o3, s1}
  Oco <- OnePair
  HasCallback = {o1, o2, o3}
  Workers = {}
  Sale = s1
  Sells = {o1, o2, s1}
SPECIFICATION Spec
PROPERTY SoldWasBought

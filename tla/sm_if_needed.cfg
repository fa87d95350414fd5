CONSTANTS
  Connections = {c1}
  Threads = {t1, t2}
  None = None
  Sent = {"START"}
  MaxSends = 1
  MaxFaults = 0
SPECIFICATION Spec
INVARIANT AtMostOneStream

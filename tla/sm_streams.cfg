CONSTANTS
  Connections = {c1, c2}
  Threads = {t1, t2, t3}
  None = None
  Sent = {"START", "STOP"}
  MaxSends = 1
  MaxFaults = 1
SPECIFICATION FairSpec
INVARIANT StreamTypeOK
INVARIANT SlotIsServed
PROPERTY ServedRuns
PROPERTY MarkEndsThreads
PROPERTY MarkedMeansExit
CHECK_DEADLOCK FALSE

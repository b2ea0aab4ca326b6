SPECIFICATION FairSpec
CONSTANTS
  ext = ext
  expA = expA
  expB = expB
  rcvA = rcvA
  rcvB = rcvB
  rcv = rcv
  s1 = s1
  Free = Free
  None = None
  Nodes = {ext, expA, expB, rcvA, rcvB}
  Extensions = {ext}
  Needs <- MCNeeds
  CompOf <- MCCompOf
  Callers = {s1}
  FatalIn = {"loop"}
  MaxReports = 1
  MaxReloads = 0
PROPERTIES
  FatalStopsCollector
CHECK_DEADLOCK FALSE

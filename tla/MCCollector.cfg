SPECIFICATION FairSpec
CONSTANTS
  ext = ext
  expA = expA
  expB = expB
  rcvA = rcvA
  rcvB = rcvB
  rcv = rcv
  s1 = s1
  Free = Free
  None = None
  Nodes = {ext, expA, expB, rcvA, rcvB}
  Extensions = {ext}
  Needs <- MCNeeds
  CompOf <- MCCompOf
  Callers = {s1}
  FatalIn = {"start", "loop", "stop"}
  MaxReports = 2
  MaxReloads = 1
CHECK_DEADLOCK FALSE

INVARIANTS
  NothingLeftRunning
  ShutdownOnce
  DownstreamReady
  NothingAfterShutdown
  StatusEndsStopped

PROPERTIES
  RunReturns

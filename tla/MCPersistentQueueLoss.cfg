SPECIFICATION Spec
CONSTANTS
  p1 = p1
  p2 = p2
  c1 = c1
  c2 = c2
  Free = Free
  None = None
  Producers = {p1}
  Consumers = {c1}
  Cancellable = {}
  Cap = 1
  Sizes = {1}
  MaxOffers = 1
  MaxStops = 2
  MaxFaults = 0
  CrashWhileReputting = TRUE
INVARIANTS
  NoLoss
CHECK_DEADLOCK FALSE

SPECIFICATION FairSpec
CONSTANTS
  p1 = p1
  p2 = p2
  c1 = c1
  c2 = c2
  Free = Free
  None = None
  Producers = {p1, p2}
  Consumers = {c1, c2}
  Cancellable = {p1}
  Cap = 2
  Sizes = {1, 2}
  MaxOffers = 1
  MaxStops = 2
  MaxFaults = 1
  CrashWhileReputting = FALSE
CHECK_DEADLOCK FALSE

INVARIANTS
  NoLoss
  SizeAccounting
  SingleDispatch
  ClientOpenWhileUsed

PROPERTIES
  OfferReturns
  AcceptedIsExported

SPECIFICATION FairSpec
CONSTANTS
  p1 = p1
  p2 = p2
  p3 = p3
  c1 = c1
  c2 = c2
  Stopper = Stopper
  Free = Free
  None = None
  Producers = {p1, p2, p3}
  Consumers = {c1, c2}
  Cancellable = {p1, p2}
  Cap = 2
  Sizes = {0, 1, 2, 3}
  MaxOffers = 1
CHECK_DEADLOCK FALSE

INVARIANTS
  SizeAccounting
  ResultIsOwn
  NoLostWakeup
  FreePlaceIsOffered
  ShutdownDrains

PROPERTIES
  CallsEnd

SPECIFICATION FairSpec
CONSTANTS
  c1 = c1
  k1 = k1
  Stopper = Stopper
  Free = Free
  None = None
  Consumers = {c1}
  Keys = {k1}
  Workers = 2
  LruSize = 1
  MinSize = 2
  MaxSize = 3
  Streams <- MCOne
  MaxRequests = 1
PROPERTIES
  ShutdownEnds
CHECK_DEADLOCK FALSE

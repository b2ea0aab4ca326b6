SPECIFICATION FairSpec
CONSTANTS
  h1 = h1
  h2 = h2
  k1 = k1
  k2 = k2
  None = None
  Callers = {h1, h2}
  Keys = {k1, k2}
  OneShard = k1
  ChanCap = 1
  MaxTries = 2
  Items <- MCItems
  Configs <- MCConfigs

INVARIANTS
  LimitExact
  CountersAddUp
  ResentOnlyUnsure

PROPERTIES
  DeliverySpec
  CallsEnd

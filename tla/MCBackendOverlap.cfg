SPECIFICATION Spec
CONSTANTS
  t1 = t1
  t2 = t2
  u1 = u1
  u2 = u2
  p1 = p1
  p2 = p2
  DefaultDb = DefaultDb
  None = None
  Threads = {t1, t2}
  Users = {u1, u2}
  Projects = {p1, p2}
  Existing = {p1}
  Owner = u1
  OneAtATime = TRUE
  MaxRequests = 2
  MaxFaults = 0
INVARIANTS
  AtHome
CHECK_DEADLOCK FALSE

SPECIFICATION Spec
CONSTANTS
  c1 = c1
  c2 = c2
  k1 = k1
  k2 = k2
  Stopper = Stopper
  Free = Free
  None = None
  Consumers = {c1, c2}
  Keys = {k1, k2}
  Workers = 1
  LruSize = 1
  MinSize = 2
  MaxSize = 3
  Streams <- MCStreams
  MaxRequests = 3
SYMMETRY MCSymmetry
CHECK_DEADLOCK FALSE

INVARIANTS
  DoneExactlyOnce
  AnswerIsTrue
  NoBatchStranded
  ShutdownDrains
  NoOtherDeadlock

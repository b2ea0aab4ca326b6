SPECIFICATION Spec
CONSTANTS
  g1 = g1
  g2 = g2
  g3 = g3
  g4 = g4
  Goroutines = {g1, g2, g3, g4}
  Cancellable = {g1, g2, g3}
  Free = Free
SYMMETRY Symmetry
CHECK_DEADLOCK FALSE

INVARIANTS
  DrainNeverBlocks
  StuckSignalNeedsTwoCancelled

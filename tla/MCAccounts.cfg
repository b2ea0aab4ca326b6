SPECIFICATION AccountsSpec
CONSTANTS
  Threads = {t1, t2}
  Names = {"default", "x"}
  MaxTries = 1
  CodeLimit = 3
  MaxRequests = 3
  MaxFaults = 1
SYMMETRY Symmetry
CHECK_DEADLOCK FALSE

INVARIANTS
  AgentsInOrder
  KeysInOrder
  CodeUsedOnce

PROPERTIES
  ListedKeysWork
  IngestUnderOwnName
  LoginLeavesWorkingProject

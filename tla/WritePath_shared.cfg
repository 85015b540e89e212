CONSTANTS
  a1 = a1
  a2 = a2
  a3 = a3
  NoAgent = NoAgent
  NoFile = NoFile
  Agents = {a1, a2}
  LocksExpire = TRUE
  StoreFails = TRUE
  DirectSubmits = TRUE
  Promotions = TRUE
  UnknownOnDisk = FALSE
  SerialAfter = 2
  MaxEdits = 3
SPECIFICATION Spec
INVARIANT UniqueVersions
INVARIANT NoStrandedLock
CHECK_DEADLOCK FALSE
SYMMETRY AgentSymmetry

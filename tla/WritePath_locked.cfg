CONSTANTS
  a1 = a1
  a2 = a2
  a3 = a3
  NoAgent = NoAgent
  NoFile = NoFile
  Agents = {a1, a2, a3}
  LocksExpire = FALSE
  StoreFails = FALSE
  DirectSubmits = FALSE
  Promotions = FALSE
  UnknownOnDisk = FALSE
  SerialAfter = 3
  MaxEdits = 5
SPECIFICATION Spec
INVARIANT TypeOK
INVARIANT DiskAgrees
PROPERTY RefusalRestoresDisk
PROPERTY ImplementsRegister
CHECK_DEADLOCK FALSE
SYMMETRY AgentSymmetry

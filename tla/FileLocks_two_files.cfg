SPECIFICATION FairSpec
CONSTANTS
  a1 = a1
  a2 = a2
  a3 = a3
  f1 = f1
  f2 = f2
  Agents = {a1, a2}
  Files = {f1, f2}
  Sweeper = Sweeper
  NoAgent = NoAgent
  Declarations <- UpToTwoFiles
  AtomicAcquire = TRUE
  LocksExpire = TRUE
  MayCrash = FALSE
  StoreFails = FALSE
  MaxDeclares = 2
INVARIANT WaiterAccounted
PROPERTY ImplementsLease
PROPERTY BlockageEnds
CHECK_DEADLOCK FALSE

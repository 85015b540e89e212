SPECIFICATION Spec
CONSTANTS
  a1 = a1
  a2 = a2
  a3 = a3
  f1 = f1
  f2 = f2
  Agents = {a1, a2, a3}
  Files = {f1}
  Sweeper = Sweeper
  NoAgent = NoAgent
  Declarations <- OneFile
  AtomicAcquire = TRUE
  LocksExpire = TRUE
  MayCrash = TRUE
  StoreFails = TRUE
  MaxDeclares = 4
SYMMETRY AgentSymmetry
INVARIANT TypeOK
INVARIANT MutualExclusion
PROPERTY ImplementsLease
CHECK_DEADLOCK FALSE

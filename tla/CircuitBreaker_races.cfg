CONSTANTS
  a1 = a1
  a2 = a2
  Maintenance = Maintenance
  Operator = Operator
  Agents = {a1}
  TotalAgents = 2
  Window = 2
  RecoveryCount = 2
  CrashThreshold = 1
  MaxSerial = 1
  MaxFaults = 2
SPECIFICATION FairSpec
INVARIANT TypeOK
INVARIANT ExcessTrips
PROPERTY CallsReturn

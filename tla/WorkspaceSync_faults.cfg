SPECIFICATION Spec
CONSTANTS
  Loops = {l1, l2}
  BatchSize = 2
  SingleWriter = TRUE
  Faults = {"crash", "stream", "request", "commit"}
  MaxFaults = 2
  MaxEvents = 3
INVARIANT TypeOK
INVARIANT CrashConsistent
INVARIANT StreamCovers
INVARIANT RestoreComplete
PROPERTY ReadYourWrites
PROPERTY ImplementsLog
PROPERTY CaughtUp
CHECK_DEADLOCK FALSE

SPECIFICATION Spec
CONSTANTS
  Loops = {l1}
  BatchSize = 2
  SingleWriter = TRUE
  Faults = {"request"}
  MaxFaults = 1
  MaxEvents = 3
PROPERTY ForwardedWhileSyncing
CHECK_DEADLOCK FALSE

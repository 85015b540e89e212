SPECIFICATION Spec
CONSTANTS
  Calls = {c1, c2, c3, c4}
  Cancels = {k1, k2}
  NoCall = NoCall
  MaxRunners = 4
INVARIANT TypeOK
INVARIANT KnownToRunner
INVARIANT WaitersAnswered
INVARIANT NotLeftBusy
PROPERTY CancelsReturn
CHECK_DEADLOCK FALSE

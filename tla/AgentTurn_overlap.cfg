SPECIFICATION Spec
CONSTANTS
  Turns = {t1, t2}
  LadderLength = 0
  MaxOverflow = 1
  ConfirmLimit = 0
  Failures = {"overflow", "plain"}
  MayHang = FALSE
  MaxCancels = 0
  MaxRounds = 1
  MaxRuns = 2
SYMMETRY Symmetry
INVARIANT TypeOK
INVARIANT Cancellable
INVARIANT PartsSettled
CHECK_DEADLOCK FALSE

SPECIFICATION Spec
CONSTANTS
  Turns = {t1}
  LadderLength = 1
  MaxOverflow = 1
  ConfirmLimit = 1
  Failures = {"overflow", "max_tokens", "plain"}
  MayHang = TRUE
  MaxCancels = 1
  MaxRounds = 1
  MaxRuns = 2
INVARIANT ExecutedOnce
PROPERTY TurnEnds
CHECK_DEADLOCK FALSE

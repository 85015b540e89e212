SPECIFICATION Spec
CONSTANTS
  Requests = {r1, r2, r3}
  s1 = s1
  s2 = s2
  Sessions = {s1, s2}
  a = a
  b = b
  Resources = {a, b}
  Rulesets <- MCRulesets
  Asked <- MCAsked
  Saved = {}
  UpFront = TRUE
  MaxReloads = 1
INVARIANT TypeOK
INVARIANT Consented
INVARIANT RejectionCovers
PROPERTY RequestsEnd
CHECK_DEADLOCK FALSE

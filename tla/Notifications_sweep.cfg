CONSTANTS
  MaxAckRetries = 1
  MaxChanges = 2
  MaxRows = 5
  MaxFaults = 1
SPECIFICATION FairSpec
INVARIANT TypeOK
INVARIANT DeliveriesBounded
INVARIANT NotForgotten
PROPERTY UnackedLeaves
CHECK_DEADLOCK FALSE

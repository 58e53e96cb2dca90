SPECIFICATION FairSpec
CONSTANTS
  i1 = i1
  i2 = i2
  Item = {i1, i2}
  MaxAttempts = 3
  FailureLimit = 2
  MaxRuns = 2
  Starts <- MCStarts
CHECK_DEADLOCK FALSE
INVARIANTS
  EachItemOnce
  ExhaustionIsFinalIfPaid
  InventoryAgrees
PROPERTIES
  VotesAreSettled
  FinalIsNotResubmitted
  RunEnds

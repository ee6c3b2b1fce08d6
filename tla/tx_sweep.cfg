SPECIFICATION FairSpec
CONSTANTS
  Tx <- Transactions
  Resource = {p1, p2}
  Mode = {"X"}
  TimeoutsOn = FALSE
  SweepOn = TRUE
  TornAppends = FALSE
  Frames = 1
  MaxWrites = 3
  MaxCheckpoints = 0
  MaxBoots = 1
CHECK_DEADLOCK FALSE
INVARIANTS
  CommitHoldsLocks
  EndedLeavesNothing
PROPERTIES
  EveryTransactionEnds

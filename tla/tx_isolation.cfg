SPECIFICATION FairSpec
CONSTANTS
  Tx <- Transactions
  Resource = {p1, p2}
  Mode = {"S", "X"}
  TimeoutsOn = TRUE
  SweepOn = FALSE
  TornAppends = FALSE
  Frames = 1
  MaxWrites = 3
  MaxCheckpoints = 0
  MaxBoots = 1
CHECK_DEADLOCK FALSE
INVARIANTS
  TxTypeOK
  CleanFramesMatchDisk
PROPERTIES
  ImplementsAtomicStore
  NoDirtyRead
  EveryTransactionEnds

SPECIFICATION Spec
CONSTANTS
  Tx <- Transactions
  Resource = {p1}
  Mode = {"X"}
  TimeoutsOn = FALSE
  SweepOn = FALSE
  TornAppends = FALSE
  Frames = 1
  MaxWrites = 2
  MaxCheckpoints = 0
  MaxBoots = 2
CHECK_DEADLOCK FALSE
INVARIANTS
  WinnersSurvive

SPECIFICATION Spec
CONSTANTS
  Tx = {1}
  Resource = {p1}
  Mode = {"X"}
  TimeoutsOn = FALSE
  SweepOn = FALSE
  TornAppends = FALSE
  Frames = 1
  MaxWrites = 1
  MaxCheckpoints = 0
  MaxBoots = 3
CHECK_DEADLOCK FALSE
INVARIANTS
  LosersVanish

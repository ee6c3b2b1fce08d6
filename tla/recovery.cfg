SPECIFICATION Spec
CONSTANTS
  Tx <- Transactions
  Resource = {p1, p2}
  Mode = {"X"}
  TimeoutsOn = FALSE
  SweepOn = FALSE
  TornAppends = TRUE
  Frames = 1
  MaxWrites = 2
  MaxCheckpoints = 1
  MaxBoots = 2
CONSTRAINT ReadableLog
ACTION_CONSTRAINT CheckpointsWrite
SYMMETRY PageSymmetry
CHECK_DEADLOCK FALSE
INVARIANTS
  CrashIsSafe
  CommittedIsVisible
PROPERTIES
  RecoveryIsIdempotent

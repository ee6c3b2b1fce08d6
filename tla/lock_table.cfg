SPECIFICATION DeadlockSpec
CONSTANTS
  Tx <- Transactions
  Resource = {r1, r2}
  Mode = {"S", "X"}
  TimeoutsOn = TRUE
SYMMETRY PageSymmetry
INVARIANTS
  LockTypeOK
  LockCompatible
  HeadIsBlocked
  PendingIffQueued
  CycleIsDeadlock
  ExclusiveDeadlockIsCycle
PROPERTIES
  NoOvertaking
  SweepBreaksEveryCycle

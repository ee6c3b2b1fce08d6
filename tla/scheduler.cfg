CONSTANTS
  d1 = d1
  d2 = d2
  Doc = {d1, d2}
  Kinds <- ThreeKinds
  Workers = 2
  MaxTasks = 4
SPECIFICATION SchedSpec
INVARIANTS
  SchedTypeOK
  WorkConserving
  RunsOnce
  ServedInOrder
  RoundRobinIsFair
PROPERTY
  EveryTaskEnds

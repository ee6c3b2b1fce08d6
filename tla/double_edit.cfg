SPECIFICATION Spec
CONSTANTS
  Doc = {"d"}
  Capacity = 20
  Socket <- TwoSockets
  User <- OneTab
  Creator <- Creators
  Role <- Ownership
  Tab <- OneTab
  UserOf <- OwnUser
  Call <- TwoCalls
  PageText = 9
  Budgets <- OneOpen
CHECK_DEADLOCK FALSE
INVARIANTS
  OperationsFitTheirVersion

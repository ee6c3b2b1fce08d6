SPECIFICATION Spec
CONSTANTS
  Doc = {"d", "e"}
  Capacity = 20
  Socket <- ThreeSockets
  User <- TwoTabs
  Creator <- Creators
  Role <- Ownership
  Tab <- TwoTabs
  UserOf <- OwnUser
  Call <- TwoCalls
  PageText = 1
  Budgets <- SomeBudgets
ACTION_CONSTRAINTS
  RendersAtOnce
  OneCallIfSlow
CHECK_DEADLOCK FALSE
INVARIANTS
  PresenceIsConsistent
  PresenceListsConverge
  OnlyRacesLeaveGhosts
  ReadersHoldServerText

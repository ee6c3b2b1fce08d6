SPECIFICATION FairSpec
CONSTANTS
  Tx <- FourRequests
  Resource <- SixPages
  Mode = {"S", "X"}
  TimeoutsOn = TRUE
  Doc = {d1}
  Capacity = 1
  Changes <- Edits
  Versioned = TRUE
  MetadataLength = 0
  PageSize = 4
  PAGE_HEADER_SIZE = 1
  RECORD_HEADER_SIZE = 1
CHECK_DEADLOCK FALSE
INVARIANTS
  DocTypeOK
  EditsBuildOnBase
  AnswersAgree
  EveryVersionIsAnnounced
  EditPathDeadlockFree
PROPERTIES
  ImplementsSharedDocument
  EveryRequestEnds

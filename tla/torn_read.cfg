SPECIFICATION Spec
CONSTANTS
  Tx <- ThreeRequests
  Resource <- SixPages
  Mode = {"S", "X"}
  TimeoutsOn = FALSE
  Doc = {d1}
  Capacity = 2
  Changes <- Edits
  Versioned = TRUE
  MetadataLength = 0
  PageSize = 4
  PAGE_HEADER_SIZE = 1
  RECORD_HEADER_SIZE = 1
CHECK_DEADLOCK FALSE
INVARIANTS
  ReadsAreWhole

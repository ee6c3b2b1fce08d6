SPECIFICATION Spec
CONSTANTS
  Keyword <- TwelveKeywords
  MaxKeys = 3
  Doc <- ThreeDocuments
  Texts <- SomeTexts
  SearchedPrefixes <- SomePrefixes
  PageWords = 6
  Room = 6
  Request = {r1, r2}
  MaxRequests = 4
  MaxStarts = 3
CONSTRAINT ManyTextsStayShort
SYMMETRY RequestSymmetry
CHECK_DEADLOCK FALSE
INVARIANTS
  TreeIsValid
  SearchIsExact
  RowsMatchContent
PROPERTIES
  RestartKeepsTexts

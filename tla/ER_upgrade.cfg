SPECIFICATION Spec
CONSTANTS
  EngineOf <- TwoOfOne
  Used = "dirsig"
  Versions = {"1", "2"}
  Paths <- SomePathsInOrder
  MaxFiles = 3
  AtFirst <- OneEach
  Odd <- TheOdd
  Windows = {"serving"}
  MaxChanges = 2
INVARIANTS
  RunsAsAdmitted
CHECK_DEADLOCK FALSE

SPECIFICATION RulesFair
CONSTANTS
  EngineOf <- TwoOfOne
  Used = "dirsig"
  Versions = {"1", "2"}
  AtFirst <- OneEach
  Paths <- SomePathsInOrder
  Odd <- TheOdd
  MaxFiles = 3
  Windows = {"start", "queued"}
  MaxChanges = 2
  r1 = r1  r2 = r2  r3 = r3
  Runs = {r1, r2, r3}
  Null = Null
  Requests <- SomeRequests
  Declared <- OneByDefault
  Capacity <- SmallHost
  Documents <- SomeDocuments
  Library <- SomeSensors
  MaxRuns = 2
INVARIANTS
  RenderedAsAdmitted
  EveryFileListed
  WithinCapacity
  GrantHonoursRequest
  AdmittedFitsAlone
  ComposesIffLegal
  ErrorNamesItsLayer
  SettingsPlacedOnce
  SourceHoldsMember
  OneRunPerSensor
PROPERTIES
  AdmittedServed
\* every run ends or is refused, and a composition ends
CHECK_DEADLOCK FALSE

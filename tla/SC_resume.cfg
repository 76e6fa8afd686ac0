SPECIFICATION ScriptsSpec
CONSTANTS
  Manifests <- OneOrTwo
  Cores = 2
  HwThreads = 4
  Budget = 3
  MaxJobs = 3
  MaxFaults = 2
  Installations <- SomeInstallations
  SweepBudget = 4
  PerRun = 3
  MaxKills = 1
  MaxTerms = 1
INVARIANTS
  FitTogether
  SummaryOfAll
  DirectoriesAsFound
  FinishedIsTried
PROPERTIES
  KeepsResults
  AllMeasured
  EveryDemoFinished

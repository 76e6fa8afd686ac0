SPECIFICATION ScriptsSpec
CONSTANTS
  Manifests <- OnePair
  Cores = 2
  HwThreads = 4
  Budget = 3
  MaxJobs = 3
  MaxFaults = 1
  Installations <- NoDemos
  SweepBudget = 4
  PerRun = 3
  MaxKills = 1
  MaxTerms = 1
PROPERTIES
  LosesOnlyJobs

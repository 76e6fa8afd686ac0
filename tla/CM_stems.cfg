SPECIFICATION RecipeSpec
CONSTANTS
  Documents <- SameStemDocuments
  Library <- SameStem
  MaxRuns = 3
INVARIANTS
  OneRunPerSensor
\* a composition ends
CHECK_DEADLOCK FALSE

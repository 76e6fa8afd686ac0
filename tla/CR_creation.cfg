SPECIFICATION CreationFair
CONSTANTS
  a1 = a1  a2 = a2  a3 = a3
  r1 = r1  r2 = r2
  Creators = {a1, a2, a3}
  NoCreator = NoCreator
  Leftovers = {"nothing", "empty", "junk"}
  MayCrash = TRUE
  Runs = {r1, r2}
  Clients = {1, 2}
  Orders <- TwoOrders
  MaxCrashes = 1
  MayEdit = TRUE
INVARIANTS
  NobodyLoses
  EndsComplete
  RefusedMadeNothing
  OneWorker
  NoneForgotten
  RecordedIsWhole
PROPERTIES
  CreationSpec
  SubmittedIsRecorded
\* every call ends
CHECK_DEADLOCK FALSE

SPECIFICATION Spec
CONSTANTS
  a1 = a1
  a2 = a2
  a3 = a3
  Creators = {a1, a2, a3}
  NoCreator = NoCreator
  Leftovers = {"junk"}
  MayCrash = FALSE
INVARIANTS
  OneCreated
\* every call ends
CHECK_DEADLOCK FALSE

SPECIFICATION FairSpec
CONSTANTS
  r1 = r1  r2 = r2  c1 = c1  c2 = c2  s1 = s1  s2 = s2  g1 = g1
  Runs = {r1, r2}
  Clients = {c1}
  Slots = {s1}
  NoSlot = NoSlot
  NoRun = NoRun
  Gpus = {g1}
  Need <- OneEach
  Faults = {"crash", "raise", "client"}
  Ops = {"get", "cancel"}
  PromptStart = TRUE
  PromptRead = FALSE
ACTION_CONSTRAINT CancelOrRaiseAlone
PROPERTIES
  LifecycleSpec
  EventuallyFinal
  WorkersEnd
  CancelFreesSlot

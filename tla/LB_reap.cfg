SPECIFICATION Spec
CONSTANTS
  r1 = r1  r2 = r2  c1 = c1  c2 = c2  s1 = s1  s2 = s2  g1 = g1
  Runs = {r1}
  Clients = {c1, c2}
  Slots = {s1}
  NoSlot = NoSlot
  NoRun = NoRun
  Gpus = {g1}
  Need <- NoneEach
  Faults = {}
  Ops = {"get"}
  PromptStart = TRUE
  PromptRead = FALSE
PROPERTIES
  ReapsOnlyDead

SPECIFICATION FairSpec
CONSTANTS
  f0 = f0
  f1 = f1
  f2 = f2
  None = None
  Root = f0
  Frames = {f0, f1}
  Parent <- MCFan
  StableLane <- MCStable
  Capacity = 1
  Budget = 1
  Kinds = {"dispatch", "ask"}
  MaxCalls = 1
  MaxRestarts = 1
  MayStop = TRUE
PROPERTIES RootExits ShutdownCompletes ImplementsIntervals
CHECK_DEADLOCK FALSE

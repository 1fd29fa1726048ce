SPECIFICATION Spec
CONSTANTS
  f0 = f0
  f1 = f1
  f2 = f2
  None = None
  Root = f0
  Frames = {f0, f1, f2}
  Parent <- MCFan
  StableLane <- MCStable
  Capacity = 2
  Budget = 1
  Kinds = {"dispatch", "ask"}
  MaxCalls = 1
  MaxRestarts = 0
  MayStop = FALSE
INVARIANTS BackendIsLeased
CHECK_DEADLOCK FALSE

SPECIFICATION Spec
CONSTANTS
  f0 = f0
  f1 = f1
  f2 = f2
  None = None
  Root = f0
  Frames = {f0, f1}
  Parent <- MCFan
  StableLane <- MCStable
  Capacity = 1
  Budget = 2
  Kinds = {"dispatch", "gate", "ask"}
  MaxCalls = 2
  MaxRestarts = 0
  MayStop = FALSE
INVARIANTS LanesAreCarried LeaseFollowsWork TimeoutIsEarned SelfTimeIsCharged
CHECK_DEADLOCK FALSE

SPECIFICATION FairSpec
CONSTANTS
  f0 = f0
  f1 = f1
  Frames = {f0, f1}
  Root = f0
  Scripted = {f1}
  MaxAttempts = 2
  MaxCrashes = 1
INVARIANTS ReapedOnce NobodyEscapes OneGeneration
PROPERTIES ShutdownEnds
CHECK_DEADLOCK FALSE

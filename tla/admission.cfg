SPECIFICATION Spec
CONSTANTS
  Frames <- MCFrames
  Root = 0
  Above <- MCAbove
  Cost <- MCCost
  Calls <- MCCalls
  Caller <- MCCaller
  Tasks <- MCTasks
  Disallowed = {3}
  MaxDepth = 2
  MaxBreadth = 2
  MaxFrames = 4
  MaxSpend = 4
  MaxRestarts = 1
INVARIANTS ReservationsAreExact CapsHold
CHECK_DEADLOCK FALSE

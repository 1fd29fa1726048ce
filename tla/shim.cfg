SPECIFICATION FairSpec
CONSTANTS
  v1 = v1
  v2 = v2
  plain = plain
  omits = omits
  bad = bad
  None = None
  Calls = {v1, v2}
  Contents = {plain, omits, bad}
  Omitting = {omits}
  Invalid = {bad}
  MaxAttempts = 2
  MaxLosses = 1
INVARIANTS PaidOnce
PROPERTIES RejectionIsExplained EveryCallEnds
CHECK_DEADLOCK FALSE

SPECIFICATION Spec
CONSTANTS
  v1 = v1
  v2 = v2
  plain = plain
  omits = omits
  bad = bad
  None = None
  Calls = {v1, v2}
  Contents = {plain, omits, bad}
  Omitting = {omits}
  Invalid = {bad}
  MaxAttempts = 2
  MaxLosses = 0
INVARIANTS ReissueReconnects
CHECK_DEADLOCK FALSE

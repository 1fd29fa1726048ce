SPECIFICATION FairSpec
CONSTANTS
  r1 = r1
  r2 = r2
  a1 = a1
  a2 = a2
  c1 = c1
  q1 = q1
  Procs = {r1, r2, a1, a2, c1}
  Questions = {q1}
  Role <- MCRole
  None = None
INVARIANTS LogIsContiguous OneAnswerEach
PROPERTIES AnswerIsHeard
CHECK_DEADLOCK FALSE

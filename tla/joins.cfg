SPECIFICATION FairSpec
CONSTANTS
  MaxIndex = 1
  work = work
  ask = ask
  r1 = r1
  r2 = r2
  t1 = t1
  t2 = t2
  t3 = t3
  Contents = {ask}
  ToolOf <- MCTools
  Results = {r1}
  Threads = {t1, t2}
  None = None
  MaxAttempts = 1
  MaxRestarts = 0
  JoinMayTimeOut = TRUE
PROPERTIES JoinsTerminate RequestsSettle ToolReturnIsFinal
CHECK_DEADLOCK FALSE

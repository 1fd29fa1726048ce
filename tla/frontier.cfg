SPECIFICATION Spec
CONSTANTS
  MaxIndex = 1
  work = work
  ask = ask
  r1 = r1
  r2 = r2
  t1 = t1
  t2 = t2
  t3 = t3
  Contents = {work, ask}
  ToolOf <- MCTools
  Results = {r1}
  Threads = {t1, t2}
  None = None
  MaxAttempts = 2
  MaxRestarts = 1
  JoinMayTimeOut = FALSE
SYMMETRY MCThreadSymmetry
INVARIANTS SingleLeader OnePending EffectIsOwed ReplyIsDurable
PROPERTIES ExitSettlesCalls InterruptIsLast ImplementsLedger
CHECK_DEADLOCK FALSE

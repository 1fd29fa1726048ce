SPECIFICATION Spec
CONSTANTS
  p = p
  q = q
  None = None
  Tasks = 2
  Paths <- MCShared
  MaxCommits = 1
  MaxRetries = 1
  MaxRestarts = 2
INVARIANTS ReceiptsHold OwnersAreDisjoint IntentIsHeld BlockNeedsAbandonedIntent
PROPERTIES NoFalseFailure GuardIsSound
CHECK_DEADLOCK FALSE

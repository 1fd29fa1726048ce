SPECIFICATION FairSpec
CONSTANTS
  t1 = t1
  t2 = t2
  Threads = {t1, t2}
  MaxRecords = 4
  MaxCrashes = 2
  MaxPowerFailures = 2
INVARIANTS FileParses MemoryIsTheFile TailInOrder
PROPERTIES ImplementsLog TailCatchesUp
CHECK_DEADLOCK FALSE

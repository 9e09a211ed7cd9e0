SPECIFICATION FairSpec
CONSTANTS
  t1 = t1
  t2 = t2
  t3 = t3
  Text = {t1, t2, t3}
  Block = {b1, b2}
  Hash <- CollidingHash
  InitialCapacity = 2
  CapacityLimit = 8
  CallocMayFail = TRUE
  Freed = Freed
INVARIANTS TypeOK OneIdPerText OwnedBlocksAreLive
PROPERTIES OnlyRefusalsLeak ImplementsInterner CallsReturn
CHECK_DEADLOCK FALSE

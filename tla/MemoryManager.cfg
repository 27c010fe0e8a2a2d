SPECIFICATION FairSpec
CONSTANTS
  Thread = {t1, t2, t3}
  Amounts = {1, 6}
  Base = 4
  Reserve = 1
CHECK_DEADLOCK FALSE
INVARIANTS
    MemorySafe
PROPERTIES
    EventuallyServed

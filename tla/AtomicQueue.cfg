\* Every thread may be left spinning on the lock a get_front has kept.
CONSTANTS
  Threads = {t1, t2, t3}
  Items = {a, b}
  NoItem = NoItem
  MaxPushed = 2
SPECIFICATION QueueSpec
CHECK_DEADLOCK FALSE
INVARIANTS
  QueueInv
PROPERTIES
  ImplementsFifo

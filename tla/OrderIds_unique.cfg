\* do two sessions ever get the same id?
CONSTANTS
  Threads = {t1, t2}
  MaxOrders = 2
  Null = Null
SPECIFICATION Spec
INVARIANTS ThreadSafeIds
CHECK_DEADLOCK FALSE

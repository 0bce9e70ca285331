\* three sessions, two messages each, that may all race for the generator
CONSTANTS
  t1 = t1  t2 = t2  t3 = t3
  Threads = {t1, t2, t3}
  MaxOrders = 2
  Null = Null
  IntMax = 999
  Unwritten = Unwritten
  Sends <- MCSends
  MatchesOf <- MCMatchesOf
SPECIFICATION EntrySpec
SYMMETRY SessionSymmetry
INVARIANTS PatternRead CompleteIsOrdered OnlyMissingIsUnwritten TurnsKept SameIdTwoGenerators
CHECK_DEADLOCK FALSE

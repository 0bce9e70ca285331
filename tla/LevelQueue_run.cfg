\* three bids, two of them with the same id, and one ask; two threads
CONSTANTS
  b1 = b1  b2 = b2  b3 = b3  a1 = a1
  i1 = i1  i2 = i2  i3 = i3
  Orders = {b1, b2, b3, a1}
  Bids = {b1, b2, b3}
  Ids = {i1, i2, i3}
  IdOf <- MCIdOf
  Quantities <- MCQuantities
  Threads = {t1, t2}
  Null = Null
SPECIFICATION FairSpec
INVARIANTS SizeAgrees SizeNeverNegative StatusAgrees IInv
PROPERTIES MissIsHonest Implements CallsReturn

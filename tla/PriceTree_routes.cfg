CONSTANTS
  o1 = o1  o2 = o2  o3 = o3  Null = Null
  Root = 1230
  Additions <- Ctor
  Tolerance = 9
  Rounded <- RoundedPairs
  Orders = {o1}
  Prices <- ManyPrices
  FallOff = {"null", "crash"}
SPECIFICATION Spec
INVARIANTS IInv CancelMeetsInsert RightLevel
CHECK_DEADLOCK FALSE

CONSTANTS
  o1 = o1  o2 = o2  o3 = o3  Null = Null
  Root = 1230
  Additions <- Small
  Tolerance = 9
  Rounded <- RoundedPairs
  Orders = {o1, o2, o3}
  Prices = {1220, 1250}
  FallOff = {"null"}
SPECIFICATION FairSpec
INVARIANTS QuotesAreBest
PROPERTIES Implements ScansReturn
CHECK_DEADLOCK FALSE

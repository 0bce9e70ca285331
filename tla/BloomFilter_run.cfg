CONSTANTS
  Elements <- MCElements
  StdHash <- MCHash
  Width = 20
  Sizes = {0, 1, 7, 5000}
  Counts = {0, 1, 3}
SPECIFICATION Spec
INVARIANTS NoFalseNegatives MaybeHasReason
CHECK_DEADLOCK FALSE

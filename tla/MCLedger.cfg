\* Three transaction ids, amounts 0 .. 2, two screens open at once.
CONSTANTS
  N = 3
  MaxAmount = 2
  MaxInt = 15
  Profiles = {p1}
  Screens = {s1, s2}
  Amounts <- MCAmounts
SPECIFICATION Spec
SYMMETRY MCSymmetry
INVARIANTS
  BalanceNeverNegative
  RefusedOnlyToProtectBalance
PROPERTIES
  DeletedStaysDeleted
CHECK_DEADLOCK FALSE

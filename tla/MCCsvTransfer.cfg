\* Four transaction ids, amounts 0 and 1, one screen beside the tools.
CONSTANTS
  N = 4
  MaxAmount = 1
  MaxInt = 15
  Profiles = {p1}
  Screens = {s1}
  Amounts <- MCAmounts
SPECIFICATION CsvSpec
INVARIANTS
  CsvTypeOK
  BalanceNeverNegative
  NoCopyBesideOriginal
PROPERTIES
  RefusedOnlyAsAWhole
  WholeImportsOnly
CHECK_DEADLOCK FALSE

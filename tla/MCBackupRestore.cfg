\* Two transaction ids, amounts 0 .. 2, one screen, two profiles, one change of
\* the other tables.
CONSTANTS
  N = 2
  MaxAmount = 2
  MaxInt = 15
  MaxChanges = 1
  Profiles = {p1, p2}
  Screens = {s1}
  Amounts <- MCAmounts
SPECIFICATION BackupSpec
INVARIANTS
  BalanceNeverNegative
PROPERTIES
  RestoresAllOrNothing
CHECK_DEADLOCK FALSE

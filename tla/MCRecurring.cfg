\* One rule on a calendar of two days, two passes and two pending calls.  Both
\* horizons end today, so that the second day brings a date to store.
CONSTANTS
  Rules = {r1}
  Passes = {q1, q2}
  Taps = {t1, t2}
  Drafts <- MCDrafts
  Amounts = {2}
  LastDay = 1
  LastToday = 1
  Horizon = 0
  SaveHorizon = 0
  ToPayday = 1
SPECIFICATION RecurringSpec
INVARIANTS
  PaidOnce
  PassStoresSchedule
  PassesEnd
PROPERTIES
  OccurrencesKept
SYMMETRY MCSymmetry
CHECK_DEADLOCK FALSE

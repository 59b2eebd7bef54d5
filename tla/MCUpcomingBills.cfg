\* One rule on a calendar of three days, one pass and one pending call.
CONSTANTS
  Rules = {r1}
  Passes = {q1}
  Taps = {t1}
  Drafts <- MCDrafts
  Amounts = {2}
  LastDay = 2
  LastToday = 1
  Horizon = 1
  SaveHorizon = 2
  ToPayday = 1
SPECIFICATION RecurringSpec
INVARIANTS
  UpcomingBillsCounted
CHECK_DEADLOCK FALSE

\* One plan of two instalments, which can be made twice; an amount that splits
\* evenly, one that does not, and one that is refused.
CONSTANTS
  Plans = {p1}
  Taps = {t1, t2}
  Passes = {q1, q2}
  Count = 2
  Amounts = {0, 2, 3}
  MaxGen = 2
SPECIFICATION InstalmentsSpec
INVARIANTS
  InstalmentsAddUp
  CompletedMeansPaid
  NoPaymentForgotten
  NoReminderMissing
PROPERTIES
  PaidPlansLocked
SYMMETRY MCSymmetry
CHECK_DEADLOCK FALSE

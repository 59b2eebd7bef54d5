CONSTANTS
  MaxCalls = 3
  m1 = m1
  m2 = m2
  m3 = m3
  p = p
  q = q
  None = None
  Messages <- MCMessages
  Payments <- MCPayments
  Tells <- MCTells
  Limit = 2
  MaxWrites = 1
SPECIFICATION MessagesSpec
INVARIANTS
  MessagesTypeOK
  NotifiedOnce
  DroppedOnlyIfNotified
PROPERTIES
  CallsEnd
CHECK_DEADLOCK FALSE

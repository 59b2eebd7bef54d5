CONSTANT MaxTaps = 4
SPECIFICATION WidgetSpec
INVARIANTS
  WidgetTypeOK
  ExecutedOnce
  NewestKept
PROPERTIES
  OneScreenAtATime
  NewestExecuted
CHECK_DEADLOCK FALSE

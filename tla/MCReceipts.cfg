\* Two transactions, two images, one form, crashes.
CONSTANTS
  MaxTx = 2
  MaxReceipt = 2
  Forms = {f1}
  Crashes = TRUE
  Nobody = Nobody
SPECIFICATION ReceiptsSpec
INVARIANTS
  StoredReceiptHasFile
  NoFileForgotten
PROPERTIES
  SavesEnd
CHECK_DEADLOCK FALSE

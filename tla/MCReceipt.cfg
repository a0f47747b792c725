\* Receipts of up to four words.
SPECIFICATION Spec
CONSTANTS
  MaxWords = 4
  Receipts <- MCReceipts
  Tolerance = 100
  Threshold = 50
  Separator = Separator
  Other = Other
  None = None
INVARIANTS
  FirstTokenWins
  WordsAreGrouped
  FieldsAreReported
  OkReconciles
CHECK_DEADLOCK FALSE

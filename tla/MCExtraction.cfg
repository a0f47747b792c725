\* Two uploads of contracts or receipts, two crashes, one reader.
SPECIFICATION FairSpec
CONSTANTS
  longPdf = longPdf
  blankPdf = blankPdf
  NoFile = NoFile
  NoId = NoId
  NoRequest = NoRequest
  Requests = {r1, r2}
  Ids = {i1, i2}
  Pdfs = {longPdf, blankPdf}
  Images = {img}
  MaxBatches = 2
  NumBatches <- MCNumBatches
  Viewers = {v1}
  MaxCrashes = 2
INVARIANTS
  RowHasObject
  CitationsResolve
  FailureLeavesNoRecord
  ChecksStillHold
  NoDanglingRead
PROPERTIES
  ImplementsRegistry
  EveryUploadEnds
CHECK_DEADLOCK FALSE

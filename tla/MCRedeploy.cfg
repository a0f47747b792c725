\* One contract is extracted, the api container is recreated.
SPECIFICATION RedeploySpec
CONSTANTS
  longPdf = longPdf
  blankPdf = blankPdf
  NoFile = NoFile
  NoId = NoId
  NoRequest = NoRequest
  Requests = {r1}
  Ids = {i1}
  Pdfs = {longPdf}
  Images = {}
  MaxBatches = 2
  NumBatches <- MCNumBatches
  Viewers = {v1}
  MaxCrashes = 1
INVARIANTS
  CitedStaysReadable
CHECK_DEADLOCK FALSE

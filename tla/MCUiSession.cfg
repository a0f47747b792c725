SPECIFICATION Spec
CONSTANTS
  s1 = s1
  s2 = s2
  Sessions = {s1, s2}
  Ids = {i1, i2}
  None = none
  MaxUploads = 2
  MaxActs <- MCActs
  Uploads <- MCUploads
CHECK_DEADLOCK FALSE
INVARIANTS
  IdIsLatestTold
  AnswersMatchId
  RowsWithinPresses
PROPERTIES
  EveryRunEnds

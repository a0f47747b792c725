SPECIFICATION TrainingSpec
CONSTANTS
  Steps = 7
  SaveSteps = 2
  SaveLimit = 2
  MaxRuns = 3
  MaxBad = 2
  None = none
CHECK_DEADLOCK FALSE
INVARIANTS
  VersionsAreTrained
  ProgressIsKept
  ExportsAreOfVersion
PROPERTIES
  TrainingEnds

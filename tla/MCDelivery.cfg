SPECIFICATION DeliverySpec
CONSTANTS
  MaxTrainings = 2
  MaxVersions = 2
  MaxFails = 2
  n1 = n1
  n2 = n2
  Names = {n1, n2}
  l1 = l1
  l2 = l2
  Loaders = {l1, l2}
  Absent = absent
  Holed = holed
SYMMETRY Symmetric
CHECK_DEADLOCK FALSE
INVARIANTS
  VersionIsWhole
  OnnxIsOfSource
  LoadedIsPinned
  OneOfThemLoads

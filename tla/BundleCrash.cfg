SPECIFICATION Spec
CONSTANTS
  l1 = l1
  l2 = l2
  l3 = l3
  Locations <- Bundles3
  Packed <- OnePacked
  MaxBundleID = 2
  MaxRevision = 2
  MaxApk = 1
  MaxIOErrors = 1
  Absent = Absent
  Torn = Torn
  Saved = Saved
SYMMETRY OnDemandSymmetry
CONSTRAINT BeforeReuse
INVARIANTS
  TypeOK
  LoadedIsOwnCode
  IdsDistinct
  RestartMatchesTable
PROPERTIES
  OthersUntouched
  CurrentRevisionStable
CHECK_DEADLOCK FALSE

SPECIFICATION Spec
CONSTANTS
  l1 = l1
  l2 = l2
  l3 = l3
  Locations <- Bundles2
  Packed <- OnePacked
  MaxBundleID = 2
  MaxRevision = 2
  MaxApk = 1
  MaxIOErrors = 0
  Absent = Absent
  Torn = Torn
  Saved = Saved
PROPERTIES
  UninstalledStaysGone
CHECK_DEADLOCK FALSE

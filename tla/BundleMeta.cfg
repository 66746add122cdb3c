SPECIFICATION Spec
CONSTANTS
  l1 = l1
  l2 = l2
  l3 = l3
  Locations <- Bundles3
  Packed <- OnePacked
  MaxBundleID = 2
  MaxRevision = 2
  MaxApk = 1
  MaxIOErrors = 0
  Absent = Absent
  Torn = Torn
  Saved = Saved
SYMMETRY OnDemandSymmetry
INVARIANTS
  MetaNamesBundle
CHECK_DEADLOCK FALSE

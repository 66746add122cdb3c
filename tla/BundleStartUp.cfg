SPECIFICATION FairSpec
CONSTANTS
  l1 = l1
  l2 = l2
  l3 = l3
  Locations <- Bundles2
  Packed <- Bundles2
  MaxBundleID = 2
  MaxRevision = 1
  MaxApk = 2
  MaxIOErrors = 2
  Absent = Absent
  Torn = Torn
  Saved = Saved
INVARIANTS LoadedIsCurrentApk
PROPERTIES CommitCoversBundles
  StartUpEnds
CHECK_DEADLOCK FALSE

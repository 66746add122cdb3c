SPECIFICATION Spec
CONSTANTS
  Names <- TwoNames
  Undoes <- TwoUndoes
  Contains <- TwoContains
  MaxVersion = 3
  MaxElements = 4
  MaxApk = 2
  MaxIOErrors = 1
  Absent = Absent
  Torn = Torn
INVARIANTS TypeOK NewestPatchWins PatchesBeforeBundles NoStalePatch RestartRunsMap
CHECK_DEADLOCK FALSE

SPECIFICATION ImagesSpec
CONSTANTS
  t1 = t1  t2 = t2  u1 = u1  u2 = u2  u3 = u3  u4 = u4
  main = main
  NoUnit = NoUnit
  Threads <- TwoThreads
  Clients <- OneClient
  Units <- FourImages
  Broken <- OneBroken
  Backlog = 1
  MayStop = {}
  SpawnMayFail = TRUE
INVARIANTS ResultTellsTruth NoUnitLeaks
PROPERTIES ImagesEnd
CHECK_DEADLOCK FALSE

SPECIFICATION FairSpec
CONSTANTS
  t1 = t1  t2 = t2  c1 = c1  c2 = c2  u1 = u1  u2 = u2  u3 = u3  u4 = u4  u5 = u5
  NoUnit = NoUnit
  Threads <- Threads2
  Clients <- Clients2
  Units <- Units5
  Backlog = 1
  MayStop <- Units5
  SpawnMayFail = TRUE
ACTION_CONSTRAINT InOrder
INVARIANTS TypeOK IdleThreadsExact PoolGrowsWithWork BacklogBound NoLostWakeup DeletedOnce
           FinishCompletes
PROPERTIES ThreadsFixedOnceFinished RefinesBag UnitsServed ScheduleReturns FinishReturns
CHECK_DEADLOCK FALSE

CONSTANTS
  Worker = {w1, w2}
  Main = Main
  Idle = Idle
  NoThread = NoThread
  Sema = {s1}
  TidLock = TidLock
  NoSema = NoSema
  InitValue = 0
  MaxValue = 1
  PriMin = 0
  PriMax = 2
  PriDefault = 1
  NewPriority = {0,2}
  SleepTicks = {1}
  MaxTicks = 2
  TimeSlice = 4
  PriorityPeriod = 2
  IntMax = 7
  Aging = TRUE
  Mlfqs = FALSE
SPECIFICATION FairSpec
PROPERTIES NoStarvation SleepersWake

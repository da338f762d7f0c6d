CONSTANTS
  Worker = {w1, w2}
  Main = Main
  Idle = Idle
  NoThread = NoThread
  Sema = {s1}
  TidLock = TidLock
  NoSema = NoSema
  InitValue = 0
  MaxValue = 1
  PriMin = 0
  PriMax = 1
  PriDefault = 1
  NewPriority = {1}
  SleepTicks = {0, 1, 3}
  MaxTicks = 4
  TimeSlice = 4
  PriorityPeriod = 2
  IntMax = 7
  Aging = FALSE
  Mlfqs = TRUE
SPECIFICATION Spec
SYMMETRY Symmetry
INVARIANTS NoOversleep
PROPERTIES NeverEarly

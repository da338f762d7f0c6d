CONSTANTS
  Worker = {w1, w2, w3}
  Main = Main
  Idle = Idle
  NoThread = NoThread
  Sema = {s1}
  TidLock = TidLock
  NoSema = NoSema
  InitValue = 0
  MaxValue = 2
  PriMin = 0
  PriMax = 2
  PriDefault = 1
  NewPriority = {1, 2}
  SleepTicks = {}
  MaxTicks = 0
  TimeSlice = 4
  PriorityPeriod = 4
  IntMax = 7
  Aging = FALSE
  Mlfqs = FALSE
SPECIFICATION Spec
SYMMETRY Symmetry
INVARIANTS TypeOK ElemExclusive WaitersSorted Preemptive NoLostWakeup

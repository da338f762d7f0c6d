SPECIFICATION FairSpec
CONSTANTS
  a = a  b = b  c = c
  Started <- Three
  Idle = Idle
  TimerFreq = 100
  StartNice <- Graded
  NewNice <- CallNice
  MaxNice = 20
  MaxCalls = 4
  FirstTick = 95
  MaxTicks = 100
  IntMax = 2147483647
INVARIANTS RunsHighest Within
PROPERTIES NoStarvation
CHECK_DEADLOCK FALSE

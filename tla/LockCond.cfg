SPECIFICATION FairSpec
CONSTANTS
  low1 = low1  low2 = low2  mid = mid  high = high
  Thread = {low1, low2, mid, high}
  NoThread = NoThread
  Cond = {c1, c2}
  NoCond = NoCond
  Pri <- MCPri
INVARIANTS LockAccounted
PROPERTIES MesaMonitor SignalReaches
CHECK_DEADLOCK FALSE

SPECIFICATION FairSpec
CONSTANTS
  Reader = {r1, r2}
  Writer = {w1, w2}
  NoThread = NoThread
  Key = {k}
  Intr = Intr
  NoByte = NoByte
  MsgLen = 3
  BufSize = 3
  MaxPrints = 1
INVARIANTS SleeperStuck IerFresh MessagesWhole
PROPERTIES QueuesKeepBytes PrintsAll
CHECK_DEADLOCK FALSE

SPECIFICATION FairSpec
CONSTANTS
  Thread = {t1, t2}
  NoThread = NoThread
  hda1 = hda1  hda2 = hda2  hdb1 = hdb1
  Block = {hda1, hda2, hdb1}
  Disk = {0, 1}
  Place <- MCPlace
  DiskSize = 2
  Data = {d0, d1}
  Blank = d0
  MaxSpurious = 1
INVARIANTS WriteAcknowledged
PROPERTIES BlocksAtomic CommandsEnd
CHECK_DEADLOCK FALSE

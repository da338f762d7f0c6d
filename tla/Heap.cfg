SPECIFICATION HeapSpec
CONSTANTS
  Caller = {t1, t2}
  Pages = 4
  PageSize = 6
  Header = 3
  MinBlock = 1
  Word = 64
  Sizes = {1, 6}
  Counts = {1, 2}
  MaxHeld = 2
  None = None
INVARIANTS HeldApart ArenaCounts NobodyStuck
SYMMETRY Alike
CHECK_DEADLOCK FALSE

SPECIFICATION Spec
CONSTANTS
  p1 = p1  p2 = p2  n1 = n1  n2 = n2
  Proc = {p1, p2}
  Name = {n1, n2}
  Programs <- OneProgram
  Image <- MCImage
  Sectors = 4
  Slots = 2
  Inode = {i1, i2}
  File = {f1, f2}
  Fd = {2}
  Lengths = {1}
  Data = {d0, d1}
  Zero = d0
  MaxCalls = 5
  None = None
CONSTRAINT Apart
INVARIANTS CountsOpeners SectorsOwned
PROPERTIES StoreRefined
SYMMETRY Alike
CHECK_DEADLOCK FALSE

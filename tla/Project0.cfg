SPECIFICATION MCSpec
CONSTANTS
  Name = {x, y}
  NoName = NoName
  ArraySize = 2
  Bits = 2
  Hash <- MCHash
  MinBuckets = 1
  BestPerBucket = 1
  MaxElems = 2
  Lists = {a, b}
  Elem = {e1, e2, e3, e4}
  ListValue = {1, 2}
  NoValue = 0
  Null = Null
  ElemBits = 3
  AsmBits = 3
  MaxBits = 7
CONSTRAINT OneSlot
SYMMETRY Alike
INVARIANTS IsSet NamesLive ImplementsArray
PROPERTIES ImplementsSequences
CHECK_DEADLOCK FALSE

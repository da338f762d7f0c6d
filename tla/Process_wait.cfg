SPECIFICATION Spec
CONSTANTS
  MaxTid = 4
  Pages = 6
  Codes <- MCCodes
  Calls <- WaitCalls
INVARIANTS
  TypeOK
  FirstLoadHasParent
  PagesAccounted
  WaitedChildExists
PROPERTIES
  WaitKeepsContract
CHECK_DEADLOCK FALSE

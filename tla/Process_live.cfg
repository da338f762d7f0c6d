SPECIFICATION FairSpec
CONSTANTS
  MaxTid = 3
  Pages = 9
  Codes <- MCCodes
  Calls <- AllCalls
INVARIANTS
  MutexExclusive
PROPERTIES
  SpinsEnd
CHECK_DEADLOCK FALSE

CONSTANTS
  Programs <- MCPrograms
  Codes <- MCCodes
SPECIFICATION LoweringSpec
INVARIANTS
  CodeFollowsFunction
  DeadStoresUnread
CHECK_DEADLOCK FALSE

CONSTANTS
  NodeNum = 4
  Lists <- MCLists

SPECIFICATION Spec
CHECK_DEADLOCK FALSE

INVARIANTS
  OrderIsTopological
  ThrowsOnlyOnCycle

PROPERTY Ends

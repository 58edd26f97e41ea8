CONSTANTS
  EmptyPlan <- MCEmptyPlan
  Extensions <- MCExtensions
  MaxTasks = 3
  Align = 2
  Runs = 2

SPECIFICATION LSpec
CHECK_DEADLOCK FALSE

INVARIANTS
  OperandsIntact
  OutputsIntact
  BlocksReturned
  ThrowsOnPinnedOnly

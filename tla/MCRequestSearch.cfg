CONSTANTS
  MaxRequests = 4
  MaxTotal = 5
  TileY = 3
  Stride = 2

SPECIFICATION Spec
CHECK_DEADLOCK FALSE

INVARIANTS
  FindsRequest


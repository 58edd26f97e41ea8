CONSTANTS
  c1 = c1
  c2 = c2
  c3 = c3
  t1 = t1
  t2 = t2
  t3 = t3
  t4 = t4
  t5 = t5
  NumWorkers = 2
  Clients = {c1, c2, c3}
  Tasks = {t1, t2, t3, t4, t5}
  Outside <- MCOutside
  Inside <- MCInside
  Calls <- MCCalls
  PieceOf <- MCPieceOf
  Lanes = 2
  MaxElements = 7

SPECIFICATION RSpec
CHECK_DEADLOCK FALSE

INVARIANT DrainPolicy

CONSTANTS
  Threads = {t1, t2}
  Ptrs = {p1, p2}
  t1 = t1
  t2 = t2
  p1 = p1
  p2 = p2
  DeviceNum = 2
  StreamsPerDevice = 2
  MaxContexts = 1
  Made <- MCMade
  Reallocates <- MCReallocates
  Reshapes <- MCReshapes
  Views <- MCViews

SYMMETRY Symmetry
SPECIFICATION Spec
CHECK_DEADLOCK FALSE

INVARIANTS
  RoundRobin
  Managed
  WithinBuffer

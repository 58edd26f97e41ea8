CONSTANTS
  l1 = l1
  l2 = l2
  Requests = {r1, r2, r3}
  Layers = {l1, l2}
  MaxLen <- MCMaxLen
  PageSize = 2
  MaxRequestNum = 2
  SeqLens = {1, 3}

SPECIFICATION Spec
SYMMETRY Symmetry

INVARIANTS
  PagesPartitioned
  TablesCover
  BoundFits
  NeverExhaustedWithinLimit

PROPERTY UsesPools

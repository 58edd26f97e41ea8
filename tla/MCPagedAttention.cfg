CONSTANTS
  l1 = l1
  l2 = l2
  Requests = {r1, r2}
  Layers = {l1, l2}
  MaxLen <- MCMaxLen
  PageSize = 2
  MaxRequestNum = 2
  SeqLens = {1, 3}

SPECIFICATION ASpec
SYMMETRY Symmetry

INVARIANTS
  NoWriteRace
  CacheHoldsHistory

PROPERTY ImplementsKVCache

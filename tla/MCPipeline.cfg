CONSTANTS
  l1 = l1
  l2 = l2
  Requests <- MCRequests
  Layers = {l1, l2}
  MaxLen <- MCMaxLen
  AttnTasks <- MCAttnTasks
  PageSize = 2
  MaxRequestNum = 2
  SeqLens = {1, 2}
  MaxCalls = 2
  MaxPrompts = 3
  MaxNewTokens = 3
  EosTokenId = 2
  VocabSize = 5
  Logits = {0, 1, 2}
  Inverses = {1, 2}
  Parts = 4
  Exp <- MCExp

SPECIFICATION PSpec
CHECK_DEADLOCK FALSE

INVARIANTS
  PosMatchesSlot
  PicksNucleus
  WithinLimitsBinds
  NoLeakUnlessThrown

PROPERTY ApplyEnds

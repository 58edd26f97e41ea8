CONSTANTS
  NodeNames <- MCNodeNames
  TensorNames = {a, b, c}
  a = a
  b = b
  c = c
  Params <- MCParams
  Shapes <- MCShapes
  MaxDeclared = 2
  InputSets <- MCInputSets
  OutputSets <- MCOutputSets
  Ranges <- MCRanges
  LlamaConfigs <- MCLlamaConfigs
  Runs <- MCRuns
  InputShapes <- MCInputShapes
  MaxRequestNum = 2
  Queries = {1, 4}
  MaxRuns = 2

SYMMETRY Symmetry
SPECIFICATION XSpec
CHECK_DEADLOCK FALSE

INVARIANTS
  CrossReferenced
  PlanSound
  ValidGraphPlan
  ModelGraph
  ExecutionFits

PROPERTIES
  DCEKeepsMeaning
  ExecutesAnew

CONSTANTS
  Sizes = {1, 2, 4}
  Alignments = {1, 2, 3}
  MaxSize = 9

SPECIFICATION Spec
CHECK_DEADLOCK FALSE

INVARIANTS
  ArenaSound

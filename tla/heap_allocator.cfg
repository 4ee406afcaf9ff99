SPECIFICATION Spec
CONSTANTS
  Word = 2
  HeapSize = 32
  Layouts <- MCLayouts
INVARIANTS TypeOK BlocksAreSound NodesAlwaysFit HeapIsConserved
CHECK_DEADLOCK FALSE

SPECIFICATION Spec
CONSTANTS
  a = a
  b = b
  c = c
  d = d
  Concepts <- MCConcepts
  InitEdges <- MCInitEdges
  MaxDepths = {2, 4}
INVARIANTS
  TypeOK
  WalkIsCredit
PROPERTY
  WalkEnds
CHECK_DEADLOCK FALSE

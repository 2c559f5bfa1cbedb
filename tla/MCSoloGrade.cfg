SPECIFICATION Spec
CONSTANTS
  a = a
  b = b
  c = c
  s1 = s1
  malformed = malformed
  Concepts <- MCConcepts
  InitEdges <- MCInitEdges
  Ids <- MCIds
  Requests <- MCRequests
  Sessions = {s1}
  EnableFire = TRUE
  CanCrash = FALSE
  MaxRequests = 2
PROPERTY
  GradesAtomically
CHECK_DEADLOCK FALSE

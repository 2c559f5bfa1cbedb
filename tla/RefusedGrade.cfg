SPECIFICATION Spec
CONSTANTS
  a = a
  b = b
  s1 = s1
  s2 = s2
  malformed = malformed
  Concepts <- MCConcepts
  InitEdges <- MCInitEdges
  Ids <- MCIds
  Requests <- MCRequests
  Sessions = {s1}
  EnableFire = TRUE
  CanCrash = FALSE
  MaxRequests = 2
INVARIANT
  RefusedGradesLeaveNothing
CHECK_DEADLOCK FALSE

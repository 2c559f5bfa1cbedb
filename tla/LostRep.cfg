SPECIFICATION Spec
CONSTANTS
  a = a
  b = b
  s1 = s1
  s2 = s2
  malformed = malformed
  Concepts <- MCConcepts
  InitEdges <- MCInitEdges
  Ids <- MCIds
  Requests <- MCGoodRequests
  Sessions = {s1, s2}
  EnableFire = TRUE
  CanCrash = FALSE
  MaxRequests = 2
INVARIANT
  EveryReviewCountsAsARep
SYMMETRY MCSessions
CHECK_DEADLOCK FALSE

SPECIFICATION Spec
CONSTANTS
  a = a
  b = b
  s1 = s1
  s2 = s2
  malformed = malformed
  Concepts <- MCConcepts
  InitEdges <- MCInitEdges
  Ids <- MCIds
  Requests <- MCRequests
  Sessions = {s1, s2}
  EnableFire = TRUE
  CanCrash = TRUE
  MaxRequests = 4
INVARIANTS
  TypeOK
  LoggedConceptHasRow
  ExamReadyHasLoggedEvidence
  UnspoiledRowsCoverLog
SYMMETRY MCSessions
CHECK_DEADLOCK FALSE

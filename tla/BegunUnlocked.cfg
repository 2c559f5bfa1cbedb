SPECIFICATION Spec
CONSTANTS
  a = a
  b = b
  c = c
  nowhere = nowhere
  Concepts <- MCConcepts
  InitEdges <- MCInitEdges
  Ids <- MCIds
  Citations <- MCCitations
  Foci <- MCFoci
  EnableFire = TRUE
  SkipThreshold = 2
  Scores = {2, 4, 5}
  MaxReviews = 3
  MaxChecked = 2
PROPERTY
  BegunOnlyWhenUnlocked

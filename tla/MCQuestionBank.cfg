SPECIFICATION Spec
CONSTANTS
  a = a
  b = b
  ab = ab
  g1 = g1
  g2 = g2
  Concepts = {a, b}
  Links = {ab}
  SrcOf <- MCSrcOf
  Batches <- MCBatches
  Generators = {g1, g2}
  CliFlags = TRUE
  MaxPerAnchor = 1
  MaxRuns = 2
INVARIANTS
  TypeOK
  EveryRowHasProse
  FailedRunsLeaveNothing
  HalvesMatch
PROPERTY
  FlaggedIsNotChosen
SYMMETRY MCGenerators

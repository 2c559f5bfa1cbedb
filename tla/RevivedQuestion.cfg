SPECIFICATION Spec
CONSTANTS
  a = a
  b = b
  ab = ab
  g1 = g1
  g2 = g2
  Concepts = {a, b}
  Links = {ab}
  SrcOf <- MCSrcOf
  Batches <- MCBatches
  Generators = {g1}
  CliFlags = FALSE
  MaxPerAnchor = 1
  MaxRuns = 2
PROPERTY
  FlaggedIsNeverServed

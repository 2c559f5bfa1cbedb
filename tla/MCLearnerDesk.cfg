SPECIFICATION Spec
CONSTANTS
  Concepts = {1, 2, 3}
  Reserved = {3}
  Courses = {1, 2}
  Docs <- MCDocs
  Alike <- MCAlike
  Weight <- MCWeight
  h1 = h1
  h2 = h2
  Handlers = {h1, h2}
  InstantsPerDay = 2
  DaysPerWeek = 1
  Contents <- MCContents
  Keys <- MCKeys
  Intervals = {1, 4}
  Fuel = 2
SYMMETRY Handled
INVARIANTS
  AdaptersAgree
  BundleReadsBack
  IndexTellsBundle
  ChecksAddUp
PROPERTIES
  SyncKeeps
CHECK_DEADLOCK FALSE

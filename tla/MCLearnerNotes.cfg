SPECIFICATION Spec
CONSTANTS
  s1 = s1
  s2 = s2
  algebra = algebra
  insight = insight
  thread = thread
  frame = frame
  Courses = {algebra}
  Kinds = {insight, thread}
  Texts = {frame}
  Reviewable = {insight}
  Sessions = {s1, s2}
  MaxNotes = 2
  MaxReps = 2
  MaxResolutions = 1
INVARIANTS
  TypeOK
  OneActivePerEntry
  NotesTellWhatHappened
  ActiveNotesAreUnanswered
SYMMETRY MCSessions
CHECK_DEADLOCK FALSE

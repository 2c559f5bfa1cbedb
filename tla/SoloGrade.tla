------------------------------ MODULE SoloGrade ------------------------------
(***************************************************************************)
(* What the statements of GradeSessions promise when one session works      *)
(* alone: the atomic handlers of Curriculum. A grade takes effect at its     *)
(* first write; from then on the abstract tables show what the statements    *)
(* still to come will have written.                                         *)
(***************************************************************************)
EXTENDS GradeSessions

\* One session, whose process does not end in the middle of a grade.
Alone == Cardinality(Sessions) = 1 /\ ~CanCrash

\* The sessions past their first write, and the one there is when alone.
Committed == {s \in DOMAIN sess : sess[s].pc \in {"append", "cite", "ripple", "credit"}}
Working == sess[CHOOSE s \in Committed : TRUE]

\* What grade() has yet to do when its local variables are f: to log the score,
LogAfter(entries, f) ==
  IF f.pc = "append" THEN [entries EXCEPT ![f.req.concept] = Append(@, f.req.score)] ELSE entries

\* to record the citations before the first that raises,
EdgesAfter(table, f) == RecordExposure(table, f.cited, Parsed(f.cited))

\* to find the credits to pay, unless a citation raises,
OwedAfter(table, f) ==
  IF f.pc \in {"ripple", "credit"} THEN f.owed
  ELSE IF EnableFire /\ Parsed(f.cited) = Len(f.cited)
  THEN Credit(EdgesAfter(table, f), f.req.concept, GradeToRating(f.req.score))
  ELSE [x \in {} |-> AGAIN]

\* and to pay them.
Paid(rows, owed) == Upsert(rows, [x \in DOMAIN owed |-> Review(RowOr(rows, x, Blank), owed[x])])

FinalLog == IF Committed = {} THEN log ELSE LogAfter(log, Working)
FinalEdges == IF Committed = {} THEN edges ELSE EdgesAfter(edges, Working)
FinalStates == IF Committed = {} THEN states ELSE Paid(states, OwedAfter(edges, Working))

C == INSTANCE Curriculum WITH
  states <- FinalStates,
  log <- FinalLog,
  edges <- FinalEdges,
  served <- [mode |-> "none"],
  check <- [step |-> "idle", unseen |-> {}, mastered |-> {}, near |-> {}, pending |-> {}, ready |-> {},
            rows |-> {}, graded |-> {}],
  SkipThreshold <- 1,
  Scores <- {r.score : r \in Requests},
  Citations <- {r.cited : r \in Requests},
  Foci <- {},
  MaxReviews <- MaxRequests,
  MaxChecked <- 0

\* A session that is alone grades atomically: every statement of grade() is
\* either the whole of one Curriculum step or none of it, so what is proved of
\* those handlers holds of the program as long as one process writes.
GradesAtomically == C!Spec
=============================================================================

------------------------------ MODULE Policies ------------------------------
(***************************************************************************)
(* Pure policy of the service (application/policies.py) and the counters   *)
(* of the scheduler (engine/fsrs.py): what a grade is worth, how a review   *)
(* changes a learner_state row, and when a concept counts as mastered.      *)
(*                                                                          *)
(* FSRS stability and difficulty are abstracted to "recall": "fresh" is     *)
(* not due yet, "due" is due_at <= now, "hard" is due with a retrievability *)
(* below hard_due_retrievability, and "none" is no stability at all.        *)
(***************************************************************************)
EXTENDS Integers, Sequences

AGAIN == 1
HARD == 2
GOOD == 3
EASY == 4
Rating == AGAIN .. EASY

\* Grades are 0..6; the ladder reads nothing else of a review event.
Score == 0 .. 6

Mastery == {"new", "learning", "solid", "exam_ready"}
Recall == {"none", "fresh", "due", "hard"}

\* A row of learner_state.
State == [mastery : Mastery, reps : Nat, lapses : Nat, recall : Recall]

\* The prior of a first review, where get() found no row.
Blank == [mastery |-> "new", reps |-> 0, lapses |-> 0, recall |-> "none"]

GradeToRating(score) ==
  CASE score <= 2 -> AGAIN
    [] score = 3 -> HARD
    [] score \in 4 .. 5 -> GOOD
    [] score > 5 -> EASY

\* Seeded variant: one strong grade is read as two.
OneStrong(recent) ==
  LET n == Len(recent) IN n >= 1 /\ recent[n] >= 5

TwoStrong(recent) ==
  LET n == Len(recent) IN n >= 2 /\ recent[n - 1] >= 5 /\ recent[n] >= 5

\* The ladder: recent ends with the score just given.
NextMastery(score, recent) ==
  IF score <= 2 THEN "learning"
  ELSE IF TwoStrong(recent) THEN "exam_ready"
  ELSE IF score >= 4 THEN "solid"
  ELSE "learning"

IsMastered(mastery) == mastery \in {"solid", "exam_ready"}

\* Seeded variant: a lapse starts the count of repetitions afresh.
RestartingReview(prior, rating) ==
  [prior EXCEPT !.reps = IF rating = AGAIN THEN 1 ELSE @ + 1,
                !.lapses = IF rating = AGAIN THEN @ + 1 ELSE @,
                !.recall = "fresh"]

\* The scheduler's review: one rep more, one lapse more on AGAIN, a due date
\* in the future, and the mastery it was given.
Review(prior, rating) ==
  [mastery |-> prior.mastery,
   reps |-> prior.reps + 1,
   lapses |-> prior.lapses + (IF rating = AGAIN THEN 1 ELSE 0),
   recall |-> "fresh"]

\* The row grade() writes for the concept it was asked about; history is the
\* grades already in review_log.
GradedRow(prior, score, history) ==
  [Review(prior, GradeToRating(score)) EXCEPT
     !.mastery = NextMastery(score, Append(history, score))]

\* INSERT ... ON CONFLICT DO UPDATE of several rows of a table, which is a
\* function from its primary key to its rows.
Upsert(table, rows) ==
  [k \in DOMAIN table \cup DOMAIN rows |-> IF k \in DOMAIN rows THEN rows[k] ELSE table[k]]

\* repository.get(k), with the row of a first review when there is none.
RowOr(table, k, default) == IF k \in DOMAIN table THEN table[k] ELSE default
=============================================================================

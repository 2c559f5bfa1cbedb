--------------------------- MODULE MCLearnerNotes ---------------------------
(***************************************************************************)
(* LearnerNotes with two processes on one course: an insight, which is       *)
(* reviewed, and an open thread, which is not.                              *)
(***************************************************************************)
EXTENDS LearnerNotes, TLC

CONSTANTS s1, s2, algebra, insight, thread, frame

MCSessions == Permutations({s1, s2})
=============================================================================

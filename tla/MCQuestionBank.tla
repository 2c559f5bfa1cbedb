--------------------------- MODULE MCQuestionBank ---------------------------
(***************************************************************************)
(* QuestionBank on two concepts, one of them the source of a link, in two    *)
(* completions, with two runs that may overlap.                             *)
(***************************************************************************)
EXTENDS QuestionBank, TLC

CONSTANTS a, b, ab, g1, g2

MCSrcOf == [l \in {ab} |-> a]

MCBatches == {{a, b}, {ab}}

MCGenerators == Permutations({g1, g2})
=============================================================================

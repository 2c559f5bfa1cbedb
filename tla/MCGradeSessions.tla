--------------------------- MODULE MCGradeSessions ---------------------------
(***************************************************************************)
(* GradeSessions on two concepts that encompass each other through one      *)
(* stored and one cited edge, so that a grade of either may ripple into the  *)
(* row the other session is about to write.                                 *)
(***************************************************************************)
EXTENDS GradeSessions, TLC

CONSTANTS a, b, s1, s2, malformed

Key(s, t, d) == [src |-> s, type |-> t, dst |-> d]
Row(p, w) == [provenance |-> p, weight |-> w, exposures |-> 0, skips |-> 0]
Asked(c, score, cited) == [concept |-> c, score |-> score, cited |-> cited]

MCConcepts == {a, b}

MCIds == EdgeKeys \cup {malformed}

MCInitEdges ==
  Key(a, "encompasses", b) :> Row("inferred", "strong")
  @@ Key(a, "prerequisite", b) :> Row("spine", "strong")

\* A pass that ripples, a pass that cites (and so creates) the edge back, a
\* failure that is blamed on the parent, and a citation that is refused.
MCRequests ==
  {Asked(a, 6, <<>>),
   Asked(b, 5, <<<<Key(b, "encompasses", a), FALSE>>>>),
   Asked(b, 2, <<<<Key(a, "prerequisite", b), TRUE>>, <<malformed, TRUE>>>>)}

\* The same, without a citation to refuse.
MCGoodRequests ==
  {Asked(a, 6, <<>>),
   Asked(b, 5, <<<<Key(b, "encompasses", a), FALSE>>>>),
   Asked(b, 2, <<<<Key(a, "prerequisite", b), TRUE>>>>)}

MCSessions == Permutations({s1, s2})
=============================================================================

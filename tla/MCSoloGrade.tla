----------------------------- MODULE MCSoloGrade -----------------------------
(***************************************************************************)
(* SoloGrade on three concepts in an ENCOMPASSES chain, with requests that  *)
(* ripple over two hops, cite an edge before the ripple that uses it, skip   *)
(* and traverse the same edge, skip one twice, and are refused in the middle. *)
(***************************************************************************)
EXTENDS SoloGrade, TLC

CONSTANTS a, b, c, s1, malformed

Key(s, t, d) == [src |-> s, type |-> t, dst |-> d]
Row(p, w) == [provenance |-> p, weight |-> w, exposures |-> 0, skips |-> 0]
Asked(x, score, cited) == [concept |-> x, score |-> score, cited |-> cited]

MCConcepts == {a, b, c}

MCIds == EdgeKeys \cup {malformed}

MCInitEdges ==
  Key(a, "encompasses", b) :> Row("inferred", "strong")
  @@ Key(b, "encompasses", c) :> Row("inferred", "strong")
  @@ Key(a, "prerequisite", b) :> Row("spine", "strong")

MCRequests ==
  {Asked(a, 5, <<>>),
   Asked(b, 6, <<<<Key(b, "encompasses", a), FALSE>>, <<Key(a, "encompasses", b), FALSE>>,
                 <<Key(a, "encompasses", b), TRUE>>>>),
   Asked(c, 1, <<<<Key(a, "encompasses", c), TRUE>>>>),
   Asked(c, 3, <<<<Key(a, "prerequisite", b), TRUE>>, <<Key(a, "prerequisite", b), TRUE>>>>),
   Asked(b, 4, <<<<Key(a, "related", c), FALSE>>, <<malformed, FALSE>>, <<Key(a, "related", b), FALSE>>>>),
   Asked(a, 2, <<<<Key(c, "related", a), FALSE>>, <<Key(b, "related", c), TRUE>>, <<malformed, TRUE>>>>)}

ASSUME Alone
=============================================================================

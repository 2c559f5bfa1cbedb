---------------------------- MODULE MCCurriculum ----------------------------
(***************************************************************************)
(* Curriculum on three concepts: a spine a -> b -> c, an inferred           *)
(* prerequisite c -> a that closes it to a cycle, a stitch c -> c that gates  *)
(* c by itself, and an ENCOMPASSES cycle a, c, b with a weak link on the way   *)
(* back, so that credit travels two hops and reaches locked concepts.         *)
(***************************************************************************)
EXTENDS Curriculum, TLC

CONSTANTS a, b, c, nowhere

Key(s, t, d) == [src |-> s, type |-> t, dst |-> d]
Row(p, w) == [provenance |-> p, weight |-> w, exposures |-> 0, skips |-> 0]

MCConcepts == {a, b, c}

MCInitEdges ==
  Key(a, "prerequisite", b) :> Row("spine", "strong")
  @@ Key(b, "prerequisite", c) :> Row("manual", "strong")
  @@ Key(c, "prerequisite", c) :> Row("spine", "strong")
  @@ Key(c, "prerequisite", a) :> Row("inferred", "strong")
  @@ Key(a, "encompasses", c) :> Row("inferred", "strong")
  @@ Key(c, "encompasses", b) :> Row("inferred", "strong")
  @@ Key(a, "encompasses", b) :> Row("inferred", "strong")
  @@ Key(b, "encompasses", a) :> Row("inferred", "weak")
  @@ Key(a, "related", c) :> Row("inferred", "strong")

\* A stored connection skipped beside one that ingestion never stored; a stored
\* one traversed twice before an id whose target is no concept.
MCCitations ==
  {<<<<Key(c, "prerequisite", b), FALSE>>, <<Key(a, "related", c), TRUE>>>>,
   <<<<Key(a, "related", c), FALSE>>, <<Key(a, "related", c), FALSE>>, <<Key(a, "related", nowhere), TRUE>>>>}

MCIds == EdgeKeys \cup {Key(a, "related", nowhere)}

MCFoci == {{a, b, c}, {b}}
=============================================================================

------------------------------- MODULE MCFire -------------------------------
(***************************************************************************)
(* Fire on four concepts: two that encompass each other, one reached over    *)
(* one link and over two, one three links away, and one that is its own       *)
(* target, each link with any weight or missing.                             *)
(***************************************************************************)
EXTENDS Fire, TLC

CONSTANTS a, b, c, d

Link(s, t) == [src |-> s, type |-> "encompasses", dst |-> t]

MCConcepts == {a, b, c, d}

MCInitEdges ==
  [e \in {Link(a, b), Link(b, a), Link(b, c), Link(a, c), Link(c, d), Link(c, c)} |-> DefaultEdge]
=============================================================================

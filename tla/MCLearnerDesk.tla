---------------------------- MODULE MCLearnerDesk ----------------------------
(***************************************************************************)
(* LearnerDesk on two linked concepts and a reserved one of one course, with  *)
(* a second course that has none at first, and two handlers.                *)
(***************************************************************************)
EXTENDS LearnerDesk, TLC

LOCAL Cite(path, numbers, line) == [file |-> [path |-> path, numbers |-> numbers], line |-> line]

LOCAL Returned(t) == [Text(t) EXCEPT !.cr = TRUE]

LOCAL Plain == <<Text("a")>>
LOCAL Quoting == <<Text("b"), RubricFence, Fence, Returned("b")>>
LOCAL Quoted == <<Text("b"), RubricFence>>
LOCAL Ending == <<Text("a"), Returned("# Citations"), Text("a")>>

\* A path that ends in a number, a body that quotes sections and has carriage
\* returns, and one that they give a citations section of its own when it is
\* read, so that it reads back as the plain one.
MCContents ==
  <<[body |-> Plain, refs |-> <<Cite("ch1", <<7>>, 3), Cite("ch2", <<>>, NoLine)>>],
    [body |-> Quoting, refs |-> <<Cite("ch1", <<>>, 3)>>],
    [body |-> Ending, refs |-> <<>>]>>

MCDocs == {Torn, Plain, Quoting, ReadText(Quoting), Quoted, Ending}

MCAlike == [d \in Docs |-> [e \in Docs |-> IF d = e THEN 2 ELSE IF Torn \in {d, e} THEN 0 ELSE 1]]
MCWeight == [w \in {"default", "high"} |-> IF w = "high" THEN 2 ELSE 1]
Handled == Permutations(Handlers)
MCKeys == {<<1, "related", 2>>}
=============================================================================

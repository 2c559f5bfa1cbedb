---------------------------- MODULE MCCourseBuild ----------------------------
(***************************************************************************)
(* CourseBuild on a manifest of three chapters and a satellite: chapter 1,   *)
(* a chapter still to be procured, a satellite that teaches the concepts of  *)
(* chapter 1 again, and a last chapter. The answers hold items out of        *)
(* document order, a near-duplicate, an uncited item, an item without an     *)
(* identity and an invented citation.                                        *)
(***************************************************************************)
EXTENDS CourseBuild

MCSources == <<[file |-> "ch1", spine |-> TRUE, procure |-> FALSE],
               [file |-> "ch2", spine |-> TRUE, procure |-> TRUE],
               [file |-> "sat", spine |-> FALSE, procure |-> FALSE],
               [file |-> "ch3", spine |-> TRUE, procure |-> FALSE]>>

MCSimilar == {<<"v", "v">>, <<"w", "w">>, <<"x", "x">>, <<"y", "y">>, <<"z", "z">>, <<"y", "z">>, <<"z", "y">>}

LOCAL I(id, look, refs) == [id |-> id, look |-> look, refs |-> refs]
LOCAL At(file, line) == [file |-> file, line |-> line]
LOCAL P(src, type, dst, cite) == [src |-> src, type |-> type, dst |-> dst, cite |-> cite]

MCAnswers ==
  <<{<<I(1, "x", <<At("ch1", 7), At("blog", 12)>>), I(2, "y", <<At("ch1", 3)>>),
       I(3, "z", <<At("ch1", 9), At(NoFile, 2)>>), I(NoSlug, "x", <<At("ch1", 1)>>), I(4, "x", <<>>)>>,
     <<I(2, "y", <<At("blog", NoLine), At("ch1", 3)>>), I(3, "w", <<At("ch1", 9)>>), I(4, "v", <<At("blog", 8)>>),
       I(1, "x", <<At("ch1", 7)>>)>>},
    {<<I(3, "x", <<At("ch2", 1)>>)>>},
    {<<I(1, "x", <<At("sat", 2)>>), I(2, "y", <<At("sat", 4)>>)>>, <<>>},
    {<<I(4, "x", <<At("blog", NoLine), At("ch3", 2)>>)>>}>>

MCProposals ==
  <<{<<P(2, "prerequisite", 1, "ch1"), P(1, "related", 2, "blog"), P(1, "prerequisite", 2, "ch1")>>},
    {<<>>},
    {<<P(2, "prerequisite", 1, "sat"), P(1, "related", 4, "sat"), P(2, "unknown", 1, "sat")>>},
    {<<>>}>>

MCLinkAnswers == {<<P(3, "related", 4, NoFile), P(1, "prerequisite", 2, NoFile), P(3, "related", 3, NoFile)>>}

\* Either one build with two threads or two builds with one.
MCPools == {<<2>>, <<1, 1>>}

\* The tutor cites what the linker may also propose, and a spine edge.
MCCited == {<<3, "related", 4>>, <<2, "prerequisite", 1>>}
=============================================================================

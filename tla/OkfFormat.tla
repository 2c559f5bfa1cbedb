------------------------------ MODULE OkfFormat ------------------------------
(***************************************************************************)
(* How the OKF bundle writes a document and reads it back                    *)
(* (storage/okf_content.py). A document is the blocks that blank lines        *)
(* separate, whatever the ends of its lines; a block is a text or a numbered  *)
(* list of citations, and cr says that it has or ends in a carriage return.   *)
(* A path is one line without blanks around it, and may end in ":<number>"    *)
(* itself. The front matter (title, description: okf/frontmatter.py) is left  *)
(* out.                                                                     *)
(***************************************************************************)
EXTENDS Integers, Sequences, SequencesExt

NoLine == 0

Path == [path : STRING, numbers : Seq(Nat)]
Ref == [file : Path, line : Nat]
Block == [text : STRING, cr : BOOLEAN, cites : Seq(Path)]

\* A string has a block at least, if an empty one.
Document == Seq(Block) \ {<<>>}

Text(t) == [text |-> t, cr |-> FALSE, cites |-> <<>>]
List(paths) == [text |-> "", cr |-> FALSE, cites |-> paths]
Fence == Text("# Citations")
PromptFence == Text("# Prompt")
RubricFence == Text("# Rubric")

\* _write stores the characters as they are; read_text makes one line feed of
\* CR LF and of CR.
ReadText(file) == [n \in DOMAIN file |-> [file[n] EXCEPT !.cr = FALSE]]

---------------------------------------------------------------------------
\* Concepts: [body, refs]

RenderRef(ref) ==
  IF ref.line = NoLine THEN ref.file ELSE [ref.file EXCEPT !.numbers = Append(@, ref.line)]

ParseRef(target) ==
  IF target.numbers = <<>>
  THEN [file |-> target, line |-> NoLine]
  ELSE [file |-> [target EXCEPT !.numbers = Front(@)], line |-> Last(target.numbers)]

ComposeConcept(content) ==
  IF content.refs = <<>> THEN content.body
  ELSE content.body \o <<Fence, List([n \in DOMAIN content.refs |-> RenderRef(content.refs[n])])>>

\* The fences with a block before and a block after them.
Fences(file) == {n \in 2 .. Len(file) - 1 : file[n] = Fence}

SplitAt(file, n) ==
  LET listed == FlattenSeq([m \in 1 .. Len(file) - n |-> file[n + m].cites])
  IN [body |-> SubSeq(file, 1, n - 1), refs |-> [m \in DOMAIN listed |-> ParseRef(listed[m])]]

\* Seeded variant: the first fence is the boundary.
SplitAtFirst(file) ==
  IF Fences(file) = {} THEN [body |-> file, refs |-> <<>>]
  ELSE SplitAt(file, CHOOSE n \in Fences(file) : \A m \in Fences(file) : n <= m)

\* The last fence is the boundary.
SplitCitations(file) ==
  IF Fences(file) = {} THEN [body |-> file, refs |-> <<>>]
  ELSE SplitAt(file, CHOOSE n \in Fences(file) : \A m \in Fences(file) : m <= n)

\* get_concept_content
SplitConcept(stored) == SplitCitations(ReadText(stored))

\* A content that is read back as another, even but for the ends of its lines.
Ambiguous(content) ==
  \/ content.refs = <<>> /\ Fences(ReadText(content.body)) # {}
  \/ \E ref \in ToSet(content.refs) : ref.line = NoLine /\ ref.file.numbers # <<>>

---------------------------------------------------------------------------
\* Questions: [prompt, rubric], a rubric that is not given is <<>>

ComposeQuestion(content) ==
  <<PromptFence>> \o content.prompt
    \o (IF content.rubric = <<>> THEN <<>> ELSE <<RubricFence>> \o content.rubric)

\* The first rubric fence after the prompt is the boundary.
SplitQuestionBody(file) ==
  LET fences == {n \in 3 .. Len(file) - 1 : file[n] = RubricFence}
      first == CHOOSE n \in fences : \A m \in fences : n <= m
  IN IF Len(file) < 2 \/ file[1] # PromptFence THEN [prompt |-> file, rubric |-> <<>>]
     ELSE IF fences = {} THEN [prompt |-> Tail(file), rubric |-> <<>>]
     ELSE [prompt |-> SubSeq(file, 2, first - 1), rubric |-> SubSeq(file, first + 1, Len(file))]

\* get_question_content
SplitQuestion(stored) == SplitQuestionBody(ReadText(stored))
=============================================================================

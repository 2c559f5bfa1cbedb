----------------------------- MODULE QuestionBank -----------------------------
(***************************************************************************)
(* The question bank: the command-line runs of generate_questions()         *)
(* (app/build.py) that fill it, the tutor that serves questions from it      *)
(* (next_action() and quiz()), and the kill switch (flag_question()).        *)
(*                                                                          *)
(* A question has its metadata in the question table and its prose in the    *)
(* OKF bundle. Its id is derived from what it is about: the n-th question on *)
(* anchor x is <<x, n>>, an anchor being a concept or an important edge.     *)
(* Prose and metadata are told apart by the run that wrote them.            *)
(***************************************************************************)
EXTENDS Policies, FiniteSets

CONSTANTS
  Concepts,      \* the concepts of the course
  Links,         \* the edges important enough for a question
  SrcOf,         \* the source concept of a link
  Batches,       \* the anchors of one completion, for every completion
  Generators,    \* the processes that may generate
  CliFlags,      \* whether questions are also flagged while the tutor quizzes
  MaxPerAnchor,  \* bound: questions a completion returns on one anchor
  MaxRuns        \* bound: generation runs in a behaviour

Anchors == Concepts \cup Links
Ids == Anchors \X (0 .. MaxPerAnchor - 1)

ASSUME SrcOfType == SrcOf \in [Links -> Concepts]
ASSUME BatchesType == Batches \subseteq SUBSET Anchors
ASSUME BankBounds == MaxPerAnchor \in Nat /\ MaxRuns \in Nat /\ CliFlags \in BOOLEAN

VARIABLES
  questions,   \* question: question id -> row
  content,     \* the bundle's questions/: question id -> the run whose prose it holds
  runs,        \* the runs in progress: process -> its local variables
  ran,         \* how many runs were started
  failed,      \* the runs ended by a completion that raised
  torn,        \* questions whose two halves another run or a crash came between
  quiz,        \* the question quiz() has chosen and not yet read the prose of
  served,      \* the question the tutor got last
  killed,      \* questions that were ever flagged
  revived      \* those of them a run has written since

vars == <<questions, content, runs, ran, failed, torn, quiz, served, killed, revived>>

bank == <<questions, content, torn, revived>>
tutor == <<quiz, served, killed>>

NoQuestion == <<>>

Row == [status : {"active", "retired"}, run : 1 .. MaxRuns]

\* The local variables of generate_questions(): the completions awaited, the
\* questions generated and not yet persisted, and the one whose prose is
\* written while its row is not.
Run == [number : 1 .. MaxRuns, pending : SUBSET Batches, todo : SUBSET Ids, item : Ids \cup {NoQuestion}]

Owner(q) == IF q[1] \in Links THEN SrcOf[q[1]] ELSE q[1]

\* by_concept() and by_edge(): retired questions are filtered out. The rows
\* come in the order of their ids and the first is served; any may be first.
AllOf(c) == {q \in DOMAIN questions : Owner(q) = c}
LiveOf(c) == {q \in DOMAIN questions : Owner(q) = c /\ questions[q].status # "retired"}
LiveOn(l) == {q \in DOMAIN questions : q[1] = l /\ questions[q].status # "retired"}

Ended(g) == runs' = [h \in DOMAIN runs \ {g} |-> runs[h]]

Continue(g, f) == runs' = [runs EXCEPT ![g] = f]

\* Another run is between the two writes of question q.
Halfway(g, q) == \E h \in DOMAIN runs \ {g} : runs[h].item = q

---------------------------------------------------------------------------
\* generate_questions()

StartRun(g) ==
  /\ g \notin DOMAIN runs
  /\ ran < MaxRuns
  /\ ran' = ran + 1
  /\ runs' = Upsert(runs, [h \in {g} |->
                [number |-> ran', pending |-> Batches, todo |-> {}, item |-> NoQuestion]])
  /\ UNCHANGED <<bank, failed, tutor>>

\* Seeded variant: a batch is persisted as soon as its completion is there.
PersistAtOnce(g, b) ==
  /\ g \in DOMAIN runs /\ b \in runs[g].pending
  /\ LET now == {<<x, 0>> : x \in b}
     IN /\ content' = Upsert(content, [q \in now |-> runs[g].number])
        /\ questions' = Upsert(questions, [q \in now |-> [status |-> "active", run |-> runs[g].number]])
        /\ revived' = revived \cup (now \cap killed)
  /\ Continue(g, [runs[g] EXCEPT !.pending = @ \ {b}])
  /\ UNCHANGED <<ran, failed, torn, tutor>>

\* A completion: for every anchor of the batch its questions, numbered from 0,
\* possibly none (a provider that fails answers with an empty text).
BatchAnswers(g, b) ==
  /\ g \in DOMAIN runs /\ b \in runs[g].pending
  /\ \E n \in [b -> 0 .. MaxPerAnchor] :
        Continue(g, [runs[g] EXCEPT !.pending = @ \ {b},
                                    !.todo = @ \cup {q \in Ids : q[1] \in b /\ q[2] < n[q[1]]}])
  /\ UNCHANGED <<bank, ran, failed, tutor>>

\* future.result() raises: the run ends and nothing of it is persisted.
BatchRaises(g) ==
  /\ g \in DOMAIN runs /\ runs[g].pending # {}
  /\ failed' = failed \cup {runs[g].number}
  /\ Ended(g)
  /\ UNCHANGED <<bank, ran, tutor>>

\* Seeded variant: the index row is written before the prose.
RowFirst(g, q) ==
  /\ g \in DOMAIN runs /\ runs[g].pending = {} /\ runs[g].item = NoQuestion
  /\ q \in runs[g].todo
  /\ questions' = Upsert(questions, [x \in {q} |-> [status |-> "active", run |-> runs[g].number]])
  /\ Continue(g, [runs[g] EXCEPT !.item = q])
  /\ UNCHANGED <<content, ran, failed, torn, revived, tutor>>

\* Seeded variant: prose is written while completions are still awaited.
WriteProseEarly(g, q) ==
  /\ g \in DOMAIN runs /\ runs[g].item = NoQuestion
  /\ q \in runs[g].todo
  /\ content' = Upsert(content, [x \in {q} |-> runs[g].number])
  /\ torn' = IF Halfway(g, q) THEN torn \cup {q} ELSE torn
  /\ Continue(g, [runs[g] EXCEPT !.item = q])
  /\ UNCHANGED <<questions, ran, failed, revived, tutor>>

\* put_question_content(), once every completion is there.
WriteProse(g, q) ==
  /\ g \in DOMAIN runs /\ runs[g].pending = {} /\ runs[g].item = NoQuestion
  /\ q \in runs[g].todo
  /\ content' = Upsert(content, [x \in {q} |-> runs[g].number])
  /\ torn' = IF Halfway(g, q) THEN torn \cup {q} ELSE torn
  /\ Continue(g, [runs[g] EXCEPT !.item = q])
  /\ UNCHANGED <<questions, ran, failed, revived, tutor>>

\* Seeded variant: a row that exists is left alone (ON CONFLICT DO NOTHING).
InsertOnly(g) ==
  /\ g \in DOMAIN runs /\ runs[g].item # NoQuestion
  /\ LET q == runs[g].item
     IN /\ questions' = Upsert([x \in {q} |-> [status |-> "active", run |-> runs[g].number]], questions)
        /\ Continue(g, [runs[g] EXCEPT !.todo = @ \ {q}, !.item = NoQuestion])
  /\ UNCHANGED <<content, ran, failed, torn, revived, tutor>>

\* The upsert of the index row, which overwrites the status too.
WriteRow(g) ==
  /\ g \in DOMAIN runs /\ runs[g].item # NoQuestion
  /\ LET q == runs[g].item
     IN /\ questions' = Upsert(questions, [x \in {q} |-> [status |-> "active", run |-> runs[g].number]])
        /\ revived' = revived \cup ({q} \cap killed)
        /\ Continue(g, [runs[g] EXCEPT !.todo = @ \ {q}, !.item = NoQuestion])
  /\ UNCHANGED <<content, ran, failed, torn, tutor>>

Finish(g) ==
  /\ g \in DOMAIN runs /\ runs[g].pending = {} /\ runs[g].todo = {}
  /\ Ended(g)
  /\ UNCHANGED <<bank, ran, failed, tutor>>

\* The process ends, or its connection does.
Crash(g) ==
  /\ g \in DOMAIN runs
  /\ torn' = torn \cup ({runs[g].item} \ {NoQuestion})
  /\ Ended(g)
  /\ UNCHANGED <<questions, content, ran, failed, revived, tutor>>

---------------------------------------------------------------------------
\* The tutor and the kill switch

\* Seeded variant: the filter on status is forgotten.
ChooseAny(c) ==
  /\ quiz = NoQuestion
  /\ \E q \in AllOf(c) : quiz' = q
  /\ UNCHANGED <<bank, runs, ran, failed, served, killed>>

\* quiz(): the first of the concept's questions; there being none is an error.
QuizChooses(c) ==
  /\ quiz = NoQuestion
  /\ \E q \in LiveOf(c) : quiz' = q
  /\ UNCHANGED <<bank, runs, ran, failed, served, killed>>

\* The second half of quiz(): the prose of the question chosen.
QuizReads ==
  /\ quiz # NoQuestion
  /\ served' = IF quiz \in DOMAIN content THEN quiz ELSE NoQuestion
  /\ quiz' = NoQuestion
  /\ UNCHANGED <<bank, runs, ran, failed, killed>>

\* next_action() with a REVIEW or TEST of c: a question on the escalated link
\* if there is one, else one of the concept, else none.
NextQuestion(c, links) ==
  /\ quiz = NoQuestion
  /\ LET onLink == UNION {LiveOn(l) : l \in links}
         choices == IF onLink # {} THEN onLink ELSE LiveOf(c)
     IN served' \in (IF choices # {} THEN choices ELSE {NoQuestion})
  /\ UNCHANGED <<bank, runs, ran, failed, quiz, killed>>

\* flag_question(): a question without a row is an error.
Flag(q) ==
  /\ quiz = NoQuestion \/ CliFlags
  /\ q \in DOMAIN questions
  /\ questions' = [questions EXCEPT ![q].status = "retired"]
  /\ killed' = killed \cup {q}
  /\ revived' = revived \ {q}
  /\ UNCHANGED <<content, runs, ran, failed, torn, quiz, served>>

---------------------------------------------------------------------------
Init ==
  /\ questions = [q \in {} |-> NoQuestion]
  /\ content = [q \in {} |-> 0]
  /\ runs = [g \in {} |-> NoQuestion]
  /\ ran = 0
  /\ failed = {} /\ torn = {}
  /\ quiz = NoQuestion /\ served = NoQuestion
  /\ killed = {} /\ revived = {}

Generate(g) ==
  \/ StartRun(g)
  \/ \E b \in Batches : BatchAnswers(g, b)
  \/ BatchRaises(g)
  \/ \E q \in Ids : WriteProse(g, q)
  \/ WriteRow(g)
  \/ Finish(g)
  \/ Crash(g)

Next ==
  \/ \E g \in Generators : Generate(g)
  \/ \E c \in Concepts : QuizChooses(c) \/ NextQuestion(c, {})
  \/ \E l \in Links : NextQuestion(SrcOf[l], {l})
  \/ QuizReads
  \/ \E q \in Ids : Flag(q)

Spec == Init /\ [][Next]_vars

---------------------------------------------------------------------------
\* Properties

BankTyped ==
  /\ DOMAIN questions \subseteq Ids /\ questions \in [DOMAIN questions -> Row]
  /\ DOMAIN content \subseteq Ids /\ content \in [DOMAIN content -> 1 .. MaxRuns]
  /\ torn \subseteq Ids

RunsTyped ==
  /\ DOMAIN runs \subseteq Generators
  /\ \A g \in DOMAIN runs :
        /\ runs[g] \in Run
        /\ runs[g].number <= ran
        /\ runs[g].item \in runs[g].todo \cup {NoQuestion}
        /\ runs[g].item # NoQuestion => runs[g].pending = {}
        /\ \A h \in DOMAIN runs \ {g} : runs[h].number # runs[g].number
  /\ ran \in 0 .. MaxRuns
  /\ failed \subseteq 1 .. ran

TutorTyped ==
  /\ {quiz, served} \subseteq Ids \cup {NoQuestion}
  /\ killed \subseteq Ids /\ revived \subseteq killed

\* Both halves of the bank hold what runs wrote, and every run has a number of
\* its own.
TypeOK == BankTyped /\ RunsTyped /\ TutorTyped

\* quiz() never raises ContentNotFound: wherever a run stopped, and whatever is
\* written between the two halves of quiz(), a question with a row has prose
\* (build.py:564-567, service.py:300-303).
EveryRowHasProse ==
  /\ DOMAIN questions \subseteq DOMAIN content
  /\ quiz # NoQuestion => quiz \in DOMAIN content

\* A run that fails on one completion leaves the bank exactly as it was: no row
\* and no prose is of its making (build.py:561-567).
FailedRunsLeaveNothing ==
  /\ \A q \in DOMAIN questions : questions[q].run \notin failed
  /\ \A q \in DOMAIN content : content[q] \notin failed

\* Metadata and prose of a question are of the same run, unless a crash or an
\* overlapping run came between its two writes: difficulty, kind and hop count
\* describe the prompt that is shown.
HalvesMatch ==
  \A q \in DOMAIN content \ torn :
    \/ \E g \in DOMAIN runs : runs[g].item = q
    \/ q \in DOMAIN questions /\ questions[q].run = content[q]

\* From the moment a question is flagged nothing chooses it, unless a run has
\* written its row again.
FlaggedIsNotChosen ==
  [][/\ quiz' # quiz /\ quiz' # NoQuestion => quiz' \notin killed \ revived
     /\ served' # served /\ quiz = NoQuestion => served' \notin killed \ revived]_vars

\* "retire the question so it is never served again" (service.py:529).
FlaggedIsNeverServed == [][served' # served => served' \notin killed]_vars
=============================================================================

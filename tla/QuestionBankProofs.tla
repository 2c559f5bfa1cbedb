--------------------------- MODULE QuestionBankProofs ---------------------------
(***************************************************************************)
(* Proofs about QuestionBank: for any number of generators, runs, batches    *)
(* and questions, whatever overlaps, raises or crashes, a row has its prose, *)
(* a failed run leaves nothing, the two halves of an undisturbed question    *)
(* are of one run, and a flagged question is not chosen.                     *)
(***************************************************************************)
EXTENDS QuestionBank, TLAPS

---------------------------------------------------------------------------
\* The inductive invariant

\* A run between its two writes has its prose in place, unless another run has
\* written over it.
HalfwayHasProse ==
  \A g \in DOMAIN runs :
    runs[g].item # NoQuestion =>
      /\ runs[g].item \in DOMAIN content
      /\ runs[g].item \in torn \/ content[runs[g].item] = runs[g].number

\* What is stored was written by runs that were started, and a run that may
\* still fail has written nothing.
WritersAreKnown ==
  /\ \A q \in DOMAIN questions : questions[q].run <= ran
  /\ \A q \in DOMAIN content : content[q] <= ran
  /\ \A g \in DOMAIN runs :
        /\ runs[g].number \notin failed
        /\ runs[g].pending # {} =>
              /\ \A q \in DOMAIN questions : questions[q].run # runs[g].number
              /\ \A q \in DOMAIN content : content[q] # runs[g].number

\* A flagged question that no run has written again is retired.
KilledIsRetired ==
  \A q \in DOMAIN questions \cap (killed \ revived) : questions[q].status = "retired"

IInv ==
  /\ TypeOK
  /\ EveryRowHasProse /\ FailedRunsLeaveNothing /\ HalvesMatch
  /\ HalfwayHasProse /\ WritersAreKnown /\ KilledIsRetired

---------------------------------------------------------------------------
\* Tables and local variables after a statement

LEMMA NoQuestionIsNone == NoQuestion \notin Ids
BY DEF NoQuestion, Ids

\* A run goes on with other local variables and the same number.
LEMMA Continued ==
  ASSUME RunsTyped, NEW g \in DOMAIN runs, NEW f \in Run, Continue(g, f), UNCHANGED <<ran, failed>>,
         f.number = runs[g].number,
         f.item \in f.todo \cup {NoQuestion}, f.item # NoQuestion => f.pending = {}
  PROVE  /\ RunsTyped'
         /\ DOMAIN runs' = DOMAIN runs /\ runs'[g] = f
         /\ \A h \in DOMAIN runs \ {g} : runs'[h] = runs[h]
<1>1. DOMAIN runs' = DOMAIN runs /\ runs'[g] = f /\ \A h \in DOMAIN runs \ {g} : runs'[h] = runs[h]
  BY DEF Continue
<1> QED BY <1>1 DEF RunsTyped

\* A run ends; the others go on.
LEMMA OthersGoOn ==
  ASSUME RunsTyped, NEW g \in DOMAIN runs, Ended(g), ran' = ran, failed' \subseteq 1 .. ran
  PROVE  /\ RunsTyped'
         /\ DOMAIN runs' = DOMAIN runs \ {g}
         /\ \A h \in DOMAIN runs' : runs'[h] = runs[h]
<1>1. DOMAIN runs' = DOMAIN runs \ {g} /\ \A h \in DOMAIN runs' : runs'[h] = runs[h]
  BY DEF Ended
<1> QED BY <1>1 DEF RunsTyped

---------------------------------------------------------------------------
\* generate_questions()

LEMMA StartRunKeeps ==
  ASSUME IInv, NEW g \in Generators, StartRun(g)
  PROVE  IInv'
<1> DEFINE f == [number |-> ran', pending |-> Batches, todo |-> {}, item |-> NoQuestion]
<1>0. g \notin DOMAIN runs /\ runs' = Upsert(runs, [h \in {g} |-> f])
  BY DEF StartRun
<1>2. f \in Run /\ f.number = ran + 1 /\ f.item = NoQuestion /\ f.todo = {} /\ ran' = ran + 1
  BY BankBounds DEF StartRun, Run, IInv, TypeOK, RunsTyped
<1> HIDE DEF f
<1>1. /\ DOMAIN runs' = DOMAIN runs \cup {g} /\ runs'[g] = f
      /\ \A h \in DOMAIN runs : runs'[h] = runs[h]
      /\ g \notin DOMAIN runs
  BY <1>0 DEF Upsert
<1>3. UNCHANGED <<questions, content, torn, revived, failed, quiz, served, killed>>
  BY DEF StartRun, bank, tutor
<1>4. RunsTyped'
  <2>1. RunsTyped /\ ran < MaxRuns
    BY DEF IInv, TypeOK, StartRun
  <2>2. \A h \in DOMAIN runs : runs[h].number <= ran /\ runs[h].number \in Int
    BY <2>1 DEF RunsTyped, Run
  <2>3. ran' \in 0 .. MaxRuns /\ failed' \subseteq 1 .. ran'
    BY <1>2, <1>3, <2>1, BankBounds DEF RunsTyped
  <2>4. ASSUME NEW h \in DOMAIN runs'
        PROVE  /\ runs'[h] \in Run /\ runs'[h].number <= ran'
               /\ runs'[h].item \in runs'[h].todo \cup {NoQuestion}
               /\ runs'[h].item # NoQuestion => runs'[h].pending = {}
    <3>1. ran \in Int
      BY <2>1 DEF RunsTyped
    <3>2. CASE h = g
      BY <1>1, <1>2, <3>1, <3>2
    <3>3. CASE h # g
      BY <1>1, <1>2, <2>1, <2>2, <3>1, <3>3 DEF RunsTyped
    <3> QED BY <3>2, <3>3
  <2>5. \A h \in DOMAIN runs' : \A k \in DOMAIN runs' \ {h} : runs'[k].number # runs'[h].number
    BY <1>1, <1>2, <2>1, <2>2 DEF RunsTyped
  <2> QED BY <1>1, <2>1, <2>3, <2>4, <2>5 DEF RunsTyped
<1>5. TypeOK'
  BY <1>3, <1>4 DEF IInv, TypeOK, BankTyped, TutorTyped, Row
<1>6. (EveryRowHasProse /\ FailedRunsLeaveNothing /\ KilledIsRetired)'
  BY <1>3 DEF IInv, EveryRowHasProse, FailedRunsLeaveNothing, KilledIsRetired
<1>7. (HalvesMatch /\ HalfwayHasProse)'
  BY <1>1, <1>2, <1>3 DEF IInv, HalvesMatch, HalfwayHasProse
<1>8. WritersAreKnown'
  <2>1. ran + 1 \notin failed
    BY BankBounds DEF IInv, TypeOK, RunsTyped
  <2>2. \A q \in DOMAIN questions : questions[q].run <= ran /\ questions[q].run \in Int
    BY DEF IInv, WritersAreKnown, TypeOK, BankTyped, Row
  <2>3. \A q \in DOMAIN content : content[q] <= ran /\ content[q] \in Int
    BY DEF IInv, WritersAreKnown, TypeOK, BankTyped
  <2>4. ran \in Int
    BY DEF IInv, TypeOK, RunsTyped
  <2> QED BY <1>1, <1>2, <1>3, <2>1, <2>2, <2>3, <2>4 DEF IInv, WritersAreKnown
<1> QED BY <1>5, <1>6, <1>7, <1>8 DEF IInv

LEMMA BatchAnswersKeeps ==
  ASSUME IInv, NEW g \in Generators, NEW b \in Batches, BatchAnswers(g, b)
  PROVE  IInv'
<1>1. /\ g \in DOMAIN runs /\ b \in runs[g].pending
      /\ UNCHANGED <<questions, content, torn, revived, ran, failed, quiz, served, killed>>
  BY DEF BatchAnswers, bank, tutor
<1>2. RunsTyped /\ runs[g] \in Run /\ runs[g].item = NoQuestion
  BY <1>1 DEF IInv, TypeOK, RunsTyped
<1>3. PICK f : /\ Continue(g, f) /\ f \in Run
               /\ f.number = runs[g].number /\ f.item = NoQuestion
               /\ f.pending = runs[g].pending \ {b}
  <2>1. PICK n \in [b -> 0 .. MaxPerAnchor] :
           Continue(g, [runs[g] EXCEPT !.pending = @ \ {b},
                                       !.todo = @ \cup {q \in Ids : q[1] \in b /\ q[2] < n[q[1]]}])
    BY DEF BatchAnswers
  <2> DEFINE more == {q \in Ids : q[1] \in b /\ q[2] < n[q[1]]}
             f == [runs[g] EXCEPT !.pending = @ \ {b}, !.todo = @ \cup more]
  <2>2. more \subseteq Ids
    OBVIOUS
  <2> HIDE DEF more
  <2>3. f \in Run /\ f.number = runs[g].number /\ f.item = NoQuestion /\ f.pending = runs[g].pending \ {b}
    BY <1>2, <2>2 DEF Run
  <2>4. Continue(g, f)
    BY <2>1 DEF more
  <2> QED BY <2>3, <2>4
<1>4. /\ RunsTyped'
      /\ DOMAIN runs' = DOMAIN runs /\ runs'[g] = f
      /\ \A h \in DOMAIN runs \ {g} : runs'[h] = runs[h]
  BY <1>1, <1>2, <1>3, Continued
<1>5. TypeOK'
  BY <1>1, <1>4 DEF IInv, TypeOK, BankTyped, TutorTyped, Row
<1>6. (EveryRowHasProse /\ FailedRunsLeaveNothing /\ KilledIsRetired)'
  BY <1>1 DEF IInv, EveryRowHasProse, FailedRunsLeaveNothing, KilledIsRetired
<1>7. (HalvesMatch /\ HalfwayHasProse)'
  BY <1>1, <1>2, <1>3, <1>4 DEF IInv, HalvesMatch, HalfwayHasProse
<1>8. WritersAreKnown'
  BY <1>1, <1>3, <1>4 DEF IInv, WritersAreKnown
<1> QED BY <1>5, <1>6, <1>7, <1>8 DEF IInv

LEMMA BatchRaisesKeeps ==
  ASSUME IInv, NEW g \in Generators, BatchRaises(g)
  PROVE  IInv'
<1>1. /\ g \in DOMAIN runs /\ runs[g].pending # {} /\ Ended(g) /\ failed' = failed \cup {runs[g].number}
      /\ UNCHANGED <<questions, content, torn, revived, ran, quiz, served, killed>>
  BY DEF BatchRaises, bank, tutor
<1>2. RunsTyped /\ runs[g] \in Run /\ runs[g].item = NoQuestion /\ failed' \subseteq 1 .. ran
  <2>1. RunsTyped /\ runs[g] \in Run /\ runs[g].item = NoQuestion /\ runs[g].number <= ran
    BY <1>1 DEF IInv, TypeOK, RunsTyped
  <2>2. runs[g].number \in 1 .. ran
    BY <2>1 DEF Run, RunsTyped
  <2> QED BY <1>1, <2>1, <2>2 DEF RunsTyped
<1>3. /\ RunsTyped'
      /\ DOMAIN runs' = DOMAIN runs \ {g}
      /\ \A h \in DOMAIN runs' : runs'[h] = runs[h]
  BY <1>1, <1>2, OthersGoOn
<1>4. TypeOK'
  BY <1>1, <1>3 DEF IInv, TypeOK, BankTyped, TutorTyped, Row
<1>5. (EveryRowHasProse /\ KilledIsRetired)'
  BY <1>1 DEF IInv, EveryRowHasProse, KilledIsRetired
<1>6. FailedRunsLeaveNothing'
  BY <1>1 DEF IInv, FailedRunsLeaveNothing, WritersAreKnown
<1>7. (HalvesMatch /\ HalfwayHasProse)'
  BY <1>1, <1>2, <1>3, NoQuestionIsNone DEF IInv, HalvesMatch, HalfwayHasProse, TypeOK, BankTyped
<1>8. WritersAreKnown'
  BY <1>1, <1>2, <1>3 DEF IInv, WritersAreKnown, RunsTyped
<1> QED BY <1>4, <1>5, <1>6, <1>7, <1>8 DEF IInv

LEMMA WriteProseKeeps ==
  ASSUME IInv, NEW g \in Generators, NEW q \in Ids, WriteProse(g, q)
  PROVE  IInv'
<1> DEFINE f == [runs[g] EXCEPT !.item = q]
<1>1. /\ g \in DOMAIN runs /\ runs[g].pending = {} /\ runs[g].item = NoQuestion /\ q \in runs[g].todo
      /\ content' = Upsert(content, [x \in {q} |-> runs[g].number])
      /\ torn' = IF Halfway(g, q) THEN torn \cup {q} ELSE torn
      /\ Continue(g, f)
      /\ UNCHANGED <<questions, ran, failed, revived, quiz, served, killed>>
  BY DEF WriteProse, tutor
<1>2. RunsTyped /\ runs[g] \in Run
  BY <1>1 DEF IInv, TypeOK, RunsTyped
<1>3. f \in Run /\ f.number = runs[g].number /\ f.item = q /\ f.pending = {} /\ f.todo = runs[g].todo
  BY <1>1, <1>2 DEF Run
<1> HIDE DEF f
<1>4. /\ RunsTyped'
      /\ DOMAIN runs' = DOMAIN runs /\ runs'[g] = f
      /\ \A h \in DOMAIN runs \ {g} : runs'[h] = runs[h]
  BY <1>1, <1>2, <1>3, Continued
<1>5. /\ DOMAIN content' = DOMAIN content \cup {q} /\ content'[q] = runs[g].number
      /\ \A x \in DOMAIN content \ {q} : content'[x] = content[x]
  BY <1>1 DEF Upsert
<1>6. torn \subseteq torn' /\ torn' \subseteq torn \cup {q}
  BY <1>1
<1>7. TypeOK'
  <2>1. content' \in [DOMAIN content' -> 1 .. MaxRuns] /\ DOMAIN content' \subseteq Ids
    <3>1. content' = [x \in DOMAIN content \cup {q} |-> IF x = q THEN runs[g].number ELSE content[x]]
      BY <1>1 DEF Upsert
    <3>2. runs[g].number \in 1 .. MaxRuns
      BY <1>2 DEF Run
    <3> QED BY <3>1, <3>2 DEF IInv, TypeOK, BankTyped
  <2>2. torn' \subseteq Ids
    BY <1>6 DEF IInv, TypeOK, BankTyped
  <2> QED BY <1>1, <1>4, <2>1, <2>2 DEF IInv, TypeOK, BankTyped, TutorTyped, Row
<1>8. (EveryRowHasProse /\ KilledIsRetired)'
  BY <1>1, <1>5 DEF IInv, EveryRowHasProse, KilledIsRetired
<1>9. FailedRunsLeaveNothing'
  BY <1>1, <1>5 DEF IInv, FailedRunsLeaveNothing, WritersAreKnown
<1>10. HalvesMatch'
  BY <1>1, <1>3, <1>4, <1>5, <1>6, NoQuestionIsNone DEF IInv, HalvesMatch, TypeOK, BankTyped
<1>11. HalfwayHasProse'
  <2>1. ASSUME NEW h \in DOMAIN runs \ {g}, runs[h].item = q
        PROVE  q \in torn'
    BY <1>1, <2>1 DEF Halfway
  <2> QED BY <1>1, <1>3, <1>4, <1>5, <1>6, <2>1 DEF IInv, HalfwayHasProse
<1>12. WritersAreKnown'
  BY <1>1, <1>2, <1>3, <1>4, <1>5 DEF IInv, WritersAreKnown, RunsTyped
<1> QED BY <1>7, <1>8, <1>9, <1>10, <1>11, <1>12 DEF IInv

LEMMA WriteRowKeeps ==
  ASSUME IInv, NEW g \in Generators, WriteRow(g)
  PROVE  IInv'
<1> DEFINE q == runs[g].item
           row == [status |-> "active", run |-> runs[g].number]
           f == [runs[g] EXCEPT !.todo = @ \ {q}, !.item = NoQuestion]
<1>1. /\ g \in DOMAIN runs /\ q # NoQuestion
      /\ questions' = Upsert(questions, [x \in {q} |-> row])
      /\ revived' = revived \cup ({q} \cap killed)
      /\ Continue(g, f)
      /\ UNCHANGED <<content, ran, failed, torn, quiz, served, killed>>
  BY DEF WriteRow, tutor
<1>2. RunsTyped /\ runs[g] \in Run /\ runs[g].pending = {} /\ q \in Ids
  BY <1>1 DEF IInv, TypeOK, RunsTyped, Run
<1>3. f \in Run /\ f.number = runs[g].number /\ f.item = NoQuestion /\ f.pending = {}
  BY <1>2 DEF Run
<1>4. row \in Row /\ row.run = runs[g].number
  BY <1>2 DEF Run, Row
<1>5. q \in DOMAIN content /\ (q \in torn \/ content[q] = runs[g].number)
  BY <1>1 DEF IInv, HalfwayHasProse
<1> HIDE DEF f, row, q
<1>6. /\ RunsTyped'
      /\ DOMAIN runs' = DOMAIN runs /\ runs'[g] = f
      /\ \A h \in DOMAIN runs \ {g} : runs'[h] = runs[h]
  BY <1>1, <1>2, <1>3, Continued
<1>7. /\ DOMAIN questions' = DOMAIN questions \cup {q} /\ questions'[q] = row
      /\ \A x \in DOMAIN questions \ {q} : questions'[x] = questions[x]
  BY <1>1 DEF Upsert
<1>8. TypeOK'
  <2>1. questions' \in [DOMAIN questions' -> Row] /\ DOMAIN questions' \subseteq Ids
    <3>1. questions' = [x \in DOMAIN questions \cup {q} |-> IF x = q THEN row ELSE questions[x]]
      BY <1>1 DEF Upsert
    <3> QED BY <1>2, <1>4, <3>1 DEF IInv, TypeOK, BankTyped
  <2> QED BY <1>1, <1>6, <2>1 DEF IInv, TypeOK, BankTyped, TutorTyped
<1>9. EveryRowHasProse'
  BY <1>1, <1>5, <1>7 DEF IInv, EveryRowHasProse
<1>10. KilledIsRetired'
  BY <1>1, <1>7 DEF IInv, KilledIsRetired
<1>11. FailedRunsLeaveNothing'
  BY <1>1, <1>4, <1>7 DEF IInv, FailedRunsLeaveNothing, WritersAreKnown
<1>12. HalvesMatch'
  <2> SUFFICES ASSUME NEW x \in DOMAIN content' \ torn'
               PROVE  (\/ \E h \in DOMAIN runs : runs[h].item = x
                       \/ x \in DOMAIN questions /\ questions[x].run = content[x])'
    BY DEF HalvesMatch
  <2>1. CASE x = q
    BY <1>1, <1>4, <1>5, <1>7, <2>1
  <2>2. CASE x # q
    BY <1>1, <1>6, <1>7, <2>2 DEF IInv, HalvesMatch, q
  <2> QED BY <2>1, <2>2
<1>13. HalfwayHasProse'
  BY <1>1, <1>3, <1>6 DEF IInv, HalfwayHasProse
<1>14. WritersAreKnown'
  BY <1>1, <1>2, <1>3, <1>4, <1>6, <1>7 DEF IInv, WritersAreKnown, RunsTyped
<1> QED BY <1>8, <1>9, <1>10, <1>11, <1>12, <1>13, <1>14 DEF IInv

\* Finish and Crash: the run is over.
LEMMA RunEndsKeeps ==
  ASSUME IInv, NEW g \in Generators, Finish(g) \/ Crash(g)
  PROVE  IInv'
<1>1. /\ g \in DOMAIN runs /\ Ended(g)
      /\ torn \subseteq torn' /\ torn' \subseteq torn \cup ({runs[g].item} \ {NoQuestion})
      /\ runs[g].item \in torn' \cup {NoQuestion}
      /\ UNCHANGED <<questions, content, revived, ran, failed, quiz, served, killed>>
  BY DEF Finish, Crash, bank, tutor, IInv, TypeOK, RunsTyped
<1>2. RunsTyped /\ runs[g] \in Run /\ failed' \subseteq 1 .. ran
  BY <1>1 DEF IInv, TypeOK, RunsTyped
<1>3. /\ RunsTyped'
      /\ DOMAIN runs' = DOMAIN runs \ {g}
      /\ \A h \in DOMAIN runs' : runs'[h] = runs[h]
  BY <1>1, <1>2, OthersGoOn
<1>4. TypeOK'
  <2>1. torn' \subseteq Ids
    BY <1>1, <1>2 DEF IInv, TypeOK, BankTyped, Run
  <2> QED BY <1>1, <1>3, <2>1 DEF IInv, TypeOK, BankTyped, TutorTyped, Row
<1>5. (EveryRowHasProse /\ FailedRunsLeaveNothing /\ KilledIsRetired)'
  BY <1>1 DEF IInv, EveryRowHasProse, FailedRunsLeaveNothing, KilledIsRetired
<1>6. HalvesMatch'
  BY <1>1, <1>3, NoQuestionIsNone DEF IInv, HalvesMatch, TypeOK, BankTyped
<1>7. HalfwayHasProse'
  BY <1>1, <1>3 DEF IInv, HalfwayHasProse
<1>8. WritersAreKnown'
  BY <1>1, <1>3 DEF IInv, WritersAreKnown
<1> QED BY <1>4, <1>5, <1>6, <1>7, <1>8 DEF IInv

---------------------------------------------------------------------------
\* The tutor and the kill switch

LEMMA QuizChoosesKeeps ==
  ASSUME IInv, NEW c \in Concepts, QuizChooses(c)
  PROVE  IInv'
<1>1. /\ quiz' \in DOMAIN questions
      /\ UNCHANGED <<questions, content, torn, revived, runs, ran, failed, served, killed>>
  BY DEF QuizChooses, LiveOf, bank
<1>2. quiz' \in DOMAIN content /\ quiz' \in Ids
  BY <1>1 DEF IInv, EveryRowHasProse, TypeOK, BankTyped
<1>3. TypeOK'
  BY <1>1, <1>2 DEF IInv, TypeOK, BankTyped, RunsTyped, TutorTyped, Row, Run
<1>4. EveryRowHasProse'
  BY <1>1, <1>2 DEF IInv, EveryRowHasProse
<1>5. (FailedRunsLeaveNothing /\ HalvesMatch /\ HalfwayHasProse /\ WritersAreKnown /\ KilledIsRetired)'
  BY <1>1 DEF IInv, FailedRunsLeaveNothing, HalvesMatch, HalfwayHasProse, WritersAreKnown, KilledIsRetired
<1> QED BY <1>3, <1>4, <1>5 DEF IInv

LEMMA QuizReadsKeeps ==
  ASSUME IInv, QuizReads
  PROVE  IInv'
<1>1. /\ quiz' = NoQuestion /\ served' \in {quiz, NoQuestion}
      /\ UNCHANGED <<questions, content, torn, revived, runs, ran, failed, killed>>
  BY DEF QuizReads, bank
<1>2. TypeOK'
  BY <1>1 DEF IInv, TypeOK, BankTyped, RunsTyped, TutorTyped, Row, Run
<1>3. EveryRowHasProse'
  BY <1>1 DEF IInv, EveryRowHasProse
<1>4. (FailedRunsLeaveNothing /\ HalvesMatch /\ HalfwayHasProse /\ WritersAreKnown /\ KilledIsRetired)'
  BY <1>1 DEF IInv, FailedRunsLeaveNothing, HalvesMatch, HalfwayHasProse, WritersAreKnown, KilledIsRetired
<1> QED BY <1>2, <1>3, <1>4 DEF IInv

\* What next_action() serves is a live row, or nothing.
LEMMA NextQuestionServes ==
  ASSUME NEW c, NEW links, NextQuestion(c, links)
  PROVE  /\ served' = NoQuestion \/ (served' \in DOMAIN questions /\ questions[served'].status # "retired")
         /\ UNCHANGED <<questions, content, torn, revived, runs, ran, failed, quiz, killed>>
<1> DEFINE onLink == UNION {LiveOn(l) : l \in links}
           choices == IF onLink # {} THEN onLink ELSE LiveOf(c)
<1>1. \A q \in onLink \cup LiveOf(c) : q \in DOMAIN questions /\ questions[q].status # "retired"
  BY DEF LiveOn, LiveOf
<1>2. served' \in (IF choices # {} THEN choices ELSE {NoQuestion})
  BY DEF NextQuestion
<1>3. choices \subseteq onLink \cup LiveOf(c)
  OBVIOUS
<1> HIDE DEF choices, onLink
<1>4. UNCHANGED <<questions, content, torn, revived, runs, ran, failed, quiz, killed>>
  BY DEF NextQuestion, bank
<1> QED BY <1>1, <1>2, <1>3, <1>4

LEMMA NextQuestionKeeps ==
  ASSUME IInv, NEW c, NEW links, NextQuestion(c, links)
  PROVE  IInv'
<1>1. /\ served' = NoQuestion \/ served' \in DOMAIN questions
      /\ UNCHANGED <<questions, content, torn, revived, runs, ran, failed, quiz, killed>>
  BY NextQuestionServes
<1>2. TypeOK'
  BY <1>1 DEF IInv, TypeOK, BankTyped, RunsTyped, TutorTyped, Row, Run
<1>3. (EveryRowHasProse /\ FailedRunsLeaveNothing /\ HalvesMatch /\ HalfwayHasProse /\ WritersAreKnown
         /\ KilledIsRetired)'
  BY <1>1 DEF IInv, EveryRowHasProse, FailedRunsLeaveNothing, HalvesMatch, HalfwayHasProse, WritersAreKnown,
              KilledIsRetired
<1> QED BY <1>2, <1>3 DEF IInv

LEMMA FlagKeeps ==
  ASSUME IInv, NEW q \in Ids, Flag(q)
  PROVE  IInv'
<1> DEFINE row == [questions[q] EXCEPT !.status = "retired"]
<1>1. /\ q \in DOMAIN questions /\ questions' = [questions EXCEPT ![q] = row]
      /\ killed' = killed \cup {q} /\ revived' = revived \ {q}
      /\ UNCHANGED <<content, runs, ran, failed, torn, quiz, served>>
  BY DEF Flag
<1>2. row \in Row /\ row.run = questions[q].run /\ row.status = "retired"
  BY <1>1 DEF IInv, TypeOK, BankTyped, Row
<1> HIDE DEF row
<1>3. /\ DOMAIN questions' = DOMAIN questions /\ questions' \in [DOMAIN questions -> Row] /\ questions'[q] = row
      /\ \A x \in DOMAIN questions \ {q} : questions'[x] = questions[x]
      /\ \A x \in DOMAIN questions : questions'[x].run = questions[x].run
  BY <1>1, <1>2 DEF IInv, TypeOK, BankTyped
<1>4. TypeOK'
  BY <1>1, <1>3 DEF IInv, TypeOK, BankTyped, RunsTyped, TutorTyped, Run
<1>5. (EveryRowHasProse /\ FailedRunsLeaveNothing /\ HalfwayHasProse /\ WritersAreKnown)'
  BY <1>1, <1>3 DEF IInv, EveryRowHasProse, FailedRunsLeaveNothing, HalfwayHasProse, WritersAreKnown
<1>6. HalvesMatch'
  BY <1>1, <1>3 DEF IInv, HalvesMatch
<1>7. KilledIsRetired'
  BY <1>1, <1>2, <1>3 DEF IInv, KilledIsRetired
<1> QED BY <1>4, <1>5, <1>6, <1>7 DEF IInv

---------------------------------------------------------------------------
\* Theorems

LEMMA Inductive == IInv /\ [Next]_vars => IInv'
<1> SUFFICES ASSUME IInv, [Next]_vars
             PROVE  IInv'
  OBVIOUS
<1>1. CASE UNCHANGED vars
  BY <1>1 DEF vars, IInv, TypeOK, BankTyped, RunsTyped, TutorTyped, Row, Run, EveryRowHasProse,
              FailedRunsLeaveNothing, HalvesMatch, HalfwayHasProse, WritersAreKnown, KilledIsRetired
<1>2. ASSUME NEW g \in Generators, Generate(g)
      PROVE  IInv'
  BY <1>2, StartRunKeeps, BatchAnswersKeeps, BatchRaisesKeeps, WriteProseKeeps, WriteRowKeeps, RunEndsKeeps
     DEF Generate
<1>3. ASSUME NEW c \in Concepts, QuizChooses(c) \/ NextQuestion(c, {})
      PROVE  IInv'
  BY <1>3, QuizChoosesKeeps, NextQuestionKeeps
<1>4. ASSUME NEW l \in Links, NextQuestion(SrcOf[l], {l})
      PROVE  IInv'
  BY <1>4, NextQuestionKeeps
<1>5. CASE QuizReads
  BY <1>5, QuizReadsKeeps
<1>6. ASSUME NEW q \in Ids, Flag(q)
      PROVE  IInv'
  BY <1>6, FlagKeeps
<1> QED BY <1>1, <1>2, <1>3, <1>4, <1>5, <1>6 DEF Next

LEMMA Invariance == Spec => []IInv
<1>1. Init => IInv
  BY BankBounds DEF Init, IInv, TypeOK, BankTyped, RunsTyped, TutorTyped, EveryRowHasProse,
     FailedRunsLeaveNothing, HalvesMatch, HalfwayHasProse, WritersAreKnown, KilledIsRetired
<1> QED BY <1>1, Inductive, PTL DEF Spec

\* The bank, the local variables of the runs and the tutor's are of their types
\* for any number of generators and questions, and no two runs have one number.
THEOREM TypeCorrect == Spec => []TypeOK
BY Invariance, PTL DEF IInv

\* However many runs and flags overlap with quiz(), a question that has a row
\* has prose, the one chosen included: quiz() never raises ContentNotFound.
THEOREM EveryRowAlwaysHasProse == Spec => []EveryRowHasProse
BY Invariance, PTL DEF IInv

\* A run that ended by a completion that raised has stored nothing, for any
\* partition of the anchors into completions.
THEOREM FailedRunsAlwaysLeaveNothing == Spec => []FailedRunsLeaveNothing
BY Invariance, PTL DEF IInv

\* Row and prose are of one run unless an overlapping run or a crash came
\* between the two writes.
THEOREM HalvesAlwaysMatch == Spec => []HalvesMatch
BY Invariance, PTL DEF IInv

\* Neither quiz() nor next_action() takes a question that is flagged, unless a
\* run has written its row again.
THEOREM FlaggedIsNeverChosen == Spec => FlaggedIsNotChosen
<1> DEFINE Chooses == /\ quiz' # quiz /\ quiz' # NoQuestion => quiz' \notin killed \ revived
                      /\ served' # served /\ quiz = NoQuestion => served' \notin killed \ revived
<1>1. IInv /\ [Next]_vars => [Chooses]_vars
  <2> SUFFICES ASSUME IInv, Next
               PROVE  Chooses
    OBVIOUS
  <2>1. NoQuestion \notin killed
    BY NoQuestionIsNone DEF IInv, TypeOK, TutorTyped
  <2>2. ASSUME NEW q \in DOMAIN questions, questions[q].status # "retired"
        PROVE  q \notin killed \ revived
    BY <2>2 DEF IInv, KilledIsRetired
  <2>3. ASSUME NEW g \in Generators, Generate(g)
        PROVE  Chooses
    BY <2>3 DEF Generate, StartRun, BatchAnswers, BatchRaises, WriteProse, WriteRow, Finish, Crash, tutor
  <2>4. ASSUME NEW c \in Concepts, QuizChooses(c)
        PROVE  Chooses
    BY <2>2, <2>4 DEF QuizChooses, LiveOf
  <2>5. ASSUME NEW c, NEW links, NextQuestion(c, links)
        PROVE  Chooses
    BY <2>1, <2>2, <2>5, NextQuestionServes
  <2>6. CASE QuizReads
    BY <2>6 DEF QuizReads
  <2>7. ASSUME NEW q \in Ids, Flag(q)
        PROVE  Chooses
    BY <2>7 DEF Flag
  <2> QED BY <2>3, <2>4, <2>5, <2>6, <2>7 DEF Next
<1> QED BY <1>1, Invariance, PTL DEF Spec, FlaggedIsNotChosen
=============================================================================

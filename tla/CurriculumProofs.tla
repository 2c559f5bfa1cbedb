--------------------------- MODULE CurriculumProofs ---------------------------
(***************************************************************************)
(* Proofs about Curriculum, for every course, every set of grades and       *)
(* citations and every length of the log. TypeOK and GatesFixed together    *)
(* are inductive; the two agreements between learner_state and review_log    *)
(* are inductive relative to TypeOK.                                        *)
(***************************************************************************)
EXTENDS Curriculum, CourseGraphLemmas, FiniteSetTheorems, WellFoundedInduction

\* The prerequisites that gate are those of ingestion, whatever is cited.
GatesFixed == GatingEdges(edges) = GatingEdges(InitEdges)

IInv == TypeOK /\ GatesFixed

---------------------------------------------------------------------------
\* What one handler does to learner_state

\* After a grade of c, with or without its ripple, c has the graded row and
\* every other row is as it was or was reviewed once.
GradedRows(new, c, score, table) ==
  /\ DOMAIN new \subseteq Concepts
  /\ DOMAIN states \cup {c} \subseteq DOMAIN new
  /\ new \in [DOMAIN new -> State]
  /\ new[c] = GradedRow(RowOr(states, c, Blank), score, log[c])
  /\ \A x \in DOMAIN new \ {c} :
        \/ x \in DOMAIN states /\ new[x] = states[x]
        \/ /\ x \in Within(table, c, score)
           /\ \E r \in Rating : /\ new[x] = Review(RowOr(states, x, Blank), r)
                                /\ r = AGAIN => score <= 2 /\ LinkTo(x, c) \in DOMAIN table

\* The FIRe loop reaches nothing that is not within two links.
LEMMA CreditIsNear ==
  ASSUME NEW rows, NEW table, EdgeTable(table), NEW c \in Concepts, NEW score \in Score,
         NEW x \in DOMAIN ImplicitRows(rows, table, c, GradeToRating(score))
  PROVE  x \in Within(table, c, score)
<1> DEFINE rating == GradeToRating(score)
           emitted == Emissions(table, c, rating)
           below(y) == {e.dst : e \in {f \in EncompassesOut(table, y) : table[f].weight # "weak"}}
<1>1. PICK m \in emitted : x = m[1]
  BY DEF ImplicitRows, Credit
<1>2. ASSUME NEW e \in DOMAIN table, NEW hop \in {1, 2}, LinkRating(table[e], hop) # AGAIN
      PROVE  table[e].weight # "weak"
  BY <1>2 DEF LinkRating, AGAIN, HARD, GOOD
<1>3. \A y : EncompassesOut(table, y) \subseteq DOMAIN table
  BY DEF EncompassesOut
<1>4. CASE score <= 2
  <2>1. rating = AGAIN
    BY <1>4, ScoreRating
  <2>2. emitted = {<<e.src, AGAIN>> : e \in EncompassesIn(table, c)}
    BY <2>1 DEF Emissions, AGAIN, GOOD
  <2>3. PICK e \in EncompassesIn(table, c) : m = <<e.src, AGAIN>>
    BY <1>1, <2>2
  <2>4. x = e.src
    BY <1>1, <2>3
  <2> QED BY <1>4, <2>4 DEF Within
<1>5. CASE ~(score <= 2)
  <2>1. Within(table, c, score) = below(c) \cup UNION {below(y) : y \in below(c)}
    BY <1>5, Zenon DEF Within
  <2>2. rating # AGAIN /\ rating \in Rating
    BY <1>5, ScoreRating
  <2> HIDE DEF rating
  <2>3. rating >= GOOD
    BY <1>1, <2>2 DEF Emissions
  <2>4. \/ \E e \in EncompassesOut(table, c) : LinkRating(table[e], 1) # AGAIN /\ m = <<e.dst, LinkRating(table[e], 1)>>
        \/ \E e \in EncompassesOut(table, c) :
              /\ LinkRating(table[e], 1) # AGAIN
              /\ \E f \in EncompassesOut(table, e.dst) :
                    LinkRating(table[f], 2) # AGAIN /\ m = <<f.dst, LinkRating(table[f], 2)>>
    BY <1>1, <2>3, Zenon DEF Emissions
  <2>5. CASE \E e \in EncompassesOut(table, c) : LinkRating(table[e], 1) # AGAIN /\ m = <<e.dst, LinkRating(table[e], 1)>>
    <3>1. PICK e \in EncompassesOut(table, c) : LinkRating(table[e], 1) # AGAIN /\ m = <<e.dst, LinkRating(table[e], 1)>>
      BY <2>5
    <3>2. x = e.dst /\ table[e].weight # "weak"
      BY <1>1, <1>2, <1>3, <3>1
    <3>3. x \in below(c)
      BY <3>2
    <3> QED BY <2>1, <3>3
  <2>6. CASE \E e \in EncompassesOut(table, c) :
               /\ LinkRating(table[e], 1) # AGAIN
               /\ \E f \in EncompassesOut(table, e.dst) :
                     LinkRating(table[f], 2) # AGAIN /\ m = <<f.dst, LinkRating(table[f], 2)>>
    <3>1. PICK e \in EncompassesOut(table, c) :
             /\ LinkRating(table[e], 1) # AGAIN
             /\ \E f \in EncompassesOut(table, e.dst) :
                   LinkRating(table[f], 2) # AGAIN /\ m = <<f.dst, LinkRating(table[f], 2)>>
      BY <2>6
    <3>2. PICK f \in EncompassesOut(table, e.dst) :
             LinkRating(table[f], 2) # AGAIN /\ m = <<f.dst, LinkRating(table[f], 2)>>
      BY <3>1
    <3>3. x = f.dst /\ table[e].weight # "weak" /\ table[f].weight # "weak"
      BY <1>1, <1>2, <1>3, <3>1, <3>2
    <3>4. e.dst \in below(c) /\ x \in below(e.dst)
      BY <3>3
    <3> HIDE DEF below
    <3> QED BY <2>1, <3>4
  <2> QED BY <2>4, <2>5, <2>6
<1> QED BY <1>4, <1>5

LEMMA GradedStatesRows ==
  ASSUME TypeOK, NEW c \in Concepts, NEW score \in Score, NEW table
  PROVE  GradedRows(GradedStates(c, score), c, score, table)
<1> DEFINE row == GradedRow(RowOr(states, c, Blank), score, log[c])
           one == [x \in {c} |-> row]
<1>1. states \in [DOMAIN states -> State] /\ DOMAIN states \subseteq Concepts /\ log[c] \in Seq(Score)
  BY DEF TypeOK
<1>2. row \in State
  BY <1>1, BlankIsState, RowOrTyped, GradedRowFields
<1> HIDE DEF row
<1>3. one \in [DOMAIN one -> State] /\ DOMAIN one = {c} /\ one[c] = row
  BY <1>2
<1>4. GradedStates(c, score) = Upsert(states, one)
  BY DEF GradedStates, row
<1> HIDE DEF one
<1>5. /\ DOMAIN Upsert(states, one) = DOMAIN states \cup {c}
      /\ Upsert(states, one) \in [DOMAIN Upsert(states, one) -> State]
      /\ Upsert(states, one)[c] = row
      /\ \A x \in DOMAIN states \ {c} : Upsert(states, one)[x] = states[x]
  BY <1>1, <1>3 DEF Upsert
<1> QED BY <1>1, <1>4, <1>5 DEF GradedRows, row

LEMMA RippledStatesRows ==
  ASSUME TypeOK, NEW c \in Concepts, NEW score \in Score, NEW table, EdgeTable(table)
  PROVE  GradedRows(RippledStates(GradedStates(c, score), table, c, score), c, score, table)
<1> DEFINE graded == GradedStates(c, score)
           rows == ImplicitRows(graded, table, c, GradeToRating(score))
<1>1. GradedRows(graded, c, score, table)
  BY GradedStatesRows
<1>2. CASE ~EnableFire
  BY <1>1, <1>2 DEF RippledStates
<1>3. CASE EnableFire
  <2>1. RippledStates(graded, table, c, score) = Upsert(graded, rows)
    BY <1>3 DEF RippledStates
  <2>2. graded \in [DOMAIN graded -> State]
    BY <1>1 DEF GradedRows
  <2>3. GradeToRating(score) \in Rating /\ (GradeToRating(score) = AGAIN <=> score <= 2)
    BY ScoreRating
  <2> HIDE DEF graded
  <2>4. \A x \in DOMAIN rows : x \in Within(table, c, score)
    BY CreditIsNear
  <2>5. /\ DOMAIN rows \subseteq Concepts \ {c}
        /\ rows \in [DOMAIN rows -> State]
        /\ \A x \in DOMAIN rows : \E r \in Rating :
              /\ rows[x] = Review(RowOr(graded, x, Blank), r)
              /\ r = AGAIN => GradeToRating(score) = AGAIN /\ LinkTo(x, c) \in DOMAIN table
    BY <2>2, <2>3, ImplicitRowsTyped
  <2> HIDE DEF rows
  <2>6. /\ DOMAIN Upsert(graded, rows) = DOMAIN graded \cup DOMAIN rows
        /\ Upsert(graded, rows) \in [DOMAIN Upsert(graded, rows) -> State]
        /\ \A x \in DOMAIN rows : Upsert(graded, rows)[x] = rows[x]
        /\ \A x \in DOMAIN graded \ DOMAIN rows : Upsert(graded, rows)[x] = graded[x]
    BY <2>2, <2>5 DEF Upsert
  <2>7. DOMAIN graded = DOMAIN states \cup {c} /\ \A x \in DOMAIN states \ {c} : graded[x] = states[x]
    BY DEF graded, GradedStates, Upsert
  <2>8. \A x \in DOMAIN rows : RowOr(graded, x, Blank) = RowOr(states, x, Blank)
    BY <2>5, <2>7 DEF RowOr
  <2>9. GradedRows(Upsert(graded, rows), c, score, table)
    BY <1>1, <2>3, <2>5, <2>6, <2>7, <2>8, <2>4 DEF GradedRows
  <2> QED BY <2>1, <2>9 DEF graded
<1> QED BY <1>2, <1>3

\* A step of Grade or GradeRaises, as the proofs below use it.
Graded(c, score) ==
  /\ log' = [log EXCEPT ![c] = Append(@, score)]
  /\ EdgeTable(edges')
  /\ GatingEdges(edges') = GatingEdges(edges)
  /\ GradedRows(states', c, score, edges')
  /\ served' = Nothing
  /\ check' = IF check.step = "idle" THEN check ELSE [check EXCEPT !.graded = @ \cup {c}]

LEMMA GradeIsGraded ==
  ASSUME TypeOK, NEW c \in Concepts, NEW score \in Scores, NEW cited \in Citations,
         Grade(c, score, cited) \/ GradeRaises(c, score, cited)
  PROVE  Graded(c, score)
<1>1. score \in Score /\ EdgeTable(edges)
  BY ScoresType DEF TypeOK
<1>2. /\ log' = [log EXCEPT ![c] = Append(@, score)] /\ served' = Nothing
      /\ check' = IF check.step = "idle" THEN check ELSE [check EXCEPT !.graded = @ \cup {c}]
  BY DEF Grade, GradeRaises, LogGrade
<1> DEFINE n == Parsed(cited)
<1>3. n \in Nat /\ \A i \in 1 .. n : cited[i][1] \in EdgeKeys
  <2>1. cited \in Seq(Ids \X BOOLEAN)
    BY CitationsType
  <2> QED BY <2>1, ParsedIs DEF ParsedAt
<1>4. edges' = RecordExposure(edges, cited, n)
  BY DEF Grade, GradeRaises
<1> HIDE DEF n
<1>5. CASE Grade(c, score, cited)
  <2>1. EdgeTable(edges') /\ GatingEdges(edges') = GatingEdges(edges)
    BY <1>1, <1>3, <1>4, ExposureKeepsGates
  <2>2. states' = RippledStates(GradedStates(c, score), edges', c, score)
    BY <1>5 DEF Grade
  <2>3. GradedRows(states', c, score, edges')
    BY <1>1, <2>1, <2>2, RippledStatesRows
  <2> QED BY <1>2, <2>1, <2>3 DEF Graded
<1>6. CASE GradeRaises(c, score, cited)
  <2>1. EdgeTable(edges') /\ GatingEdges(edges') = GatingEdges(edges)
    BY <1>1, <1>3, <1>4, ExposureKeepsGates
  <2>2. states' = GradedStates(c, score)
    BY <1>6 DEF GradeRaises
  <2>3. GradedRows(states', c, score, edges')
    BY <1>1, <2>2, GradedStatesRows
  <2> QED BY <1>2, <2>1, <2>3 DEF Graded
<1> QED BY <1>5, <1>6

---------------------------------------------------------------------------
\* The steps of the service, sorted by what they touch

\* Time passing changes the retention signal of one stored row, nothing else.
Aged(c) ==
  /\ c \in DOMAIN states
  /\ DOMAIN states' = DOMAIN states
  /\ states'[c] \in State
  /\ states'[c].recall # "none"
  /\ states'[c].mastery = states[c].mastery
  /\ states'[c].reps = states[c].reps
  /\ states'[c].lapses = states[c].lapses
  /\ \A x \in DOMAIN states \ {c} : states'[x] = states[x]
  /\ states' \in [DOMAIN states -> State]
  /\ served' = Nothing
  /\ UNCHANGED <<log, edges, check>>

LEMMA AgeIsAged ==
  ASSUME TypeOK, NEW c \in Concepts, Age(c)
  PROVE  Aged(c)
<1>1. c \in DOMAIN states /\ states[c] \in State /\ states \in [DOMAIN states -> State]
  BY DEF Age, TypeOK
<1>2. PICK r \in Recall : /\ <<states[c].recall, r>> \in {<<"fresh", "due">>, <<"fresh", "hard">>, <<"due", "hard">>}
                          /\ states' = [states EXCEPT ![c].recall = r]
  BY DEF Age
<1>3. r # "none"
  BY <1>2
<1> DEFINE row == [states[c] EXCEPT !.recall = r]
<1>4. row \in State /\ row.recall = r /\ row.mastery = states[c].mastery
      /\ row.reps = states[c].reps /\ row.lapses = states[c].lapses
  BY <1>1 DEF State
<1>5. states' = [states EXCEPT ![c] = row]
  BY <1>2
<1> HIDE DEF row
<1>6. /\ DOMAIN states' = DOMAIN states
      /\ states'[c] = row
      /\ \A x \in DOMAIN states \ {c} : states'[x] = states[x]
      /\ states' \in [DOMAIN states -> State]
  BY <1>1, <1>4, <1>5
<1> QED BY <1>1, <1>3, <1>4, <1>6 DEF Aged, Age

\* What next_action() serves is a candidate of the course.
LEMMA ServedTyped ==
  ASSUME TypeOK, NEW focus, NEW k \in Choices(focus)
  PROVE  k \in Candidate
<1>1. k \in Candidates(focus)
  BY DEF Choices
<1>2. CASE k \in {[mode |-> "review", concept |-> c, hard |-> states[c].recall = "hard"] :
                    c \in {d \in DOMAIN states \cap focus : states[d].recall \in {"due", "hard"}}}
  <2>1. PICK c \in DOMAIN states : k = [mode |-> "review", concept |-> c, hard |-> states[c].recall = "hard"]
    BY <1>2
  <2>2. c \in Concepts /\ (states[c].recall = "hard") \in BOOLEAN
    BY DEF TypeOK
  <2> QED BY <2>1, <2>2 DEF Candidate, Modes
<1>3. CASE k \in {[mode |-> "teach", concept |-> c, hard |-> FALSE] : c \in Fringe \cap focus}
  <2>1. PICK c \in Fringe : k = [mode |-> "teach", concept |-> c, hard |-> FALSE]
    BY <1>3
  <2>2. c \in Concepts
    BY DEF Fringe
  <2> QED BY <2>1, <2>2 DEF Candidate, Modes
<1>4. CASE k \in {[mode |-> "test", concept |-> c, hard |-> TRUE] : c \in {e.src : e \in Escalated} \cap focus}
  <2>1. PICK e \in Escalated : k = [mode |-> "test", concept |-> e.src, hard |-> TRUE]
    BY <1>4
  <2>2. e.src \in Concepts
    BY DEF Escalated, TypeOK, EdgeTable, EdgeKeys
  <2> QED BY <2>1, <2>2 DEF Candidate, Modes
<1> QED BY <1>1, <1>2, <1>3, <1>4 DEF Candidates

\* A statement of checkin().
Reading ==
  \/ OpenCheck \/ ReadNear \/ ReportCheck
  \/ \E c \in Concepts : ReadGate(c)
  \/ \E c, p \in Concepts : ReadRow(c, p)

\* Every step grades one concept, ages one row, or leaves the tables alone.
LEMMA StepKinds ==
  ASSUME TypeOK, [Next]_vars
  PROVE  \/ \E c \in Concepts, score \in Score : Graded(c, score)
         \/ \E c \in Concepts : Aged(c)
         \/ /\ UNCHANGED <<states, log, edges>> /\ served' \in Candidate \cup {Nothing}
            /\ check' = check \/ Reading
<1>1. ASSUME NEW c \in Concepts, NEW s \in Scores, NEW cited \in Citations,
             Grade(c, s, cited) \/ GradeRaises(c, s, cited)
      PROVE  s \in Score /\ Graded(c, s)
  BY <1>1, GradeIsGraded, ScoresType
<1>2. ASSUME NEW c \in Concepts, Age(c)
      PROVE  Aged(c)
  BY <1>2, AgeIsAged
<1>3. ASSUME NEW focus \in Foci, NextAction(focus)
      PROVE  UNCHANGED <<states, log, edges, check>> /\ served' \in Candidate
  BY <1>3, ServedTyped DEF NextAction, tables
<1>4. ASSUME NEW focus \in Foci, NothingToServe(focus)
      PROVE  UNCHANGED <<states, log, edges, check>> /\ served' = Nothing
  BY <1>4 DEF NothingToServe, tables
<1>5. CASE Reading
  BY <1>5 DEF Reading, OpenCheck, ReadNear, ReportCheck, ReadGate, ReadRow, tables
<1>6. CASE UNCHANGED vars
  BY <1>6 DEF vars, TypeOK
<1> QED BY <1>1, <1>2, <1>3, <1>4, <1>5, <1>6 DEF Next, Reading

\* The graded concept stands on its rung; no other concept's mastery moves.
LEMMA GradedMastery ==
  ASSUME TypeOK, NEW c \in Concepts, NEW score \in Score, Graded(c, score), NEW x \in Concepts
  PROVE  MasteryOf(x)' = IF x = c THEN NextMastery(score, Append(log[c], score)) ELSE MasteryOf(x)
<1>1. RowOr(states, x, Blank) \in State /\ RowOr(states, c, Blank) \in State /\ log[c] \in Seq(Score)
  BY BlankIsState, RowOrTyped DEF TypeOK
<1>2. CASE x = c
  BY <1>1, <1>2, GradedRowFields DEF Graded, GradedRows, MasteryOf
<1>3. CASE x # c /\ x \in DOMAIN states
  <2>1. RowOr(states, x, Blank).mastery = states[x].mastery
    BY <1>3 DEF RowOr
  <2> QED BY <1>1, <1>3, <2>1, ReviewRow DEF Graded, GradedRows, MasteryOf
<1>4. CASE x # c /\ x \notin DOMAIN states
  <2>1. RowOr(states, x, Blank).mastery = "new"
    BY <1>4 DEF RowOr, Blank
  <2> QED BY <1>1, <1>4, <2>1, ReviewRow DEF Graded, GradedRows, MasteryOf
<1> QED BY <1>2, <1>3, <1>4

---------------------------------------------------------------------------
\* Types

LEMMA InitType == Init => TypeOK
<1> SUFFICES ASSUME Init PROVE TypeOK
  OBVIOUS
<1>1. DOMAIN states = {} /\ log \in [Concepts -> Seq(Score)]
  BY DEF Init
<1>2. states \in [DOMAIN states -> State]
  BY DEF Init
<1>3. NoCheck \in Check
  BY DEF NoCheck, Check
<1> QED BY <1>1, <1>2, <1>3, InitEdgesIsTable DEF Init, TypeOK

\* What has been read of the gate are concepts of the course.
LEMMA ReadingTyped ==
  ASSUME TypeOK, Reading
  PROVE  check' \in Check
<1>1. check \in Check /\ EdgeTable(edges)
  BY DEF TypeOK
<1>2. \A c \in Concepts : GatingPrereqs(edges, c) \subseteq Concepts
  BY <1>1 DEF GatingPrereqs, GatingEdges, EdgeTable, EdgeKeys
<1>3. CASE OpenCheck
  BY <1>3 DEF OpenCheck, NoCheck, Check
<1>4. CASE ReadNear
  BY <1>1, <1>4 DEF ReadNear, Check
<1>5. CASE ReportCheck
  BY <1>5 DEF ReportCheck, NoCheck, Check
<1>6. ASSUME NEW c \in Concepts, ReadGate(c)
      PROVE  check' \in Check
  <2> DEFINE asked == {c} \X GatingPrereqs(edges, c)
  <2>1. asked \in SUBSET (Concepts \X Concepts)
    BY <1>2
  <2>2. check' = [check EXCEPT !.pending = @ \ {c}, !.ready = @ \cup {c}, !.rows = asked]
    BY <1>6 DEF ReadGate
  <2> HIDE DEF asked
  <2> QED BY <1>1, <2>1, <2>2 DEF Check
<1>7. ASSUME NEW c \in Concepts, NEW p \in Concepts, ReadRow(c, p)
      PROVE  check' \in Check
  BY <1>1, <1>7 DEF ReadRow, Check
<1> QED BY <1>3, <1>4, <1>5, <1>6, <1>7 DEF Reading

LEMMA NextType == TypeOK /\ [Next]_vars => TypeOK'
<1> SUFFICES ASSUME TypeOK, [Next]_vars PROVE TypeOK'
  OBVIOUS
<1>1. ASSUME NEW c \in Concepts, NEW score \in Score, Graded(c, score)
      PROVE  TypeOK'
  <2>1. log' \in [Concepts -> Seq(Score)]
    BY <1>1 DEF Graded, TypeOK
  <2>2. ASSUME NEW x \in DOMAIN states'
        PROVE  states'[x].recall # "none"
    <3>1. RowOr(states, x, Blank) \in State /\ RowOr(states, c, Blank) \in State /\ log[c] \in Seq(Score)
      BY BlankIsState, RowOrTyped DEF TypeOK
    <3>2. CASE x = c
      BY <1>1, <3>1, <3>2, GradedRowFields DEF Graded, GradedRows
    <3>3. CASE x # c
      BY <1>1, <3>1, <3>3, ReviewRow DEF Graded, GradedRows, TypeOK
    <3> QED BY <3>2, <3>3
  <2>3. check' \in Check
    BY <1>1 DEF Graded, TypeOK, Check
  <2> QED BY <1>1, <2>1, <2>2, <2>3 DEF Graded, GradedRows, TypeOK
<1>2. ASSUME NEW c \in Concepts, Aged(c)
      PROVE  TypeOK'
  BY <1>2 DEF Aged, TypeOK
<1>3. ASSUME UNCHANGED <<states, log, edges>>, served' \in Candidate \cup {Nothing}, check' = check \/ Reading
      PROVE  TypeOK'
  BY <1>3, ReadingTyped DEF TypeOK
<1> QED BY <1>1, <1>2, <1>3, StepKinds

\* Every table has rows of its type, and a stored row has a retention signal.
THEOREM TypeCorrect == Spec => []TypeOK
  BY InitType, NextType, PTL DEF Spec

---------------------------------------------------------------------------
\* The gate

LEMMA InitGates == Init => GatesFixed
  BY DEF Init, GatesFixed

LEMMA NextGates == TypeOK /\ GatesFixed /\ [Next]_vars => GatesFixed'
  BY StepKinds DEF GatesFixed, Graded, Aged

LEMMA IInvAlways == Spec => []IInv
  BY InitType, NextType, InitGates, NextGates, PTL DEF Spec, IInv

---------------------------------------------------------------------------
\* What a check-in has read

Gates(c) == GatingPrereqs(InitEdges, c)

\* The concepts that were not graded since stand as states_map has them.
SinceOpened ==
  check.step # "idle" =>
    /\ \A p \in Concepts \ check.graded : p \in check.mastered <=> IsMastered(MasteryOf(p))
    /\ check.graded = {} => check.unseen = Concepts \ DOMAIN states

NoGateRead == check.step # "ready" => check.ready = {} /\ check.rows = {}

NearIsRead ==
  check.step = "ready" => check.near = {c \in check.unseen : Gates(c) \ check.mastered # {}}

\* One concept at a time is examined. A concept counts as ready as long as each
\* of its prerequisites is yet to be read, was mastered, or was graded since;
\* one that was refused has a prerequisite that was graded or was not mastered.
Examined ==
  check.step = "ready" =>
    /\ check.pending \subseteq check.unseen /\ check.ready \subseteq check.unseen \ check.pending
    /\ \A r \in check.rows : r[1] \in check.ready /\ r[2] \in Gates(r[1])
    /\ \A q, r \in check.rows : q[1] = r[1]
    /\ \A c \in check.ready : \A p \in Gates(c) : <<c, p>> \in check.rows \/ p \in check.mastered \cup check.graded
    /\ \A c \in check.unseen \ (check.pending \cup check.ready) :
         \E p \in Gates(c) : p \in check.graded \/ p \notin check.mastered

CheckInv == SinceOpened /\ NoGateRead /\ NearIsRead /\ Examined

LEMMA InitCheck == Init => CheckInv
  BY DEF Init, NoCheck, CheckInv, SinceOpened, NoGateRead, NearIsRead, Examined

\* What is graded and what ages between two statements of the check-in.
LEMMA MeanwhileKeeps ==
  ASSUME IInv, CheckInv,
         \/ \E c \in Concepts, score \in Score : Graded(c, score)
         \/ \E c \in Concepts : Aged(c)
         \/ UNCHANGED <<states, log, edges, check>>
  PROVE  CheckInv'
<1>1. check \in Check
  BY DEF IInv, TypeOK
<1>2. ASSUME NEW c \in Concepts, NEW score \in Score, Graded(c, score)
      PROVE  CheckInv'
  <2>1. ASSUME NEW p \in Concepts, p # c PROVE MasteryOf(p)' = MasteryOf(p)
    BY <1>2, <2>1, GradedMastery DEF IInv
  <2>2. CASE check.step = "idle"
    BY <1>2, <2>2 DEF Graded, CheckInv, SinceOpened, NoGateRead, NearIsRead, Examined
  <2>3. CASE check.step # "idle"
    <3>1. /\ check' = [check EXCEPT !.graded = @ \cup {c}]
      BY <1>2, <2>3 DEF Graded
    <3>2. /\ check'.step = check.step /\ check'.unseen = check.unseen /\ check'.mastered = check.mastered
          /\ check'.near = check.near /\ check'.pending = check.pending /\ check'.ready = check.ready
          /\ check'.rows = check.rows /\ check'.graded = check.graded \cup {c}
      BY <1>1, <3>1 DEF Check
    <3>3. SinceOpened'
      BY <2>1, <2>3, <3>2 DEF SinceOpened, CheckInv
    <3>4. NearIsRead'
      BY <3>2 DEF NearIsRead, CheckInv
    <3>5. NoGateRead'
      BY <3>2 DEF NoGateRead, CheckInv
    <3>6. Examined'
      BY <3>2 DEF Examined, CheckInv
    <3> QED BY <3>3, <3>4, <3>6, <3>5 DEF CheckInv
  <2> QED BY <2>2, <2>3
<1>3. ASSUME NEW c \in Concepts, Aged(c)
      PROVE  CheckInv'
  <2>1. \A p : MasteryOf(p)' = MasteryOf(p)
    BY <1>3 DEF Aged, MasteryOf
  <2>2. check' = check /\ DOMAIN states' = DOMAIN states
    BY <1>3 DEF Aged
  <2> QED BY <2>1, <2>2 DEF CheckInv, SinceOpened, NoGateRead, NearIsRead, Examined
<1>4. CASE UNCHANGED <<states, log, edges, check>>
  BY <1>4 DEF CheckInv, SinceOpened, NoGateRead, NearIsRead, Examined, MasteryOf
<1> QED BY <1>2, <1>3, <1>4

\* The statements of the check-in.
LEMMA ReadingKeeps ==
  ASSUME IInv, CheckInv, Reading, UNCHANGED <<states, log, edges>>
  PROVE  CheckInv'
<1>1. check \in Check /\ \A c : GatingPrereqs(edges, c) = Gates(c)
  BY DEF IInv, TypeOK, GatesFixed, GatingPrereqs, Gates
<1>2. \A p : MasteryOf(p)' = MasteryOf(p)
  BY DEF MasteryOf
<1>3. CASE OpenCheck
  <2>1. \A c \in Concepts : NeverSeen(c) <=> c \notin DOMAIN states
    BY DEF NeverSeen, TypeOK, IInv
  <2>2. /\ check'.step = "near"
        /\ check'.unseen = {c \in Concepts : NeverSeen(c)}
        /\ check'.mastered = {c \in Concepts : IsMastered(MasteryOf(c))}
    BY <1>3 DEF OpenCheck, NoCheck
  <2>3. check'.ready = {} /\ check'.rows = {}
    BY <1>3 DEF OpenCheck, NoCheck
  <2>4. SinceOpened'
    BY <1>2, <2>1, <2>2 DEF SinceOpened
  <2> QED BY <2>2, <2>3, <2>4 DEF CheckInv, NoGateRead, NearIsRead, Examined
<1>4. CASE ReadNear
  <2>1. /\ check.step = "near"
        /\ check' = [check EXCEPT !.step = "ready", !.pending = check.unseen,
                                  !.near = {c \in check.unseen : Missing(c) # {}}]
    BY <1>4 DEF ReadNear
  <2>2. /\ check'.step = "ready" /\ check'.unseen = check.unseen /\ check'.mastered = check.mastered
        /\ check'.near = {c \in check.unseen : Missing(c) # {}} /\ check'.pending = check.unseen
        /\ check'.graded = check.graded
    BY <1>1, <2>1 DEF Check
  <2>3. check'.ready = check.ready /\ check'.rows = check.rows
    BY <1>1, <2>1 DEF Check
  <2>4. check.ready = {} /\ check.rows = {}
    BY <2>1 DEF CheckInv, NoGateRead
  <2>5. SinceOpened' /\ NoGateRead'
    BY <1>2, <2>1, <2>2 DEF CheckInv, SinceOpened, NoGateRead
  <2>6. NearIsRead'
    BY <1>1, <2>2 DEF NearIsRead, Missing
  <2>7. Examined'
    BY <2>2, <2>3, <2>4 DEF Examined
  <2> QED BY <2>5, <2>6, <2>7 DEF CheckInv
<1>5. CASE ReportCheck
  BY <1>5 DEF ReportCheck, NoCheck, CheckInv, SinceOpened, NoGateRead, NearIsRead, Examined
<1>6. ASSUME NEW c \in Concepts, ReadGate(c)
      PROVE  CheckInv'
  <2>1. /\ check.step = "ready" /\ check.rows = {} /\ c \in check.pending
        /\ check' = [check EXCEPT !.pending = @ \ {c}, !.ready = @ \cup {c}, !.rows = {c} \X Gates(c)]
    BY <1>1, <1>6 DEF ReadGate
  <2>2. /\ check'.step = "ready" /\ check'.unseen = check.unseen /\ check'.mastered = check.mastered
        /\ check'.near = check.near /\ check'.pending = check.pending \ {c} /\ check'.ready = check.ready \cup {c}
        /\ check'.rows = {c} \X Gates(c) /\ check'.graded = check.graded
    BY <1>1, <2>1 DEF Check
  <2>3. SinceOpened' /\ NoGateRead'
    BY <1>2, <2>1, <2>2 DEF CheckInv, SinceOpened, NoGateRead
  <2>4. NearIsRead'
    BY <2>1, <2>2 DEF CheckInv, NearIsRead
  <2>5. Examined'
    BY <2>1, <2>2 DEF CheckInv, Examined
  <2> QED BY <2>3, <2>4, <2>5 DEF CheckInv
<1>7. ASSUME NEW c \in Concepts, NEW p \in Concepts, ReadRow(c, p)
      PROVE  CheckInv'
  <2>1. check.step = "ready"
    BY <1>7 DEF CheckInv, NoGateRead, ReadRow
  <2>2. c \in check.ready /\ c \in check.unseen /\ p \in Gates(c) /\ \A r \in check.rows : r[1] = c
    BY <1>7, <2>1 DEF CheckInv, Examined, ReadRow
  <2>3. /\ check'.step = "ready" /\ check'.unseen = check.unseen /\ check'.mastered = check.mastered
        /\ check'.near = check.near /\ check'.pending = check.pending /\ check'.graded = check.graded
    BY <1>1, <1>7, <2>1 DEF Check, ReadRow
  <2>4. SinceOpened' /\ NoGateRead' /\ NearIsRead'
    BY <1>2, <2>1, <2>3 DEF CheckInv, SinceOpened, NoGateRead, NearIsRead
  <2>5. p \notin check.graded => (p \in check.mastered <=> IsMastered(MasteryOf(p)))
    BY <2>1 DEF CheckInv, SinceOpened
  <2>6. CASE IsMastered(MasteryOf(p))
    <3>1. check'.ready = check.ready /\ check'.rows = check.rows \ {<<c, p>>}
      BY <1>1, <1>7, <2>6 DEF Check, ReadRow
    <3>2. Examined'
      BY <2>1, <2>2, <2>3, <2>5, <2>6, <3>1 DEF CheckInv, Examined
    <3> QED BY <2>4, <3>2 DEF CheckInv
  <2>7. CASE ~IsMastered(MasteryOf(p))
    <3>1. check'.ready = check.ready \ {c} /\ check'.rows = {}
      BY <1>1, <1>7, <2>7 DEF Check, ReadRow
    <3>2. ASSUME NEW d \in check.ready \ {c}, NEW q \in Gates(d)
          PROVE  q \in check.mastered \cup check.graded
      BY <2>1, <2>2 DEF CheckInv, Examined
    <3>3. Examined'
      BY <2>1, <2>2, <2>3, <2>5, <2>7, <3>1, <3>2 DEF CheckInv, Examined
    <3> QED BY <2>4, <3>3 DEF CheckInv
  <2> QED BY <2>6, <2>7
<1> QED BY <1>3, <1>4, <1>5, <1>6, <1>7 DEF Reading

LEMMA NextCheck == IInv /\ CheckInv /\ [Next]_vars => CheckInv'
  BY StepKinds, MeanwhileKeeps, ReadingKeeps DEF IInv

\* What has been read when a check-in is complete says what it may report.
LEMMA ReadingsAgree == IInv /\ CheckInv => UnlockReadingsAgree
<1> SUFFICES ASSUME IInv, CheckInv, CheckRead PROVE UnlockReadingsAgree
  BY DEF UnlockReadingsAgree
<1>1. check \in Check /\ \A c : GatingPrereqs(edges, c) = Gates(c)
  BY DEF IInv, TypeOK, GatesFixed, GatingPrereqs, Gates
<1>2. check.step = "ready" /\ check.pending = {} /\ check.rows = {}
  BY DEF CheckRead
<1>3. /\ check.ready \subseteq check.unseen /\ check.unseen \subseteq Concepts
      /\ \A c \in check.ready : Gates(c) \subseteq check.mastered \cup check.graded
      /\ \A c \in check.unseen \ check.ready : \E p \in Gates(c) : p \in check.graded \/ p \notin check.mastered
  BY <1>1, <1>2 DEF CheckInv, Examined, Check
<1>4. check.near = {c \in check.unseen : Gates(c) \ check.mastered # {}}
  BY <1>2 DEF CheckInv, NearIsRead
<1>5. ASSUME check.graded = {} PROVE check.ready = Fringe
  <2>1. check.unseen = Concepts \ DOMAIN states
    BY <1>2, <1>5 DEF CheckInv, SinceOpened
  <2>2. \A p \in Concepts : p \in check.mastered <=> (p \in DOMAIN states /\ IsMastered(states[p].mastery))
    BY <1>2, <1>5 DEF CheckInv, SinceOpened, MasteryOf, IsMastered
  <2>3. \A c \in Concepts : Gates(c) \subseteq Concepts
    BY InitEdgesIsTable DEF Gates, GatingPrereqs, GatingEdges, EdgeTable, EdgeKeys
  <2>4. \A c \in Concepts : PrereqsSatisfied(c) <=> Gates(c) \subseteq check.mastered
    BY <1>1, <2>2, <2>3 DEF PrereqsSatisfied
  <2> QED BY <1>3, <1>5, <2>1, <2>4 DEF Fringe
<1> QED BY <1>1, <1>3, <1>4, <1>5 DEF UnlockReadingsAgree

LEMMA CheckInvAlways == Spec => []CheckInv
  BY IInvAlways, InitCheck, NextCheck, PTL DEF Spec

\* Whatever is graded while checkin() reads, it contradicts itself only about
\* concepts whose prerequisites were graded, and never about next_action().
THEOREM ReadingsAlwaysAgree == Spec => []UnlockReadingsAgree
  BY IInvAlways, CheckInvAlways, ReadingsAgree, PTL

---------------------------------------------------------------------------
\* There is always a way on

\* A nonempty set of concepts has one of least rank.
LEMMA LeastRank ==
  ASSUME NEW S, S # {}, NEW rank \in [S -> Nat]
  PROVE  \E c \in S : \A d \in S : ~(rank[d] < rank[c])
<1> DEFINE T == {rank[c] : c \in S}
<1>1. T \subseteq Nat /\ T # {}
  OBVIOUS
<1>2. PICK x \in T : \A y \in T : x <= y
  <2> HIDE DEF T
  <2> QED BY <1>1, LeastIn
<1>3. PICK c \in S : x = rank[c]
  BY <1>2
<1>4. ASSUME NEW d \in S
      PROVE  ~(rank[d] < rank[c])
  BY <1>1, <1>2, <1>3
<1> QED BY <1>4

\* Gates that can be opened in some order are on no cycle.
LEMMA OrderedIsNotKnotted ==
  ASSUME NEW table, NEW rank \in [Concepts -> Nat],
         \A e \in GatingEdges(table) : rank[e.src] < rank[e.dst]
  PROVE  Knotted(table) = {}
<1> SUFFICES ASSUME NEW K \in SUBSET Concepts, K # {},
                    \A c \in K : \E e \in GatingEdges(table) : e.dst = c /\ e.src \in K
             PROVE  FALSE
  BY DEF Knotted
<1>1. [c \in K |-> rank[c]] \in [K -> Nat]
  OBVIOUS
<1>2. PICK c \in K : \A d \in K : ~(rank[d] < rank[c])
  <2>1. PICK c \in K : \A d \in K : ~([k \in K |-> rank[k]][d] < [k \in K |-> rank[k]][c])
    BY <1>1, LeastRank
  <2> QED BY <2>1
<1>3. PICK e \in GatingEdges(table) : e.dst = c /\ e.src \in K
  OBVIOUS
<1> QED BY <1>2, <1>3

\* The argument: if nothing can be taught and every row is mastered, each
\* concept that is not mastered has no row, so it waits for a gating
\* prerequisite that is not mastered either. These concepts wait for each other
\* behind gates that are those of ingestion, so they are knotted.
LEMMA WayOn == IInv => NeverStuck
<1> SUFFICES ASSUME TypeOK, GatesFixed, Fringe = {},
                    \A c \in DOMAIN states : IsMastered(states[c].mastery),
                    NEW d \in Concepts, ~IsMastered(MasteryOf(d))
             PROVE  d \in Knotted(InitEdges)
  BY DEF IInv, NeverStuck
<1> DEFINE K == {c \in Concepts : ~IsMastered(MasteryOf(c))}
<1>1. ASSUME NEW c \in K
      PROVE  \E e \in GatingEdges(InitEdges) : e.dst = c /\ e.src \in K
  <2>1. c \notin DOMAIN states
    BY DEF MasteryOf
  <2>2. ~PrereqsSatisfied(c)
    BY <2>1 DEF Fringe
  <2>3. PICK p \in GatingPrereqs(edges, c) : p \notin DOMAIN states \/ ~IsMastered(states[p].mastery)
    BY <2>2 DEF PrereqsSatisfied
  <2>4. PICK e \in GatingEdges(edges) : e.dst = c /\ e.src = p
    BY DEF GatingPrereqs
  <2>5. e \in GatingEdges(InitEdges) /\ p \in Concepts
    BY <2>4 DEF GatesFixed, GatingEdges, TypeOK, EdgeTable, EdgeKeys
  <2>6. ~IsMastered(MasteryOf(p))
    BY <2>3 DEF MasteryOf, IsMastered
  <2> QED BY <2>4, <2>5, <2>6
<1>2. d \in K /\ K \in SUBSET Concepts
  OBVIOUS
<1> HIDE DEF K
<1> QED BY <1>1, <1>2 DEF Knotted

\* Whatever ingestion stored, tutors cite and learners forget, there is a way on
\* but behind a cycle of gates.
THEOREM NeverStuckAlways == Spec => []NeverStuck
  BY IInvAlways, WayOn, PTL

\* In particular a course whose gates can be opened in some order has a way on
\* as long as something is not mastered.
THEOREM OrderedCourseNeverStuck ==
  ASSUME NEW rank \in [Concepts -> Nat], \A e \in GatingEdges(InitEdges) : rank[e.src] < rank[e.dst]
  PROVE  Spec => [](\/ \A c \in Concepts : IsMastered(MasteryOf(c))
                    \/ Fringe # {}
                    \/ \E c \in DOMAIN states : ~IsMastered(states[c].mastery))
<1>1. Knotted(InitEdges) = {}
  BY OrderedIsNotKnotted
<1>2. NeverStuck => \/ \A c \in Concepts : IsMastered(MasteryOf(c))
                    \/ Fringe # {}
                    \/ \E c \in DOMAIN states : ~IsMastered(states[c].mastery)
  BY <1>1 DEF NeverStuck
<1> QED BY <1>2, NeverStuckAlways, PTL

---------------------------------------------------------------------------
\* learner_state and review_log

\* The ladder reads the log after the grade as MasteryMatchesLog does.
LEMMA LadderReadsLog ==
  ASSUME NEW score \in Score, NEW history \in Seq(Score)
  PROVE  LET new == Append(history, score)
             n == Len(new)
             rung == NextMastery(score, new)
         IN /\ n > 0 /\ n \in Nat
            /\ new[n] = score
            /\ rung # "new"
            /\ rung = "exam_ready" <=> (n >= 2 /\ new[n] >= 5 /\ new[n - 1] >= 5)
            /\ IsMastered(rung) <=> new[n] >= 4
<1> DEFINE new == Append(history, score)
           n == Len(new)
<1>1. new \in Seq(Score) /\ n = Len(history) + 1 /\ Len(history) \in Nat /\ new[n] = score
  OBVIOUS
<1>2. n >= 2 => new[n - 1] \in Score
  BY <1>1
<1> HIDE DEF new
<1>3. NextMastery(score, new) \in {"learning", "solid", "exam_ready"}
  BY <1>1, LadderMastery
<1>4. NextMastery(score, new) = "exam_ready" <=> (n >= 2 /\ new[n] >= 5 /\ new[n - 1] >= 5)
  BY <1>1, <1>2 DEF NextMastery, TwoStrong, Score
<1>5. IsMastered(NextMastery(score, new)) <=> new[n] >= 4
  BY <1>1, <1>2 DEF NextMastery, TwoStrong, Score, IsMastered
<1> QED BY <1>1, <1>3, <1>4, <1>5 DEF new

LEMMA InitMastery == Init => MasteryMatchesLog
  BY DEF Init, MasteryMatchesLog, MasteryOf, IsMastered

\* The rung of one concept and its log.
Rung(c) ==
  LET n == Len(log[c])
      strong == n >= 2 /\ log[c][n] >= 5 /\ log[c][n - 1] >= 5
  IN /\ (MasteryOf(c) = "new") <=> (n = 0)
     /\ (MasteryOf(c) = "exam_ready") <=> strong
     /\ IsMastered(MasteryOf(c)) <=> (n > 0 /\ log[c][n] >= 4)

LEMMA NextMatches == TypeOK /\ MasteryMatchesLog /\ [Next]_vars => MasteryMatchesLog'
<1> SUFFICES ASSUME TypeOK, MasteryMatchesLog, [Next]_vars, NEW x \in Concepts
             PROVE  Rung(x)'
  BY DEF MasteryMatchesLog, Rung
<1>1. Rung(x)
  BY DEF MasteryMatchesLog, Rung
<1>2. ASSUME NEW c \in Concepts, NEW score \in Score, Graded(c, score)
      PROVE  Rung(x)'
  <2>1. log[c] \in Seq(Score) /\ log' = [log EXCEPT ![c] = Append(@, score)]
    BY <1>2 DEF TypeOK, Graded
  <2>2. MasteryOf(x)' = IF x = c THEN NextMastery(score, Append(log[c], score)) ELSE MasteryOf(x)
    BY <1>2, GradedMastery
  <2>3. CASE x = c
    <3>1. log'[c] = Append(log[c], score)
      BY <2>1 DEF TypeOK
    <3> QED BY <2>1, <2>2, <2>3, <3>1, LadderReadsLog DEF Rung
  <2>4. CASE x # c
    BY <1>1, <2>1, <2>2, <2>4 DEF Rung, TypeOK
  <2> QED BY <2>3, <2>4
<1>3. ASSUME NEW c \in Concepts, Aged(c)
      PROVE  Rung(x)'
  <2>1. MasteryOf(x)' = MasteryOf(x) /\ log' = log
    BY <1>3 DEF Aged, MasteryOf
  <2> QED BY <1>1, <2>1 DEF Rung
<1>4. ASSUME UNCHANGED <<states, log, edges>>
      PROVE  Rung(x)'
  BY <1>1, <1>4 DEF Rung, MasteryOf
<1> QED BY <1>2, <1>3, <1>4, StepKinds

\* Mastery is what the last two grades on record make it, ripples or not.
THEOREM MasteryAlwaysMatchesLog == Spec => []MasteryMatchesLog
  BY InitType, NextType, InitMastery, NextMatches, PTL DEF Spec

---------------------------------------------------------------------------
\* Counters and log

\* The failed entries of one log.
Failed(history) == {i \in DOMAIN history : history[i] <= 2}

LEMMA FailedAppend ==
  ASSUME NEW history \in Seq(Score), NEW score \in Score
  PROVE  /\ IsFiniteSet(Failed(history)) /\ Cardinality(Failed(history)) \in Nat
         /\ Cardinality(Failed(Append(history, score)))
              = Cardinality(Failed(history)) + (IF score <= 2 THEN 1 ELSE 0)
<1> DEFINE n == Len(history)
<1>1. n \in Nat /\ DOMAIN history = 1 .. n /\ DOMAIN Append(history, score) = 1 .. (n + 1)
  OBVIOUS
<1>2. IsFiniteSet(1 .. n)
  BY <1>1, FS_Interval
<1>3. IsFiniteSet(Failed(history)) /\ Cardinality(Failed(history)) \in Nat
  BY <1>1, <1>2, FS_Subset, FS_CardinalityType DEF Failed
<1>4. Failed(Append(history, score)) = Failed(history) \cup (IF score <= 2 THEN {n + 1} ELSE {})
  BY <1>1 DEF Failed
<1>5. n + 1 \notin Failed(history)
  BY <1>1 DEF Failed
<1>6. CASE score <= 2
  BY <1>3, <1>4, <1>5, <1>6, FS_AddElement
<1>7. CASE ~(score <= 2)
  BY <1>3, <1>4, <1>7
<1> QED BY <1>3, <1>6, <1>7

\* EveryGradeCounted of one concept.
Counted(c) ==
  LET row == RowOr(states, c, Blank)
  IN /\ Len(log[c]) <= row.reps
     /\ Cardinality(Failed(log[c])) <= row.lapses
     /\ row.lapses <= row.reps

LEMMA CountedIsEveryGradeCounted == EveryGradeCounted <=> \A c \in Concepts : Counted(c)
  BY DEF EveryGradeCounted, Counted, Failed

LEMMA InitCounted == Init => EveryGradeCounted
<1> SUFFICES ASSUME Init, NEW c \in Concepts PROVE Counted(c)
  BY CountedIsEveryGradeCounted
<1>1. log[c] = <<>> /\ RowOr(states, c, Blank) = Blank
  BY DEF Init, RowOr
<1>2. Failed(<<>>) = {}
  BY DEF Failed
<1>3. Len(log[c]) = 0 /\ Cardinality(Failed(log[c])) = 0
  BY <1>1, <1>2, FS_EmptySet
<1>4. Blank.reps = 0 /\ Blank.lapses = 0
  BY DEF Blank
<1> QED BY <1>1, <1>3, <1>4 DEF Counted

LEMMA NextCounted == TypeOK /\ EveryGradeCounted /\ [Next]_vars => EveryGradeCounted'
<1> SUFFICES ASSUME TypeOK, [Next]_vars, NEW x \in Concepts, Counted(x)
             PROVE  Counted(x)'
  BY CountedIsEveryGradeCounted DEF EveryGradeCounted, Counted, Failed
<1> DEFINE old == RowOr(states, x, Blank)
           new == RowOr(states', x, Blank)
<1>1. old \in State /\ old.reps \in Nat /\ old.lapses \in Nat /\ log[x] \in Seq(Score)
  BY BlankIsState, RowOrTyped DEF TypeOK, State
<1>2. /\ Len(log[x]) \in Nat /\ Cardinality(Failed(log[x])) \in Nat
      /\ Len(log[x]) <= old.reps /\ Cardinality(Failed(log[x])) <= old.lapses /\ old.lapses <= old.reps
  <2>1. 0 \in Score
    BY DEF Score
  <2>2. Len(log[x]) \in Nat /\ Cardinality(Failed(log[x])) \in Nat
    BY <1>1, <2>1, FailedAppend
  <2> QED BY <2>2 DEF Counted
<1>3. ASSUME NEW c \in Concepts, NEW score \in Score, Graded(c, score)
      PROVE  Counted(x)'
  <2>1. log' = [log EXCEPT ![c] = Append(@, score)]
    BY <1>3 DEF Graded
  <2>2. CASE x = c
    <3>1. new = GradedRow(old, score, log[c])
      BY <1>3, <2>2 DEF Graded, GradedRows, RowOr
    <3>2. new.reps = old.reps + 1 /\ new.lapses = old.lapses + (IF score <= 2 THEN 1 ELSE 0)
      BY <1>1, <2>2, <3>1, GradedRowFields
    <3>3. log'[x] = Append(log[x], score) /\ Len(log'[x]) = Len(log[x]) + 1
      BY <1>1, <2>1, <2>2 DEF TypeOK
    <3>4. Cardinality(Failed(log'[x])) = Cardinality(Failed(log[x])) + (IF score <= 2 THEN 1 ELSE 0)
      BY <1>1, <3>3, FailedAppend
    <3> QED BY <1>1, <1>2, <3>2, <3>3, <3>4 DEF Counted
  <2>3. CASE x # c
    <3>1. log'[x] = log[x]
      BY <2>1, <2>3 DEF TypeOK
    <3>2. new = old \/ \E r \in Rating : new = Review(old, r)
      BY <1>3, <2>3 DEF Graded, GradedRows, RowOr
    <3>3. \/ new.reps = old.reps /\ new.lapses = old.lapses
          \/ new.reps = old.reps + 1 /\ new.lapses \in {old.lapses, old.lapses + 1}
      BY <1>1, <3>2, ReviewRow
    <3> QED BY <1>1, <1>2, <3>1, <3>3 DEF Counted
  <2> QED BY <2>2, <2>3
<1>4. ASSUME NEW c \in Concepts, Aged(c)
      PROVE  Counted(x)'
  <2>1. new.reps = old.reps /\ new.lapses = old.lapses /\ log' = log
    BY <1>4 DEF Aged, RowOr
  <2> QED BY <1>2, <2>1 DEF Counted
<1>5. ASSUME UNCHANGED <<states, log, edges>>
      PROVE  Counted(x)'
  BY <1>2, <1>5 DEF Counted
<1> QED BY <1>3, <1>4, <1>5, StepKinds

\* No grade is ever lost from the counters while one handler runs at a time.
THEOREM EveryGradeAlwaysCounted == Spec => []EveryGradeCounted
  BY InitType, NextType, InitCounted, NextCounted, PTL DEF Spec

---------------------------------------------------------------------------
\* What a step may never do

LEMMA GateStep == IInv /\ [Next]_vars =>
  \A c \in Concepts :
     (PrereqsSatisfied(c) # PrereqsSatisfied(c)')
       => \E p \in GatingPrereqs(InitEdges, c) : log'[p] # log[p]
<1> SUFFICES ASSUME TypeOK, GatesFixed, [Next]_vars, NEW x \in Concepts,
                    \A p \in GatingPrereqs(InitEdges, x) : log'[p] = log[p]
             PROVE  PrereqsSatisfied(x)' <=> PrereqsSatisfied(x)
  <2>1. \A c : PrereqsSatisfied(c) \in BOOLEAN /\ PrereqsSatisfied(c)' \in BOOLEAN
    BY DEF PrereqsSatisfied
  <2> QED BY <2>1 DEF IInv
<1>1. GatingPrereqs(edges, x) = GatingPrereqs(InitEdges, x)
      /\ GatingPrereqs(edges, x)' = GatingPrereqs(InitEdges, x)
  BY NextGates DEF GatesFixed, GatingPrereqs
<1>2. GatingPrereqs(InitEdges, x) \subseteq Concepts
  BY InitEdgesIsTable DEF GatingPrereqs, GatingEdges, EdgeTable, EdgeKeys
<1>3. ASSUME NEW p \in GatingPrereqs(InitEdges, x)
      PROVE  MasteryOf(p)' = MasteryOf(p)
  <2>1. p \in Concepts /\ log'[p] = log[p]
    BY <1>2, <1>3
  <2>2. ASSUME NEW c \in Concepts, NEW score \in Score, Graded(c, score)
        PROVE  MasteryOf(p)' = MasteryOf(p)
    <3>1. log[c] \in Seq(Score) /\ log'[c] = Append(log[c], score)
      BY <2>2 DEF Graded, TypeOK
    <3>2. p # c
      BY <2>1, <3>1
    <3> QED BY <2>1, <2>2, <3>2, GradedMastery
  <2>3. ASSUME NEW c \in Concepts, Aged(c)
        PROVE  MasteryOf(p)' = MasteryOf(p)
    BY <2>3 DEF Aged, MasteryOf
  <2>4. ASSUME UNCHANGED <<states, log, edges>>
        PROVE  MasteryOf(p)' = MasteryOf(p)
    BY <2>4 DEF MasteryOf
  <2> QED BY <2>2, <2>3, <2>4, StepKinds
<1>4. PrereqsSatisfied(x) <=> \A p \in GatingPrereqs(InitEdges, x) : IsMastered(MasteryOf(p))
  BY <1>1 DEF PrereqsSatisfied, MasteryOf, IsMastered
<1>5. PrereqsSatisfied(x)' <=> \A p \in GatingPrereqs(InitEdges, x) : IsMastered(MasteryOf(p)')
  BY <1>1 DEF PrereqsSatisfied, MasteryOf, IsMastered
<1> QED BY <1>3, <1>4, <1>5

\* A gate opens or closes by the grades of its prerequisites alone.
THEOREM GatesAlwaysMoveByGradesOnly == Spec => GatesMoveByGradesOnly
  BY IInvAlways, GateStep, PTL DEF Spec, GatesMoveByGradesOnly

\* How the counters of one row may move.
LEMMA RowStep ==
  ASSUME TypeOK, [Next]_vars, NEW x \in Concepts
  PROVE  LET old == RowOr(states, x, Blank)
             new == RowOr(states', x, Blank)
         IN /\ old \in State
            /\ new.reps \in old.reps .. (old.reps + 1)
            /\ new.reps # old.reps =>
                 \E c \in Concepts, score \in Score :
                    /\ log' = [log EXCEPT ![c] = Append(@, score)]
                    /\ x = c \/ x \in Within(edges', c, score)
            /\ new.lapses > old.lapses =>
                 \E c \in Concepts, score \in Score :
                    /\ score <= 2
                    /\ log' = [log EXCEPT ![c] = Append(@, score)]
                    /\ c = x \/ LinkTo(x, c) \in DOMAIN edges'
<1> DEFINE old == RowOr(states, x, Blank)
           new == RowOr(states', x, Blank)
<1>1. old \in State /\ old.reps \in Nat /\ old.lapses \in Nat
  BY BlankIsState, RowOrTyped DEF TypeOK, State
<1>2. ASSUME NEW c \in Concepts, NEW score \in Score, Graded(c, score)
      PROVE  /\ new.reps \in old.reps .. (old.reps + 1)
             /\ new.reps # old.reps =>
                  /\ log' = [log EXCEPT ![c] = Append(@, score)]
                  /\ x = c \/ x \in Within(edges', c, score)
             /\ new.lapses > old.lapses =>
                  /\ score <= 2
                  /\ log' = [log EXCEPT ![c] = Append(@, score)]
                  /\ c = x \/ LinkTo(x, c) \in DOMAIN edges'
  <2>1. log[c] \in Seq(Score) /\ log' = [log EXCEPT ![c] = Append(@, score)]
    BY <1>2 DEF TypeOK, Graded
  <2>2. CASE x = c
    <3>1. new = GradedRow(old, score, log[c])
      BY <1>2, <2>2 DEF Graded, GradedRows, RowOr
    <3>2. new.reps = old.reps + 1 /\ new.lapses = old.lapses + (IF score <= 2 THEN 1 ELSE 0)
      BY <1>1, <2>1, <3>1, GradedRowFields
    <3> QED BY <1>1, <2>1, <2>2, <3>2
  <2>3. CASE x # c /\ new = old
    BY <1>1, <2>3
  <2>4. CASE x # c /\ new # old
    <3>1. x \in DOMAIN states' /\ new = states'[x] /\ (x \in DOMAIN states => old = states[x])
      BY <1>2, <2>4 DEF Graded, GradedRows, RowOr
    <3>2. x \in Within(edges', c, score)
      BY <1>2, <2>4, <3>1 DEF Graded, GradedRows
    <3>3. PICK r \in Rating : /\ new = Review(old, r)
                              /\ r = AGAIN => score <= 2 /\ LinkTo(x, c) \in DOMAIN edges'
      BY <1>2, <2>4, <3>1 DEF Graded, GradedRows
    <3>4. new.reps = old.reps + 1 /\ new.lapses = old.lapses + (IF r = AGAIN THEN 1 ELSE 0)
      BY <1>1, <3>3, ReviewRow
    <3> QED BY <1>1, <2>1, <3>3, <3>4, <3>2
  <2> QED BY <2>2, <2>3, <2>4
<1>3. ASSUME NEW c \in Concepts, Aged(c)
      PROVE  new.reps = old.reps /\ new.lapses = old.lapses
  BY <1>3 DEF Aged, RowOr
<1>4. ASSUME UNCHANGED <<states, log, edges>>
      PROVE  new.reps = old.reps /\ new.lapses = old.lapses
  BY <1>4
<1> HIDE DEF new, old
<1>5. /\ old \in State
      /\ new.reps \in old.reps .. (old.reps + 1)
      /\ new.reps # old.reps =>
           \E c \in Concepts, score \in Score :
              /\ log' = [log EXCEPT ![c] = Append(@, score)]
              /\ x = c \/ x \in Within(edges', c, score)
      /\ new.lapses > old.lapses =>
           \E c \in Concepts, score \in Score :
              /\ score <= 2
              /\ log' = [log EXCEPT ![c] = Append(@, score)]
              /\ c = x \/ LinkTo(x, c) \in DOMAIN edges'
  <2>1. CASE \E c \in Concepts, score \in Score : Graded(c, score)
    BY <1>1, <1>2, <2>1
  <2>2. CASE new.reps = old.reps /\ new.lapses = old.lapses
    BY <1>1, <2>2
  <2> QED BY <1>3, <1>4, <2>1, <2>2, StepKinds
<1> QED BY <1>5 DEF new, old

\* One handler reviews a concept at most once, however many links lead to it,
\* and only within two links of the graded one.
THEOREM AlwaysOneReviewPerHandler == Spec => OneReviewPerHandler
<1>1. ASSUME TypeOK, [Next]_vars, NEW x \in Concepts,
             RowOr(states', x, Blank).reps # RowOr(states, x, Blank).reps
      PROVE  \E c \in Concepts :
                /\ log'[c] # log[c]
                /\ x = c \/ x \in Within(edges', c, log'[c][Len(log'[c])])
  <2>1. PICK c \in Concepts, score \in Score :
             /\ log' = [log EXCEPT ![c] = Append(@, score)]
             /\ x = c \/ x \in Within(edges', c, score)
    BY <1>1, RowStep
  <2>2. log[c] \in Seq(Score) /\ log'[c] = Append(log[c], score)
    BY <1>1, <2>1 DEF TypeOK
  <2>3. log'[c] # log[c] /\ log'[c][Len(log'[c])] = score
    BY <2>2
  <2> QED BY <2>1, <2>3
<1>2. ASSUME TypeOK, [Next]_vars, NEW x \in Concepts
      PROVE  RowOr(states', x, Blank).reps \in RowOr(states, x, Blank).reps .. (RowOr(states, x, Blank).reps + 1)
  BY <1>2, RowStep
<1>3. TypeOK /\ [Next]_vars =>
        \A x \in Concepts :
          LET old == RowOr(states, x, Blank).reps
              new == RowOr(states', x, Blank).reps
          IN /\ new \in old .. (old + 1)
             /\ new # old =>
                  \E c \in Concepts :
                     /\ log'[c] # log[c]
                     /\ x = c \/ x \in Within(edges', c, log'[c][Len(log'[c])])
  BY <1>1, <1>2
<1> QED BY <1>3, TypeCorrect, PTL DEF Spec, OneReviewPerHandler

\* Only a failed concept and its direct parents ever record a lapse.
THEOREM BlameAlwaysStopsAtParents == Spec => BlameStopsAtParents
<1>1. ASSUME TypeOK, [Next]_vars, NEW x \in Concepts,
             RowOr(states', x, Blank).lapses > RowOr(states, x, Blank).lapses
      PROVE  \E c \in Concepts :
                /\ log'[c] # log[c]
                /\ log'[c][Len(log'[c])] <= 2
                /\ c = x \/ LinkTo(x, c) \in DOMAIN edges'
  <2>1. PICK c \in Concepts, score \in Score :
             /\ score <= 2
             /\ log' = [log EXCEPT ![c] = Append(@, score)]
             /\ c = x \/ LinkTo(x, c) \in DOMAIN edges'
    BY <1>1, RowStep
  <2>2. log[c] \in Seq(Score) /\ log'[c] = Append(log[c], score)
    BY <1>1, <2>1 DEF TypeOK
  <2>3. log'[c] # log[c] /\ log'[c][Len(log'[c])] = score
    BY <2>2
  <2> QED BY <2>1, <2>3
<1>2. TypeOK /\ [Next]_vars =>
        \A x \in Concepts :
          RowOr(states', x, Blank).lapses > RowOr(states, x, Blank).lapses
            => \E c \in Concepts :
                 /\ log'[c] # log[c]
                 /\ log'[c][Len(log'[c])] <= 2
                 /\ c = x \/ [src |-> x, type |-> "encompasses", dst |-> c] \in DOMAIN edges'
  BY <1>1 DEF LinkTo
<1> QED BY <1>2, TypeCorrect, PTL DEF Spec, BlameStopsAtParents
=============================================================================

-------------------------- MODULE CourseGraphLemmas --------------------------
(***************************************************************************)
(* Facts about the operators of Policies and CourseGraph that the proofs    *)
(* about the service rest on: what they return and what they leave alone.   *)
(***************************************************************************)
EXTENDS CourseGraph, FiniteSetTheorems, WellFoundedInduction, TLAPS

\* A batch of row writes yields a table of the same row type, whose rows are
\* the written ones where there are any and the old ones elsewhere.
LEMMA UpsertTable ==
  ASSUME NEW Rows, NEW table, NEW rows,
         table \in [DOMAIN table -> Rows],
         rows \in [DOMAIN rows -> Rows]
  PROVE  /\ DOMAIN Upsert(table, rows) = DOMAIN table \cup DOMAIN rows
         /\ Upsert(table, rows) \in [DOMAIN Upsert(table, rows) -> Rows]
         /\ \A k \in DOMAIN rows : Upsert(table, rows)[k] = rows[k]
         /\ \A k \in DOMAIN table \ DOMAIN rows : Upsert(table, rows)[k] = table[k]
  BY DEF Upsert

\* A review keeps the mastery, adds one rep and at most one lapse, and leaves a
\* retention signal.
LEMMA ReviewRow ==
  ASSUME NEW prior \in State, NEW rating \in Rating
  PROVE  /\ Review(prior, rating) \in State
         /\ Review(prior, rating).mastery = prior.mastery
         /\ Review(prior, rating).reps = prior.reps + 1
         /\ Review(prior, rating).lapses = prior.lapses + (IF rating = AGAIN THEN 1 ELSE 0)
         /\ Review(prior, rating).recall = "fresh"
  BY DEF Review, State, Recall, AGAIN

\* A score has a rating, and exactly the failing scores are worth AGAIN.
LEMMA ScoreRating ==
  ASSUME NEW score \in Score
  PROVE  /\ GradeToRating(score) \in Rating
         /\ GradeToRating(score) = AGAIN <=> score <= 2
  BY DEF Score, GradeToRating, Rating, AGAIN, HARD, GOOD, EASY

\* The ladder never leads back to "new".
LEMMA LadderMastery ==
  ASSUME NEW score \in Score, NEW recent \in Seq(Score)
  PROVE  NextMastery(score, recent) \in {"learning", "solid", "exam_ready"}
  BY DEF NextMastery

LEMMA BlankIsState == Blank \in State
  BY DEF Blank, State, Mastery, Recall

\* The row grade() writes is a review of the prior at the ladder's mastery.
LEMMA GradedRowFields ==
  ASSUME NEW prior \in State, NEW score \in Score, NEW history \in Seq(Score)
  PROVE  /\ GradedRow(prior, score, history) \in State
         /\ GradedRow(prior, score, history).mastery = NextMastery(score, Append(history, score))
         /\ GradedRow(prior, score, history).reps = prior.reps + 1
         /\ GradedRow(prior, score, history).lapses = prior.lapses + (IF score <= 2 THEN 1 ELSE 0)
         /\ GradedRow(prior, score, history).recall = "fresh"
<1> DEFINE reviewed == Review(prior, GradeToRating(score))
           rung == NextMastery(score, Append(history, score))
<1>1. /\ reviewed \in State
      /\ reviewed.reps = prior.reps + 1
      /\ reviewed.lapses = prior.lapses + (IF score <= 2 THEN 1 ELSE 0)
      /\ reviewed.recall = "fresh"
  BY ScoreRating, ReviewRow
<1>2. rung \in Mastery
  <2>1. Append(history, score) \in Seq(Score)
    OBVIOUS
  <2> QED BY <2>1, LadderMastery DEF Mastery
<1>3. GradedRow(prior, score, history) = [reviewed EXCEPT !.mastery = rung]
  BY DEF GradedRow
<1> HIDE DEF reviewed, rung
<1>4. [reviewed EXCEPT !.mastery = rung] \in State
  BY <1>1, <1>2 DEF State
<1>5. /\ [reviewed EXCEPT !.mastery = rung].mastery = rung
      /\ [reviewed EXCEPT !.mastery = rung].reps = reviewed.reps
      /\ [reviewed EXCEPT !.mastery = rung].lapses = reviewed.lapses
      /\ [reviewed EXCEPT !.mastery = rung].recall = reviewed.recall
  BY <1>1 DEF State
<1> QED BY <1>1, <1>3, <1>4, <1>5 DEF rung

\* A missing row reads as its default.
LEMMA RowOrTyped ==
  ASSUME NEW Rows, NEW table, table \in [DOMAIN table -> Rows], NEW k, NEW default \in Rows
  PROVE  RowOr(table, k, default) \in Rows
  BY DEF RowOr

---------------------------------------------------------------------------
\* Exposure accounting

LEMMA DefaultEdgeRow == DefaultEdge \in EdgeRow
  BY DEF DefaultEdge, EdgeRow, Provenances, Weights

\* A property that some number has, one number has first.
LEMMA LeastIn ==
  ASSUME NEW T \in SUBSET Nat, T # {}
  PROVE  \E x \in T : \A y \in T : x <= y
<1>1. \E x \in T : \A y \in T : ~(<<y, x>> \in OpToRel(<, Nat))
  BY NatLessThanWellFounded, WFMin
<1>2. PICK x \in T : \A y \in T : ~(<<y, x>> \in OpToRel(<, Nat))
  BY <1>1
<1>3. ASSUME NEW y \in T
      PROVE  x <= y
  <2>1. ~(y < x)
    BY <1>2 DEF OpToRel
  <2> QED BY <2>1
<1> QED BY <1>3

\* Parsed is the number of citations before the first that raises.
ParsedAt(cited, n) ==
  /\ \A i \in 1 .. n : cited[i][1] \in EdgeKeys
  /\ n < Len(cited) => cited[n + 1][1] \notin EdgeKeys

LEMMA ParsedIs ==
  ASSUME NEW S, NEW cited \in Seq(S)
  PROVE  /\ Parsed(cited) \in 0 .. Len(cited) /\ ParsedAt(cited, Parsed(cited))
         /\ \A n \in 0 .. Len(cited) : ParsedAt(cited, n) => n = Parsed(cited)
<1> DEFINE bad == {i \in 1 .. Len(cited) : cited[i][1] \notin EdgeKeys}
<1>1. Len(cited) \in Nat
  OBVIOUS
<1>2. \E n \in 0 .. Len(cited) : ParsedAt(cited, n)
  <2>1. CASE bad = {}
    <3>1. ParsedAt(cited, Len(cited))
      BY <1>1, <2>1 DEF ParsedAt
    <3> QED BY <1>1, <3>1
  <2>2. CASE bad # {}
    <3>0. bad \in SUBSET Nat
      BY <1>1
    <3> HIDE DEF bad
    <3>1. PICK m \in bad : \A y \in bad : m <= y
      BY <2>2, <3>0, LeastIn
    <3> USE DEF bad
    <3>2. m - 1 \in 0 .. Len(cited) /\ ParsedAt(cited, m - 1)
      BY <1>1, <3>1 DEF ParsedAt
    <3> QED BY <3>2
  <2> QED BY <2>1, <2>2
<1>3. Parsed(cited) = CHOOSE n \in 0 .. Len(cited) : ParsedAt(cited, n)
  BY DEF Parsed, ParsedAt
<1>4. Parsed(cited) \in 0 .. Len(cited) /\ ParsedAt(cited, Parsed(cited))
  BY <1>2, <1>3
<1>5. ASSUME NEW n \in 0 .. Len(cited), NEW m \in 0 .. Len(cited), ParsedAt(cited, n), ParsedAt(cited, m)
      PROVE  ~(n < m)
  BY <1>1, <1>5 DEF ParsedAt
<1>6. ASSUME NEW n \in 0 .. Len(cited), ParsedAt(cited, n)
      PROVE  n = Parsed(cited)
  BY <1>1, <1>4, <1>5, <1>6
<1> QED BY <1>4, <1>6

\* However many citations there are, those of one kind have a number.
LEMMA TallyIsNumber ==
  ASSUME NEW n \in Nat, NEW S, S \subseteq 1 .. n
  PROVE  IsFiniteSet(S) /\ Cardinality(S) \in Nat
<1>1. IsFiniteSet(1 .. n)
  BY FS_Interval
<1>2. IsFiniteSet(S)
  BY <1>1, FS_Subset
<1> QED BY <1>2, FS_CardinalityType

\* Counting exposures keeps the table a table, and no prerequisite starts or
\* stops gating by it: the provenance of a row never changes and a new row is
\* inferred.
LEMMA ExposureKeepsGates ==
  ASSUME NEW edges, EdgeTable(edges),
         NEW cited, NEW n \in Nat, \A i \in 1 .. n : cited[i][1] \in EdgeKeys
  PROVE  /\ EdgeTable(RecordExposure(edges, cited, n))
         /\ GatingEdges(RecordExposure(edges, cited, n)) = GatingEdges(edges)
<1> DEFINE counted(e) == Exposed(RowOr(edges, e, DefaultEdge), e, cited, n)
           named == {cited[i][1] : i \in 1 .. n}
           rows == [e \in named |-> counted(e)]
<1>1. ASSUME NEW e \in EdgeKeys
      PROVE  counted(e) \in EdgeRow /\ counted(e).provenance = RowOr(edges, e, DefaultEdge).provenance
  <2> DEFINE times == Cardinality({i \in 1 .. n : cited[i][1] = e})
             skipped == Cardinality({i \in 1 .. n : cited[i] = <<e, TRUE>>})
  <2>1. RowOr(edges, e, DefaultEdge) \in EdgeRow
    BY RowOrTyped, DefaultEdgeRow DEF EdgeTable
  <2>2. times \in Nat /\ skipped \in Nat
    BY TallyIsNumber
  <2> DEFINE row == RowOr(edges, e, DefaultEdge)
  <2>3. counted(e) = [provenance |-> row.provenance, weight |-> row.weight,
                      exposures |-> row.exposures + times, skips |-> row.skips + skipped]
    BY DEF Exposed
  <2> HIDE DEF times, skipped, row, counted
  <2> QED BY <2>1, <2>2, <2>3 DEF EdgeRow, row
<1>2. RecordExposure(edges, cited, n) = Upsert(edges, rows)
  BY DEF RecordExposure
<1>3. rows \in [DOMAIN rows -> EdgeRow] /\ DOMAIN rows = named /\ named \subseteq EdgeKeys
  BY <1>1
<1>4. \A e \in DOMAIN rows : rows[e].provenance = RowOr(edges, e, DefaultEdge).provenance
  BY <1>1
<1> HIDE DEF rows, named
<1>5. /\ DOMAIN Upsert(edges, rows) = DOMAIN edges \cup DOMAIN rows
      /\ Upsert(edges, rows) \in [DOMAIN Upsert(edges, rows) -> EdgeRow]
      /\ \A k \in DOMAIN rows : Upsert(edges, rows)[k] = rows[k]
      /\ \A k \in DOMAIN edges \ DOMAIN rows : Upsert(edges, rows)[k] = edges[k]
  <2>1. edges \in [DOMAIN edges -> EdgeRow]
    BY DEF EdgeTable
  <2> QED BY <1>3, <2>1 DEF Upsert
<1>6. EdgeTable(Upsert(edges, rows))
  BY <1>3, <1>5 DEF EdgeTable
<1>7. \A e \in DOMAIN Upsert(edges, rows) :
         Upsert(edges, rows)[e].provenance = RowOr(edges, e, DefaultEdge).provenance
  BY <1>4, <1>5 DEF RowOr
<1>8. \A e \in DOMAIN Upsert(edges, rows) \ DOMAIN edges :
         Upsert(edges, rows)[e].provenance = "inferred"
  BY <1>7 DEF RowOr, DefaultEdge
<1>9. GatingEdges(Upsert(edges, rows)) = GatingEdges(edges)
  BY <1>5, <1>7, <1>8 DEF GatingEdges, RowOr
<1> QED BY <1>2, <1>6, <1>9

---------------------------------------------------------------------------
\* FIRe

\* A link is worth a rating, on the first hop and on the second.
LEMMA LinkRatingTyped ==
  ASSUME NEW row \in EdgeRow, NEW hop \in {1, 2}
  PROVE  LinkRating(row, hop) \in Rating
  BY DEF LinkRating, EdgeRow, Weights, Rating, AGAIN, HARD, GOOD, EASY

\* The ENCOMPASSES link from x down to c.
LinkTo(x, c) == [src |-> x, type |-> "encompasses", dst |-> c]

\* What is emitted are ratings of concepts, and AGAIN only for the direct
\* parents of a failed concept.
LEMMA EmissionsTyped ==
  ASSUME NEW edges, EdgeTable(edges), NEW c \in Concepts, NEW rating \in Rating
  PROVE  /\ Emissions(edges, c, rating) \subseteq Concepts \X Rating
         /\ \A m \in Emissions(edges, c, rating) :
               m[2] = AGAIN => rating = AGAIN /\ LinkTo(m[1], c) \in DOMAIN edges
<1>1. ASSUME NEW e \in DOMAIN edges, NEW hop \in {1, 2}
      PROVE  <<e.dst, LinkRating(edges[e], hop)>> \in Concepts \X Rating
  BY <1>1, LinkRatingTyped DEF EdgeTable, EdgeKeys
<1>2. ASSUME NEW e \in DOMAIN edges
      PROVE  <<e.src, AGAIN>> \in Concepts \X Rating
  BY DEF EdgeTable, EdgeKeys, Rating, AGAIN, EASY
<1>3. \A x : EncompassesOut(edges, x) \subseteq DOMAIN edges /\ EncompassesIn(edges, x) \subseteq DOMAIN edges
  BY DEF EncompassesOut, EncompassesIn
<1>4. ASSUME NEW e \in EncompassesIn(edges, c)
      PROVE  LinkTo(e.src, c) \in DOMAIN edges
  <2>1. e \in DOMAIN edges /\ e \in EdgeKeys /\ e.type = "encompasses" /\ e.dst = c
    BY DEF EncompassesIn, EdgeTable
  <2>2. e = LinkTo(e.src, c)
    BY <2>1 DEF EdgeKeys, LinkTo
  <2> QED BY <2>1, <2>2
<1>5. CASE rating >= GOOD
  <2>1. \A m \in Emissions(edges, c, rating) :
           \/ \E e \in DOMAIN edges : m = <<e.dst, LinkRating(edges[e], 1)>> /\ LinkRating(edges[e], 1) # AGAIN
           \/ \E f \in DOMAIN edges : m = <<f.dst, LinkRating(edges[f], 2)>> /\ LinkRating(edges[f], 2) # AGAIN
    BY <1>3, <1>5, Zenon DEF Emissions
  <2>2. ASSUME NEW m \in Emissions(edges, c, rating)
        PROVE  m \in Concepts \X Rating /\ m[2] # AGAIN
    <3>1. CASE \E e \in DOMAIN edges : m = <<e.dst, LinkRating(edges[e], 1)>> /\ LinkRating(edges[e], 1) # AGAIN
      <4>1. PICK e \in DOMAIN edges : m = <<e.dst, LinkRating(edges[e], 1)>> /\ LinkRating(edges[e], 1) # AGAIN
        BY <3>1
      <4>2. <<e.dst, LinkRating(edges[e], 1)>> \in Concepts \X Rating
        BY <1>1
      <4> QED BY <4>1, <4>2
    <3>2. CASE \E f \in DOMAIN edges : m = <<f.dst, LinkRating(edges[f], 2)>> /\ LinkRating(edges[f], 2) # AGAIN
      <4>1. PICK f \in DOMAIN edges : m = <<f.dst, LinkRating(edges[f], 2)>> /\ LinkRating(edges[f], 2) # AGAIN
        BY <3>2
      <4>2. <<f.dst, LinkRating(edges[f], 2)>> \in Concepts \X Rating
        BY <1>1
      <4> QED BY <4>1, <4>2
    <3> QED BY <2>1, <3>1, <3>2
  <2> QED BY <2>2
<1>6. CASE rating = AGAIN
  <2>1. Emissions(edges, c, rating) = {<<e.src, AGAIN>> : e \in EncompassesIn(edges, c)}
    BY <1>6 DEF Emissions, AGAIN, GOOD
  <2>2. ASSUME NEW m \in Emissions(edges, c, rating)
        PROVE  m \in Concepts \X Rating /\ LinkTo(m[1], c) \in DOMAIN edges
    <3>1. PICK e \in EncompassesIn(edges, c) : m = <<e.src, AGAIN>>
      BY <2>1
    <3>2. m[1] = e.src
      BY <3>1
    <3> QED BY <1>2, <1>3, <1>4, <3>1, <3>2
  <2> QED BY <1>6, <2>2
<1>7. CASE ~(rating >= GOOD) /\ rating # AGAIN
  BY <1>7 DEF Emissions
<1> QED BY <1>5, <1>6, <1>7

\* The strongest emission of a concept that has one is one of its emissions.
LEMMA StrongestEmitted ==
  ASSUME NEW emitted \in SUBSET (Concepts \X Rating), NEW m \in emitted
  PROVE  <<m[1], Strongest(emitted, m[1])>> \in emitted
<1> DEFINE Best(r) == /\ <<m[1], r>> \in emitted
                      /\ \A q \in Rating : <<m[1], q>> \in emitted => q <= r
<1>1. <<m[1], m[2]>> \in emitted /\ m[2] \in 1 .. 4
  BY DEF Rating, AGAIN, EASY
<1>2. \E r \in Rating : Best(r)
  <2>1. CASE <<m[1], 4>> \in emitted
    BY <2>1 DEF Rating, AGAIN, EASY
  <2>2. CASE <<m[1], 4>> \notin emitted /\ <<m[1], 3>> \in emitted
    BY <2>2 DEF Rating, AGAIN, EASY
  <2>3. CASE <<m[1], 4>> \notin emitted /\ <<m[1], 3>> \notin emitted /\ <<m[1], 2>> \in emitted
    BY <2>3 DEF Rating, AGAIN, EASY
  <2>4. CASE <<m[1], 4>> \notin emitted /\ <<m[1], 3>> \notin emitted /\ <<m[1], 2>> \notin emitted
    BY <1>1, <2>4 DEF Rating, AGAIN, EASY
  <2> QED BY <2>1, <2>2, <2>3, <2>4
<1>3. Strongest(emitted, m[1]) = CHOOSE r \in Rating : Best(r)
  BY DEF Strongest
<1> QED BY <1>2, <1>3

\* Credit is a rating for some other concepts than the graded one, AGAIN only
\* for the direct parents of a failed concept.
LEMMA CreditTyped ==
  ASSUME NEW edges, EdgeTable(edges), NEW c \in Concepts, NEW rating \in Rating
  PROVE  /\ DOMAIN Credit(edges, c, rating) \subseteq Concepts \ {c}
         /\ \A x \in DOMAIN Credit(edges, c, rating) :
               /\ Credit(edges, c, rating)[x] \in Rating
               /\ Credit(edges, c, rating)[x] = AGAIN => rating = AGAIN /\ LinkTo(x, c) \in DOMAIN edges
<1> DEFINE emitted == Emissions(edges, c, rating)
<1>1. /\ emitted \in SUBSET (Concepts \X Rating)
      /\ \A m \in emitted : m[2] = AGAIN => rating = AGAIN /\ LinkTo(m[1], c) \in DOMAIN edges
  BY EmissionsTyped
<1>2. Credit(edges, c, rating) = [x \in {m[1] : m \in emitted} \ {c} |-> Strongest(emitted, x)]
  BY DEF Credit
<1> HIDE DEF emitted
<1>3. DOMAIN Credit(edges, c, rating) = {m[1] : m \in emitted} \ {c}
  BY <1>2
<1>4. {m[1] : m \in emitted} \subseteq Concepts
  BY <1>1
<1>5. ASSUME NEW x \in DOMAIN Credit(edges, c, rating)
      PROVE  <<x, Credit(edges, c, rating)[x]>> \in emitted
  <2>1. PICK m \in emitted : x = m[1]
    BY <1>3
  <2>2. <<m[1], Strongest(emitted, m[1])>> \in emitted
    BY <1>1, StrongestEmitted
  <2> QED BY <1>2, <1>3, <2>1, <2>2
<1>6. ASSUME NEW x \in DOMAIN Credit(edges, c, rating)
      PROVE  /\ Credit(edges, c, rating)[x] \in Rating
             /\ Credit(edges, c, rating)[x] = AGAIN => rating = AGAIN /\ LinkTo(x, c) \in DOMAIN edges
  <2> DEFINE m == <<x, Credit(edges, c, rating)[x]>>
  <2>1. m \in emitted /\ m[1] = x /\ m[2] = Credit(edges, c, rating)[x]
    BY <1>5
  <2> QED BY <1>1, <2>1
<1> QED BY <1>3, <1>4, <1>6

\* The ripple reviews each credited concept once, as it is stored.
LEMMA ImplicitRowsTyped ==
  ASSUME NEW rows, rows \in [DOMAIN rows -> State], NEW edges, EdgeTable(edges),
         NEW c \in Concepts, NEW rating \in Rating
  PROVE  /\ DOMAIN ImplicitRows(rows, edges, c, rating) \subseteq Concepts \ {c}
         /\ ImplicitRows(rows, edges, c, rating) \in [DOMAIN ImplicitRows(rows, edges, c, rating) -> State]
         /\ \A x \in DOMAIN ImplicitRows(rows, edges, c, rating) : \E r \in Rating :
               /\ ImplicitRows(rows, edges, c, rating)[x] = Review(RowOr(rows, x, Blank), r)
               /\ r = AGAIN => rating = AGAIN /\ LinkTo(x, c) \in DOMAIN edges
<1> DEFINE credit == Credit(edges, c, rating)
<1>1. /\ DOMAIN credit \subseteq Concepts \ {c}
      /\ \A x \in DOMAIN credit :
            /\ credit[x] \in Rating
            /\ credit[x] = AGAIN => rating = AGAIN /\ LinkTo(x, c) \in DOMAIN edges
  BY CreditTyped
<1>2. ImplicitRows(rows, edges, c, rating) = [x \in DOMAIN credit |-> Review(RowOr(rows, x, Blank), credit[x])]
  BY DEF ImplicitRows
<1> HIDE DEF credit
<1>3. \A x \in DOMAIN credit : Review(RowOr(rows, x, Blank), credit[x]) \in State
  BY <1>1, RowOrTyped, BlankIsState, ReviewRow
<1> QED BY <1>1, <1>2, <1>3
=============================================================================

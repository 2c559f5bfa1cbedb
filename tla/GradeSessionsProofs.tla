-------------------------- MODULE GradeSessionsProofs --------------------------
(***************************************************************************)
(* Proofs about GradeSessions: for any number of sessions, requests and     *)
(* concepts, whatever is interleaved, raised or cut short, review_log never  *)
(* runs ahead of learner_state, "exam_ready" rests on a logged strong grade, *)
(* and a row that was not overwritten counts every entry of its log. And,    *)
(* for SoloGrade: the statements of a session that works alone implement     *)
(* the atomic handlers of Curriculum.                                       *)
(***************************************************************************)
EXTENDS SoloGrade, CourseGraphLemmas

Credits == UNION {[X -> Rating] : X \in SUBSET Concepts}

---------------------------------------------------------------------------
\* Local variables after each statement

LEMMA FrameFields ==
  ASSUME NEW f \in Frames
  PROVE  /\ f.pc \in Steps /\ f.req \in Requests /\ f.target \in Concepts
         /\ f.prior \in State /\ f.recent \in Seq(Score) /\ f.cited \in Seq(Ids \X BOOLEAN)
         /\ f.owed \in Credits
         /\ f.req.concept \in Concepts /\ f.req.score \in Score
  BY RequestsType DEF Frames, Credits

LEMMA StartFrame ==
  ASSUME NEW r \in Requests
  PROVE  /\ Frame(r) \in Frames /\ FrameOK(Frame(r))
         /\ Frame(r).pc = "prior" /\ Frame(r).prior = Blank /\ Frame(r).recent = <<>>
         /\ Frame(r).target = r.concept
<1>1. r.concept \in Concepts /\ r.cited \in Seq(Ids \X BOOLEAN)
  BY RequestsType
<1> DEFINE none == [x \in {} |-> AGAIN]
<1>2. none \in [{} -> Rating] /\ DOMAIN none = {}
  OBVIOUS
<1>3. none \in Credits
  BY <1>2 DEF Credits
<1>4. <<>> \in Seq(Score) /\ "prior" \in Steps
  BY DEF Steps
<1>5. Frame(r) = [pc |-> "prior", req |-> r, target |-> r.concept, prior |-> Blank,
                  recent |-> <<>>, cited |-> r.cited, owed |-> none]
  BY DEF Frame
<1> HIDE DEF none
<1>6. Frame(r) \in Frames
  BY <1>1, <1>3, <1>4, <1>5, BlankIsState DEF Frames, Credits
<1> QED BY <1>2, <1>5, <1>6 DEF FrameOK

\* What an update of some local variables leaves of the others.
Kept(g, f, changed) ==
  /\ "req" \notin changed => g.req = f.req
  /\ "target" \notin changed => g.target = f.target
  /\ "prior" \notin changed => g.prior = f.prior
  /\ "recent" \notin changed => g.recent = f.recent
  /\ "cited" \notin changed => g.cited = f.cited
  /\ "owed" \notin changed => g.owed = f.owed

LEMMA SetPrior ==
  ASSUME NEW f \in Frames, NEW p \in State, NEW q \in Steps
  PROVE  LET g == [f EXCEPT !.prior = p, !.pc = q]
         IN g \in Frames /\ g.pc = q /\ g.prior = p /\ Kept(g, f, {"prior"})
  BY DEF Frames, Kept

LEMMA SetRecent ==
  ASSUME NEW f \in Frames, NEW h \in Seq(Score), NEW q \in Steps
  PROVE  LET g == [f EXCEPT !.recent = h, !.pc = q]
         IN g \in Frames /\ g.pc = q /\ g.recent = h /\ Kept(g, f, {"recent"})
  BY DEF Frames, Kept

LEMMA ClearRead ==
  ASSUME NEW f \in Frames, NEW q \in Steps
  PROVE  LET g == [f EXCEPT !.prior = Blank, !.recent = <<>>, !.pc = q]
         IN g \in Frames /\ g.pc = q /\ g.prior = Blank /\ g.recent = <<>> /\ Kept(g, f, {"prior", "recent"})
<1> DEFINE e == [f EXCEPT !.prior = Blank]
<1>1. e \in Frames /\ e.prior = Blank /\ Kept(e, f, {"prior"})
  BY BlankIsState DEF Frames, Kept
<1> HIDE DEF e
<1>2. <<>> \in Seq(Score)
  OBVIOUS
<1>3. [f EXCEPT !.prior = Blank, !.recent = <<>>, !.pc = q] = [e EXCEPT !.recent = <<>>, !.pc = q]
  BY DEF e
<1> DEFINE g == [e EXCEPT !.recent = <<>>, !.pc = q]
<1>4. g \in Frames /\ g.pc = q /\ g.recent = <<>> /\ Kept(g, e, {"recent"})
  BY <1>1, <1>2, SetRecent
<1> HIDE DEF g
<1>5. g.prior = Blank /\ Kept(g, f, {"prior", "recent"})
  BY <1>1, <1>4 DEF Kept
<1> QED BY <1>3, <1>4, <1>5 DEF g

LEMMA SetPc ==
  ASSUME NEW f \in Frames, NEW q \in Steps
  PROVE  LET g == [f EXCEPT !.pc = q]
         IN g \in Frames /\ g.pc = q /\ Kept(g, f, {})
  BY DEF Frames, Kept

LEMMA SetCited ==
  ASSUME NEW f \in Frames, NEW ids \in Seq(Ids \X BOOLEAN)
  PROVE  LET g == [f EXCEPT !.cited = ids]
         IN g \in Frames /\ g.pc = f.pc /\ g.cited = ids /\ Kept(g, f, {"cited"})
  BY DEF Frames, Kept

LEMMA SetOwed ==
  ASSUME NEW f \in Frames, NEW owed \in Credits, NEW q \in Steps
  PROVE  LET g == [f EXCEPT !.owed = owed, !.pc = q]
         IN g \in Frames /\ g.pc = q /\ g.owed = owed /\ Kept(g, f, {"owed"})
  BY DEF Frames, Kept, Credits

LEMMA SetTarget ==
  ASSUME NEW f \in Frames, NEW x \in Concepts, NEW p \in State, NEW q \in Steps
  PROVE  LET g == [f EXCEPT !.target = x, !.prior = p, !.pc = q]
         IN g \in Frames /\ g.pc = q /\ g.target = x /\ g.prior = p /\ Kept(g, f, {"target", "prior"})
<1> DEFINE e == [f EXCEPT !.target = x]
<1>1. e \in Frames /\ e.target = x /\ Kept(e, f, {"target"})
  BY DEF Frames, Kept
<1> HIDE DEF e
<1>2. [f EXCEPT !.target = x, !.prior = p, !.pc = q] = [e EXCEPT !.prior = p, !.pc = q]
  BY DEF e
<1> DEFINE g == [e EXCEPT !.prior = p, !.pc = q]
<1>3. g \in Frames /\ g.pc = q /\ g.prior = p /\ Kept(g, e, {"prior"})
  BY <1>1, SetPrior
<1> HIDE DEF g
<1>4. g.target = x /\ Kept(g, f, {"target", "prior"})
  BY <1>1, <1>3 DEF Kept
<1> QED BY <1>2, <1>3, <1>4 DEF g

LEMMA PayOwed ==
  ASSUME NEW f \in Frames, NEW owed \in Credits, NEW q \in Steps
  PROVE  LET g == [f EXCEPT !.owed = owed, !.prior = Blank, !.pc = q]
         IN g \in Frames /\ g.pc = q /\ g.owed = owed /\ g.prior = Blank /\ Kept(g, f, {"owed", "prior"})
<1> DEFINE e == [f EXCEPT !.owed = owed]
<1>1. e \in Frames /\ e.owed = owed /\ Kept(e, f, {"owed"})
  BY DEF Frames, Kept, Credits
<1> HIDE DEF e
<1>2. [f EXCEPT !.owed = owed, !.prior = Blank, !.pc = q] = [e EXCEPT !.prior = Blank, !.pc = q]
  BY DEF e
<1> DEFINE g == [e EXCEPT !.prior = Blank, !.pc = q]
<1>3. g \in Frames /\ g.pc = q /\ g.prior = Blank /\ Kept(g, e, {"prior"})
  BY <1>1, BlankIsState, SetPrior
<1> HIDE DEF g
<1>4. g.owed = owed /\ Kept(g, f, {"owed", "prior"})
  BY <1>1, <1>3 DEF Kept
<1> QED BY <1>2, <1>3, <1>4 DEF g

---------------------------------------------------------------------------
\* Types

\* The other sessions keep their frames.
LEMMA ContinueOne ==
  ASSUME NEW s \in DOMAIN sess, NEW f, Continue(s, f)
  PROVE  /\ DOMAIN sess' = DOMAIN sess
         /\ sess'[s] = f
         /\ \A t \in DOMAIN sess \ {s} : sess'[t] = sess[t]
  BY DEF Continue

LEMMA WriteRowOne ==
  ASSUME TypeOK, NEW s, NEW c \in Concepts, NEW row \in State, WriteRow(s, c, row)
  PROVE  /\ DOMAIN states' = DOMAIN states \cup {c}
         /\ states'[c] = row
         /\ \A x \in DOMAIN states \ {c} : states'[x] = states[x]
         /\ states' \in [DOMAIN states' -> State]
         /\ DOMAIN states' \subseteq Concepts
         /\ spoiled' \subseteq Concepts
  BY DEF WriteRow, Upsert, TypeOK

LEMMA CreditOfTyped ==
  ASSUME EdgeTable(edges), NEW r \in Requests
  PROVE  CreditOf(r) \in Credits /\ r.concept \notin DOMAIN CreditOf(r)
<1>1. r.concept \in Concepts /\ GradeToRating(r.score) \in Rating
  BY RequestsType, ScoreRating
<1>2. CASE EnableFire
  <2> DEFINE credit == Credit(edges, r.concept, GradeToRating(r.score))
  <2>1. DOMAIN credit \subseteq Concepts \ {r.concept} /\ \A x \in DOMAIN credit : credit[x] \in Rating
    BY <1>1, CreditTyped
  <2>2. credit = [x \in DOMAIN credit |-> credit[x]]
    BY DEF Credit
  <2>3. CreditOf(r) = credit
    BY <1>2 DEF CreditOf
  <2> HIDE DEF credit
  <2>4. credit \in [DOMAIN credit -> Rating]
    BY <2>1, <2>2
  <2> QED BY <2>1, <2>3, <2>4 DEF Credits
<1>3. CASE ~EnableFire
  <2> DEFINE none == [x \in {} |-> AGAIN]
  <2>1. none \in [{} -> Rating] /\ DOMAIN none = {}
    OBVIOUS
  <2>2. CreditOf(r) = none
    BY <1>3 DEF CreditOf
  <2> QED BY <2>1, <2>2 DEF Credits
<1> QED BY <1>2, <1>3

\* Session s goes from one statement to another, changing some variables.
Moved(s, from, to, changed) ==
  /\ s \in DOMAIN sess /\ sess[s].pc = from
  /\ DOMAIN sess' = DOMAIN sess
  /\ \A t \in DOMAIN sess \ {s} : sess'[t] = sess[t]
  /\ FrameOK(sess'[s])
  /\ sess'[s].pc = to
  /\ Kept(sess'[s], sess[s], changed)

LEMMA ReadPriorMoves ==
  ASSUME TypeOK, NEW s, ReadPrior(s)
  PROVE  Moved(s, "prior", "recent", {"prior"}) /\ sess'[s].prior = RowOr(states, sess[s].target, Blank)
<1>1. s \in DOMAIN sess /\ sess[s].pc = "prior" /\ FrameOK(sess[s]) /\ sess[s] \in Frames
  BY DEF ReadPrior, At, TypeOK, FrameOK
<1> DEFINE p == RowOr(states, sess[s].target, Blank)
           g == [sess[s] EXCEPT !.prior = p, !.pc = "recent"]
<1>2. p \in State /\ "recent" \in Steps
  BY BlankIsState, RowOrTyped DEF TypeOK, Steps
<1>3. g \in Frames /\ g.pc = "recent" /\ g.prior = p /\ Kept(g, sess[s], {"prior"})
  BY <1>1, <1>2, SetPrior
<1>4. Continue(s, g)
  BY DEF ReadPrior
<1> HIDE DEF g
<1>5. FrameOK(g)
  BY <1>1, <1>3 DEF FrameOK, Kept
<1> QED BY <1>1, <1>3, <1>4, <1>5, ContinueOne DEF Moved

LEMMA ReadRecentMoves ==
  ASSUME TypeOK, NEW s, ReadRecent(s)
  PROVE  Moved(s, "recent", "upsert", {"recent"}) /\ sess'[s].recent = log[sess[s].target]
<1>1. s \in DOMAIN sess /\ sess[s].pc = "recent" /\ FrameOK(sess[s]) /\ sess[s] \in Frames
  BY DEF ReadRecent, At, TypeOK, FrameOK
<1> DEFINE h == log[sess[s].target]
           g == [sess[s] EXCEPT !.recent = h, !.pc = "upsert"]
<1>2. h \in Seq(Score) /\ "upsert" \in Steps
  BY <1>1, FrameFields DEF TypeOK, Steps
<1>3. g \in Frames /\ g.pc = "upsert" /\ g.recent = h /\ Kept(g, sess[s], {"recent"})
  BY <1>1, <1>2, SetRecent
<1>4. Continue(s, g)
  BY DEF ReadRecent
<1> HIDE DEF g
<1>5. FrameOK(g)
  BY <1>1, <1>3 DEF FrameOK, Kept
<1> QED BY <1>1, <1>3, <1>4, <1>5, ContinueOne DEF Moved

LEMMA UpsertGradedMoves ==
  ASSUME TypeOK, NEW s, UpsertGraded(s)
  PROVE  /\ Moved(s, "upsert", "append", {"prior", "recent"})
         /\ sess'[s].prior = Blank /\ sess'[s].recent = <<>>
<1>1. s \in DOMAIN sess /\ sess[s].pc = "upsert" /\ FrameOK(sess[s]) /\ sess[s] \in Frames
  BY DEF UpsertGraded, At, TypeOK, FrameOK
<1> DEFINE g == [sess[s] EXCEPT !.prior = Blank, !.recent = <<>>, !.pc = "append"]
<1>2. "append" \in Steps
  BY DEF Steps
<1>3. g \in Frames /\ g.pc = "append" /\ g.prior = Blank /\ g.recent = <<>>
      /\ Kept(g, sess[s], {"prior", "recent"})
  BY <1>1, <1>2, ClearRead
<1>4. Continue(s, g)
  BY DEF UpsertGraded
<1> HIDE DEF g
<1>5. FrameOK(g)
  BY <1>1, <1>3 DEF FrameOK, Kept
<1> QED BY <1>1, <1>3, <1>4, <1>5, ContinueOne DEF Moved

LEMMA AppendLogMoves ==
  ASSUME TypeOK, NEW s, AppendLog(s)
  PROVE  Moved(s, "append", "cite", {})
<1>1. s \in DOMAIN sess /\ sess[s].pc = "append" /\ FrameOK(sess[s]) /\ sess[s] \in Frames
  BY DEF AppendLog, At, TypeOK, FrameOK
<1> DEFINE g == [sess[s] EXCEPT !.pc = "cite"]
<1>2. "cite" \in Steps
  BY DEF Steps
<1>3. g \in Frames /\ g.pc = "cite" /\ Kept(g, sess[s], {})
  BY <1>1, <1>2, SetPc
<1>4. Continue(s, g)
  BY DEF AppendLog
<1> HIDE DEF g
<1>5. FrameOK(g)
  BY <1>1, <1>3 DEF FrameOK, Kept
<1> QED BY <1>1, <1>3, <1>4, <1>5, ContinueOne DEF Moved

LEMMA RecordCitationMoves ==
  ASSUME TypeOK, NEW s, RecordCitation(s)
  PROVE  Moved(s, "cite", "cite", {"cited"}) /\ sess'[s].cited = Tail(sess[s].cited) /\ EdgeTable(edges')
<1>1. s \in DOMAIN sess /\ sess[s].pc = "cite" /\ FrameOK(sess[s]) /\ sess[s] \in Frames
  BY DEF RecordCitation, At, TypeOK, FrameOK
<1> DEFINE g == [sess[s] EXCEPT !.cited = Tail(@)]
<1>2. sess[s].cited \in Seq(Ids \X BOOLEAN) /\ sess[s].cited # <<>>
  BY <1>1, FrameFields DEF RecordCitation
<1>3. Tail(sess[s].cited) \in Seq(Ids \X BOOLEAN)
  BY <1>2
<1>4. g \in Frames /\ g.pc = "cite" /\ g.cited = Tail(sess[s].cited) /\ Kept(g, sess[s], {"cited"})
  BY <1>1, <1>3, SetCited
<1>5. Continue(s, g)
  BY DEF RecordCitation
<1> HIDE DEF g
<1>6. FrameOK(g)
  BY <1>1, <1>4 DEF FrameOK, Kept
<1>7. EdgeTable(edges')
  <2>1. edges' = RecordExposure(edges, sess[s].cited, 1) /\ sess[s].cited[1][1] \in EdgeKeys
    BY <1>2 DEF RecordCitation
  <2>2. \A i \in 1 .. 1 : sess[s].cited[i][1] \in EdgeKeys
    BY <2>1
  <2> QED BY <2>1, <2>2, ExposureKeepsGates DEF TypeOK
<1> QED BY <1>1, <1>4, <1>5, <1>6, <1>7, ContinueOne DEF Moved

LEMMA PropagateMoves ==
  ASSUME TypeOK, NEW s, Propagate(s)
  PROVE  Moved(s, "cite", "ripple", {"owed"}) /\ sess'[s].owed = CreditOf(sess[s].req)
<1>1. s \in DOMAIN sess /\ sess[s].pc = "cite" /\ FrameOK(sess[s]) /\ sess[s] \in Frames
  BY DEF Propagate, At, TypeOK, FrameOK
<1> DEFINE owed == CreditOf(sess[s].req)
           g == [sess[s] EXCEPT !.owed = owed, !.pc = "ripple"]
<1>2. owed \in Credits /\ sess[s].req.concept \notin DOMAIN owed /\ "ripple" \in Steps
  BY <1>1, FrameFields, CreditOfTyped DEF TypeOK, Steps
<1> HIDE DEF owed
<1>3. g \in Frames /\ g.pc = "ripple" /\ g.owed = owed /\ Kept(g, sess[s], {"owed"})
  BY <1>1, <1>2, SetOwed
<1>4. Continue(s, g)
  BY DEF Propagate, owed
<1> HIDE DEF g
<1>5. FrameOK(g)
  BY <1>1, <1>2, <1>3 DEF FrameOK, Kept
<1> QED BY <1>1, <1>3, <1>4, <1>5, ContinueOne DEF Moved, owed

LEMMA ReadCreditedMoves ==
  ASSUME TypeOK, NEW s, ReadCredited(s)
  PROVE  /\ Moved(s, "ripple", "credit", {"target", "prior"})
         /\ sess'[s].prior = RowOr(states, sess'[s].target, Blank)
<1>1. s \in DOMAIN sess /\ sess[s].pc = "ripple" /\ FrameOK(sess[s]) /\ sess[s] \in Frames
  BY DEF ReadCredited, At, TypeOK, FrameOK
<1>2. PICK x \in DOMAIN sess[s].owed :
         Continue(s, [sess[s] EXCEPT !.target = x, !.prior = RowOr(states, x, Blank), !.pc = "credit"])
  BY DEF ReadCredited
<1> DEFINE p == RowOr(states, x, Blank)
           g == [sess[s] EXCEPT !.target = x, !.prior = p, !.pc = "credit"]
<1>3. p \in State /\ x \in Concepts /\ "credit" \in Steps
  <2>1. sess[s].owed \in Credits
    BY <1>1, FrameFields
  <2> QED BY <2>1, BlankIsState, RowOrTyped DEF TypeOK, Steps, Credits
<1>4. g \in Frames /\ g.pc = "credit" /\ g.target = x /\ g.prior = p /\ Kept(g, sess[s], {"target", "prior"})
  BY <1>1, <1>3, SetTarget
<1>5. Continue(s, g)
  BY <1>2
<1> HIDE DEF g
<1>6. FrameOK(g)
  BY <1>1, <1>4 DEF FrameOK, Kept
<1> QED BY <1>1, <1>4, <1>5, <1>6, ContinueOne DEF Moved

LEMMA WriteCreditedMoves ==
  ASSUME TypeOK, NEW s, WriteCredited(s)
  PROVE  /\ Moved(s, "credit", "ripple", {"owed", "prior"})
         /\ sess'[s].prior = Blank /\ sess'[s].owed = Without(sess[s].owed, sess[s].target)
<1>1. s \in DOMAIN sess /\ sess[s].pc = "credit" /\ FrameOK(sess[s]) /\ sess[s] \in Frames
  BY DEF WriteCredited, At, TypeOK, FrameOK
<1> DEFINE owed == Without(sess[s].owed, sess[s].target)
           g == [sess[s] EXCEPT !.owed = owed, !.prior = Blank, !.pc = "ripple"]
<1>2. owed \in Credits /\ DOMAIN owed \subseteq DOMAIN sess[s].owed /\ "ripple" \in Steps
  <2>1. PICK X \in SUBSET Concepts : sess[s].owed \in [X -> Rating]
    BY <1>1, FrameFields DEF Credits
  <2>2. owed \in [X \ {sess[s].target} -> Rating]
    BY <2>1 DEF Without
  <2> QED BY <2>1, <2>2 DEF Credits, Steps
<1> HIDE DEF owed
<1>3. g \in Frames /\ g.pc = "ripple" /\ g.owed = owed /\ g.prior = Blank /\ Kept(g, sess[s], {"owed", "prior"})
  BY <1>1, <1>2, PayOwed
<1>4. Continue(s, g)
  BY DEF WriteCredited, owed
<1> HIDE DEF g
<1>5. FrameOK(g)
  BY <1>1, <1>2, <1>3 DEF FrameOK, Kept
<1> QED BY <1>1, <1>3, <1>4, <1>5, ContinueOne DEF Moved, owed

\* The row a write puts down is a review of what the session read.
LEMMA WrittenRows ==
  ASSUME TypeOK, NEW s \in DOMAIN sess, FrameOK(sess[s])
  PROVE  /\ GradedRow(sess[s].prior, sess[s].req.score, sess[s].recent) \in State
         /\ sess[s].pc = "credit" => /\ sess[s].owed[sess[s].target] \in Rating
                                     /\ Review(sess[s].prior, sess[s].owed[sess[s].target]) \in State
<1>1. /\ sess[s].prior \in State /\ sess[s].req.score \in Score /\ sess[s].recent \in Seq(Score)
      /\ sess[s].owed \in Credits
  BY FrameFields DEF FrameOK
<1>2. GradedRow(sess[s].prior, sess[s].req.score, sess[s].recent) \in State
  BY <1>1, GradedRowFields
<1>3. ASSUME sess[s].pc = "credit"
      PROVE  sess[s].owed[sess[s].target] \in Rating
  BY <1>1, <1>3 DEF FrameOK, Credits
<1> QED BY <1>1, <1>2, <1>3, ReviewRow

\* A grade begins, and a grade ends or is cut short.
Began(s, r) ==
  /\ s \notin DOMAIN sess
  /\ DOMAIN sess' = DOMAIN sess \cup {s}
  /\ sess'[s] = Frame(r)
  /\ \A t \in DOMAIN sess : sess'[t] = sess[t]
  /\ UNCHANGED <<states, log, edges, accepted, spoiled>>

Ended(s) ==
  /\ s \in DOMAIN sess
  /\ DOMAIN sess' = DOMAIN sess \ {s}
  /\ \A t \in DOMAIN sess \ {s} : sess'[t] = sess[t]
  /\ UNCHANGED <<states, log, edges, started, spoiled>>

LEMMA StartBegins ==
  ASSUME NEW s, NEW r, Start(s, r)
  PROVE  Began(s, r)
  BY DEF Start, Began, Upsert

LEMMA SessionEnds ==
  ASSUME NEW s, RaiseOnCitation(s) \/ Return(s) \/ Crash(s)
  PROVE  Ended(s)
  BY DEF RaiseOnCitation, Return, Crash, Ended, Without, At

LEMMA InitType == Init => TypeOK
<1> SUFFICES ASSUME Init PROVE TypeOK
  OBVIOUS
<1>1. DOMAIN states = {} /\ DOMAIN sess = {} /\ states \in [DOMAIN states -> State]
  BY DEF Init
<1>2. log \in [Concepts -> Seq(Score)] /\ accepted \in [Concepts -> Nat]
  BY DEF Init
<1> QED BY <1>1, <1>2, InitEdgesIsTable, MaxRequestsType DEF Init, TypeOK

LEMMA NextType == TypeOK /\ [Next]_vars => TypeOK'
<1> SUFFICES ASSUME TypeOK, [Next]_vars PROVE TypeOK'
  OBVIOUS
<1>1. ASSUME NEW s \in Sessions, NEW r \in Requests, Start(s, r)
      PROVE  TypeOK'
  <2>1. started' \in 0 .. MaxRequests
    BY <1>1, MaxRequestsType DEF Start, TypeOK
  <2>2. Began(s, r) /\ FrameOK(Frame(r))
    BY <1>1, StartBegins, StartFrame
  <2>3. DOMAIN sess' \subseteq Sessions /\ \A t \in DOMAIN sess' : FrameOK(sess'[t])
    BY <2>2 DEF Began, TypeOK
  <2> QED BY <2>1, <2>2, <2>3 DEF Began, TypeOK
<1>2. ASSUME NEW s \in Sessions, ReadPrior(s)
      PROVE  TypeOK'
  BY <1>2, ReadPriorMoves DEF ReadPrior, Moved, TypeOK
<1>3. ASSUME NEW s \in Sessions, ReadRecent(s)
      PROVE  TypeOK'
  BY <1>3, ReadRecentMoves DEF ReadRecent, Moved, TypeOK
<1>4. ASSUME NEW s \in Sessions, UpsertGraded(s)
      PROVE  TypeOK'
  <2> DEFINE row == GradedRow(sess[s].prior, sess[s].req.score, sess[s].recent)
  <2>1. Moved(s, "upsert", "append", {"prior", "recent"})
    BY <1>4, UpsertGradedMoves
  <2>2. FrameOK(sess[s]) /\ sess[s].target \in Concepts
    BY <2>1, FrameFields DEF Moved, TypeOK, FrameOK
  <2>3. row \in State /\ WriteRow(s, sess[s].target, row)
    BY <1>4, <2>1, <2>2, WrittenRows DEF UpsertGraded, Moved
  <2> HIDE DEF row
  <2>4. states' \in [DOMAIN states' -> State] /\ DOMAIN states' \subseteq Concepts /\ spoiled' \subseteq Concepts
    BY <2>2, <2>3, WriteRowOne
  <2>5. UNCHANGED <<log, edges, started, accepted>>
    BY <1>4 DEF UpsertGraded
  <2> QED BY <2>1, <2>4, <2>5 DEF Moved, TypeOK
<1>5. ASSUME NEW s \in Sessions, AppendLog(s)
      PROVE  TypeOK'
  <2>1. Moved(s, "append", "cite", {})
    BY <1>5, AppendLogMoves
  <2>2. sess[s].req.score \in Score /\ sess[s].target \in Concepts
    BY <2>1, FrameFields DEF Moved, TypeOK, FrameOK
  <2>3. log' \in [Concepts -> Seq(Score)]
    <3>1. Append(log[sess[s].target], sess[s].req.score) \in Seq(Score)
      BY <2>2 DEF TypeOK
    <3> QED BY <1>5, <3>1 DEF AppendLog, TypeOK
  <2> QED BY <1>5, <2>1, <2>3 DEF AppendLog, Moved, TypeOK
<1>6. ASSUME NEW s \in Sessions, RecordCitation(s)
      PROVE  TypeOK'
  BY <1>6, RecordCitationMoves DEF RecordCitation, Moved, TypeOK
<1>7. ASSUME NEW s \in Sessions, Propagate(s)
      PROVE  TypeOK'
  BY <1>7, PropagateMoves DEF Propagate, Moved, TypeOK
<1>8. ASSUME NEW s \in Sessions, ReadCredited(s)
      PROVE  TypeOK'
  BY <1>8, ReadCreditedMoves DEF ReadCredited, Moved, TypeOK
<1>9. ASSUME NEW s \in Sessions, WriteCredited(s)
      PROVE  TypeOK'
  <2> DEFINE row == Review(sess[s].prior, sess[s].owed[sess[s].target])
  <2>1. Moved(s, "credit", "ripple", {"owed", "prior"})
    BY <1>9, WriteCreditedMoves
  <2>2. FrameOK(sess[s]) /\ sess[s].target \in Concepts
    BY <2>1, FrameFields DEF Moved, TypeOK, FrameOK
  <2>3. row \in State /\ WriteRow(s, sess[s].target, row)
    BY <1>9, <2>1, <2>2, WrittenRows DEF WriteCredited, Moved
  <2> HIDE DEF row
  <2>4. states' \in [DOMAIN states' -> State] /\ DOMAIN states' \subseteq Concepts /\ spoiled' \subseteq Concepts
    BY <2>2, <2>3, WriteRowOne
  <2>5. UNCHANGED <<log, edges, started, accepted>>
    BY <1>9 DEF WriteCredited
  <2> QED BY <2>1, <2>4, <2>5 DEF Moved, TypeOK
<1>10. ASSUME NEW s \in Sessions, Ended(s), UNCHANGED accepted
       PROVE  TypeOK'
  BY <1>10 DEF Ended, TypeOK
<1>11. ASSUME NEW s \in Sessions, Return(s)
       PROVE  TypeOK'
  <2>1. accepted' \in [Concepts -> Nat]
    <3>1. sess[s].req.concept \in Concepts
      BY <1>11, FrameFields DEF Return, At, TypeOK, FrameOK
    <3>2. accepted[sess[s].req.concept] + 1 \in Nat
      BY <3>1 DEF TypeOK
    <3> QED BY <1>11, <3>2 DEF Return, TypeOK
  <2> QED BY <1>11, <2>1, SessionEnds DEF Ended, TypeOK
<1>12. CASE UNCHANGED vars
  BY <1>12 DEF vars, TypeOK
<1>13. ASSUME NEW s \in Sessions, RaiseOnCitation(s) \/ Crash(s)
       PROVE  TypeOK'
  BY <1>10, <1>13, SessionEnds DEF RaiseOnCitation, Crash
<1> QED BY <1>1, <1>2, <1>3, <1>4, <1>5, <1>6, <1>7, <1>8, <1>9, <1>11, <1>12, <1>13 DEF Next, Step

\* The tables and the local variables of every session stay of their types.
THEOREM TypeCorrect == Spec => []TypeOK
  BY InitType, NextType, PTL DEF Spec

---------------------------------------------------------------------------
\* Evidence: what a row and what a session has read rest on the log

Strong(history) == \E i \in DOMAIN history : history[i] >= 5

LEMMA StrongGrows ==
  ASSUME NEW history \in Seq(Score), NEW score \in Score, Strong(history)
  PROVE  Strong(Append(history, score))
  BY DEF Strong

\* The second rung of evidence: "exam_ready" needs a strong grade before this one.
LEMMA ExamReadyNeedsStrong ==
  ASSUME NEW score \in Score, NEW history \in Seq(Score),
         NextMastery(score, Append(history, score)) = "exam_ready"
  PROVE  Strong(history)
<1> DEFINE new == Append(history, score)
           n == Len(new)
<1>1. new \in Seq(Score) /\ n = Len(history) + 1 /\ Len(history) \in Nat
      /\ \A i \in 1 .. Len(history) : new[i] = history[i]
  OBVIOUS
<1>2. n >= 2 /\ new[n - 1] >= 5
  BY <1>1 DEF NextMastery, TwoStrong
<1>3. n - 1 \in 1 .. Len(history) /\ history[n - 1] >= 5
  BY <1>1, <1>2
<1> QED BY <1>3 DEF Strong

\* What a session in progress rests on, given the concepts that have a row and
\* the log: it appends only to a concept with a row, and the mastery and the
\* grades it has read are on record.
Backed(f, rows, history) ==
  /\ f.pc = "append" => f.target \in rows
  /\ f.pc # "upsert" => f.recent = <<>>
  /\ f.prior.mastery = "exam_ready" => Strong(history[f.target])
  /\ Strong(f.recent) => Strong(history[f.target])

Evidence ==
  /\ LoggedConceptHasRow
  /\ \A c \in DOMAIN states : states[c].mastery = "exam_ready" => Strong(log[c])
  /\ \A s \in DOMAIN sess : Backed(sess[s], DOMAIN states, log)

LEMMA NothingStrong == ~Strong(<<>>) /\ Blank.mastery # "exam_ready"
  BY DEF Strong, Blank

\* Rows and log entries are never removed, so what was backed stays so.
LEMMA BackedStays ==
  ASSUME NEW f, NEW rows, NEW more, rows \subseteq more, NEW history, NEW longer,
         Strong(history[f.target]) => Strong(longer[f.target]),
         Backed(f, rows, history)
  PROVE  Backed(f, more, longer)
  BY DEF Backed

LEMMA InitEvidence == Init => Evidence
  BY DEF Init, Evidence, LoggedConceptHasRow

LEMMA NextEvidence == TypeOK /\ Evidence /\ [Next]_vars => Evidence'
<1> SUFFICES ASSUME TypeOK, Evidence, [Next]_vars PROVE Evidence'
  OBVIOUS
<1>1. \A s \in DOMAIN sess : FrameOK(sess[s]) /\ sess[s] \in Frames /\ Backed(sess[s], DOMAIN states, log)
  BY DEF TypeOK, FrameOK, Evidence
<1>2. \A c \in DOMAIN states : RowOr(states, c, Blank) = states[c]
  BY DEF RowOr
\* A statement that writes neither learner_state nor review_log.
<1>3. ASSUME UNCHANGED <<states, log>>,
             \A s \in DOMAIN sess' : Backed(sess'[s], DOMAIN states, log)
      PROVE  Evidence'
  BY <1>3 DEF Evidence, LoggedConceptHasRow
<1>4. ASSUME NEW s, NEW from, NEW to, NEW changed, Moved(s, from, to, changed), UNCHANGED <<states, log>>,
             Backed(sess'[s], DOMAIN states, log)
      PROVE  Evidence'
  <2>1. \A t \in DOMAIN sess' : Backed(sess'[t], DOMAIN states, log)
    BY <1>1, <1>4 DEF Moved
  <2> QED BY <1>3, <1>4, <2>1
<1>5. \A c : RowOr(states, c, Blank).mastery = "exam_ready" => Strong(log[c])
  BY NothingStrong DEF RowOr, Evidence
<1>6. ASSUME NEW s \in Sessions, NEW r \in Requests, Start(s, r)
      PROVE  Evidence'
  <2>1. Began(s, r) /\ UNCHANGED <<states, log>>
    BY <1>6, StartBegins DEF Began
  <2>2. Backed(Frame(r), DOMAIN states, log)
    BY <1>6, StartFrame, NothingStrong DEF Backed
  <2>3. \A t \in DOMAIN sess' : Backed(sess'[t], DOMAIN states, log)
    BY <1>1, <2>1, <2>2 DEF Began
  <2> QED BY <1>3, <2>1, <2>3
<1>7. ASSUME NEW s \in Sessions, ReadPrior(s)
      PROVE  Evidence'
  <2>1. Moved(s, "prior", "recent", {"prior"}) /\ sess'[s].prior = RowOr(states, sess[s].target, Blank)
    BY <1>7, ReadPriorMoves
  <2>2. Backed(sess'[s], DOMAIN states, log)
    BY <1>1, <1>5, <2>1, NothingStrong DEF Backed, Moved, Kept
  <2> QED BY <1>4, <1>7, <2>1, <2>2 DEF ReadPrior
<1>8. ASSUME NEW s \in Sessions, ReadRecent(s)
      PROVE  Evidence'
  <2>1. Moved(s, "recent", "upsert", {"recent"}) /\ sess'[s].recent = log[sess[s].target]
    BY <1>8, ReadRecentMoves
  <2>2. Backed(sess'[s], DOMAIN states, log)
    BY <1>1, <2>1 DEF Backed, Moved, Kept
  <2> QED BY <1>4, <1>8, <2>1, <2>2 DEF ReadRecent
<1>9. ASSUME NEW s \in Sessions, UpsertGraded(s)
      PROVE  Evidence'
  <2> DEFINE c == sess[s].target
             row == GradedRow(sess[s].prior, sess[s].req.score, sess[s].recent)
  <2>1. Moved(s, "upsert", "append", {"prior", "recent"}) /\ sess'[s].prior = Blank /\ sess'[s].recent = <<>>
    BY <1>9, UpsertGradedMoves
  <2>2. /\ c \in Concepts /\ sess[s].prior \in State
        /\ sess[s].req.score \in Score /\ sess[s].recent \in Seq(Score)
    BY <1>1, <2>1, FrameFields DEF Moved
  <2>3. row \in State /\ WriteRow(s, c, row)
    BY <1>1, <1>9, <2>1, WrittenRows DEF UpsertGraded, Moved
  <2>4. row.mastery = "exam_ready" => Strong(log[c])
    <3>1. row.mastery = NextMastery(sess[s].req.score, Append(sess[s].recent, sess[s].req.score))
      BY <2>2, GradedRowFields
    <3>2. row.mastery = "exam_ready" => Strong(sess[s].recent)
      BY <2>2, <3>1, ExamReadyNeedsStrong
    <3> QED BY <1>1, <2>1, <3>2 DEF Backed, Moved
  <2> HIDE DEF row
  <2>5. /\ DOMAIN states' = DOMAIN states \cup {c} /\ states'[c] = row
        /\ \A x \in DOMAIN states \ {c} : states'[x] = states[x]
    BY <2>2, <2>3, WriteRowOne
  <2>6. UNCHANGED log
    BY <1>9 DEF UpsertGraded
  <2>7. \A x \in DOMAIN states' : states'[x].mastery = "exam_ready" => Strong(log'[x])
    BY <2>4, <2>5, <2>6 DEF Evidence
  <2>8. Backed(sess'[s], DOMAIN states', log')
    BY <2>1, <2>5, NothingStrong DEF Backed, Moved, Kept
  <2>9. \A t \in DOMAIN sess' : Backed(sess'[t], DOMAIN states', log')
    BY <1>1, <2>1, <2>5, <2>6, <2>8, BackedStays DEF Moved
  <2>10. LoggedConceptHasRow'
    BY <2>5, <2>6 DEF Evidence, LoggedConceptHasRow
  <2> QED BY <2>7, <2>9, <2>10 DEF Evidence
<1>10. ASSUME NEW s \in Sessions, AppendLog(s)
       PROVE  Evidence'
  <2> DEFINE c == sess[s].target
             score == sess[s].req.score
  <2>1. Moved(s, "append", "cite", {})
    BY <1>10, AppendLogMoves
  <2>2. c \in Concepts /\ score \in Score /\ log[c] \in Seq(Score)
    BY <1>1, <2>1, FrameFields DEF Moved, TypeOK
  <2>3. /\ UNCHANGED states /\ log'[c] = Append(log[c], score)
        /\ \A x \in Concepts \ {c} : log'[x] = log[x]
    BY <1>10, <2>2 DEF AppendLog, TypeOK
  <2>4. \A x \in Concepts : Strong(log[x]) => Strong(log'[x])
    BY <2>2, <2>3, StrongGrows
  <2>5. c \in DOMAIN states
    BY <1>1, <2>1 DEF Backed, Moved
  <2>6. LoggedConceptHasRow'
    BY <2>3, <2>5 DEF Evidence, LoggedConceptHasRow
  <2>7. \A x \in DOMAIN states' : states'[x].mastery = "exam_ready" => Strong(log'[x])
    BY <2>3, <2>4 DEF Evidence, TypeOK
  <2>8. \A t \in DOMAIN sess : sess[t].target \in Concepts
    BY <1>1, FrameFields
  <2>9. \A t \in DOMAIN sess : Backed(sess[t], DOMAIN states', log')
    BY <1>1, <2>3, <2>4, <2>8, BackedStays
  <2>10. Backed(sess'[s], DOMAIN states', log')
    BY <2>1, <2>9 DEF Backed, Moved, Kept
  <2>11. \A t \in DOMAIN sess' : Backed(sess'[t], DOMAIN states', log')
    BY <2>1, <2>9, <2>10 DEF Moved
  <2> QED BY <2>6, <2>7, <2>11 DEF Evidence
<1>11. ASSUME NEW s \in Sessions, RecordCitation(s)
       PROVE  Evidence'
  <2>1. Moved(s, "cite", "cite", {"cited"})
    BY <1>11, RecordCitationMoves
  <2>2. Backed(sess'[s], DOMAIN states, log)
    BY <1>1, <2>1 DEF Backed, Moved, Kept
  <2> QED BY <1>4, <1>11, <2>1, <2>2 DEF RecordCitation
<1>12. ASSUME NEW s \in Sessions, Propagate(s)
       PROVE  Evidence'
  <2>1. Moved(s, "cite", "ripple", {"owed"})
    BY <1>12, PropagateMoves
  <2>2. Backed(sess'[s], DOMAIN states, log)
    BY <1>1, <2>1 DEF Backed, Moved, Kept
  <2> QED BY <1>4, <1>12, <2>1, <2>2 DEF Propagate
<1>13. ASSUME NEW s \in Sessions, ReadCredited(s)
       PROVE  Evidence'
  <2>1. /\ Moved(s, "ripple", "credit", {"target", "prior"})
        /\ sess'[s].prior = RowOr(states, sess'[s].target, Blank)
    BY <1>13, ReadCreditedMoves
  <2>2. Backed(sess'[s], DOMAIN states, log)
    BY <1>1, <1>5, <2>1, NothingStrong DEF Backed, Moved, Kept
  <2> QED BY <1>4, <1>13, <2>1, <2>2 DEF ReadCredited
<1>14. ASSUME NEW s \in Sessions, WriteCredited(s)
       PROVE  Evidence'
  <2> DEFINE c == sess[s].target
             row == Review(sess[s].prior, sess[s].owed[sess[s].target])
  <2>1. Moved(s, "credit", "ripple", {"owed", "prior"}) /\ sess'[s].prior = Blank
    BY <1>14, WriteCreditedMoves
  <2>2. c \in Concepts /\ sess[s].prior \in State
    BY <1>1, <2>1, FrameFields DEF Moved
  <2>3. row \in State /\ WriteRow(s, c, row) /\ sess[s].owed[c] \in Rating
    BY <1>1, <1>14, <2>1, WrittenRows DEF WriteCredited, Moved
  <2>4. row.mastery = "exam_ready" => Strong(log[c])
    <3>1. row.mastery = sess[s].prior.mastery
      BY <2>2, <2>3, ReviewRow
    <3> QED BY <1>1, <2>1, <3>1 DEF Backed, Moved
  <2> HIDE DEF row
  <2>5. /\ DOMAIN states' = DOMAIN states \cup {c} /\ states'[c] = row
        /\ \A x \in DOMAIN states \ {c} : states'[x] = states[x]
    BY <2>2, <2>3, WriteRowOne
  <2>6. UNCHANGED log
    BY <1>14 DEF WriteCredited
  <2>7. \A x \in DOMAIN states' : states'[x].mastery = "exam_ready" => Strong(log'[x])
    BY <2>4, <2>5, <2>6 DEF Evidence
  <2>8. Backed(sess'[s], DOMAIN states', log')
    BY <1>1, <2>1, <2>6, NothingStrong DEF Backed, Moved, Kept
  <2>9. \A t \in DOMAIN sess' : Backed(sess'[t], DOMAIN states', log')
    BY <1>1, <2>1, <2>5, <2>6, <2>8, BackedStays DEF Moved
  <2>10. LoggedConceptHasRow'
    BY <2>5, <2>6 DEF Evidence, LoggedConceptHasRow
  <2> QED BY <2>7, <2>9, <2>10 DEF Evidence
<1>15. ASSUME NEW s \in Sessions, Ended(s)
       PROVE  Evidence'
  <2>1. \A t \in DOMAIN sess' : Backed(sess'[t], DOMAIN states, log)
    BY <1>1, <1>15 DEF Ended
  <2> QED BY <1>3, <1>15, <2>1 DEF Ended
<1>16. CASE UNCHANGED vars
  BY <1>1, <1>3, <1>16 DEF vars
<1> QED BY <1>6, <1>7, <1>8, <1>9, <1>10, <1>11, <1>12, <1>13, <1>14, <1>15, <1>16, SessionEnds DEF Next, Step

LEMMA EvidenceAlways == Spec => []Evidence
  BY InitType, NextType, InitEvidence, NextEvidence, PTL DEF Spec

\* review_log never runs ahead of learner_state, crashes and refusals included.
THEOREM LoggedConceptAlwaysHasRow == Spec => []LoggedConceptHasRow
<1>1. Evidence => LoggedConceptHasRow
  BY DEF Evidence
<1> QED BY <1>1, EvidenceAlways, PTL

\* "exam_ready" always rests on an earlier strong grade on record.
THEOREM ExamReadyAlwaysHasLoggedEvidence == Spec => []ExamReadyHasLoggedEvidence
<1>1. Evidence => ExamReadyHasLoggedEvidence
  BY DEF Evidence, ExamReadyHasLoggedEvidence, Strong
<1> QED BY <1>1, EvidenceAlways, PTL

---------------------------------------------------------------------------
\* Counters: a row that was not overwritten counts its log

\* The sessions that have counted a grade of c and not logged it yet.
Late(c) == {s \in DOMAIN sess : sess[s].pc = "append" /\ sess[s].target = c}

\* The number of reps the row of c shows.
Reps(c) == RowOr(states, c, Blank).reps

\* The reps of c cover its log and the grades about to be logged, and whoever
\* has read the row to write it back has read these reps.
Covered(c) ==
  /\ Len(log[c]) + Cardinality(Late(c)) <= Reps(c)
  /\ \A s \in DOMAIN sess : Holds(s, c) => sess[s].prior.reps = Reps(c)

UnspoiledCovered == \A c \in Concepts \ spoiled : Covered(c)

LEMMA CountersTyped ==
  ASSUME TypeOK, NEW c \in Concepts
  PROVE  /\ IsFiniteSet(Late(c)) /\ Cardinality(Late(c)) \in Nat
         /\ Len(log[c]) \in Nat /\ log[c] \in Seq(Score)
         /\ Reps(c) \in Nat
<1>1. Late(c) \subseteq Sessions
  BY DEF Late, TypeOK
<1>2. IsFiniteSet(Late(c)) /\ Cardinality(Late(c)) \in Nat
  BY <1>1, SessionsFinite, FS_Subset, FS_CardinalityType
<1>3. RowOr(states, c, Blank) \in State
  BY BlankIsState, RowOrTyped DEF TypeOK
<1> QED BY <1>2, <1>3 DEF Reps, State, TypeOK

LEMMA InitCovered == Init => UnspoiledCovered
<1> SUFFICES ASSUME Init, NEW c \in Concepts PROVE Covered(c)
  BY DEF UnspoiledCovered
<1>1. Late(c) = {} /\ DOMAIN sess = {} /\ log[c] = <<>> /\ RowOr(states, c, Blank) = Blank
  BY DEF Init, Late, RowOr
<1>2. Cardinality(Late(c)) = 0 /\ Len(log[c]) = 0 /\ Reps(c) = 0
  BY <1>1, FS_EmptySet DEF Reps, Blank
<1> QED BY <1>1, <1>2 DEF Covered

\* A write of the row of one concept by a session that holds it, unnoticed by
\* the others: one rep more, and nobody else has read what it replaces.
LEMMA WriteCovers ==
  ASSUME TypeOK, UnspoiledCovered, NEW s \in DOMAIN sess, NEW c \in Concepts, NEW row \in State,
         Holds(s, c), WriteRow(s, c, row), row.reps = sess[s].prior.reps + 1
  PROVE  /\ spoiled \subseteq spoiled'
         /\ c \notin spoiled' => /\ Reps(c)' = Reps(c) + 1
                                 /\ \A t \in DOMAIN sess \ {s} : ~Holds(t, c)
         /\ \A x \in Concepts \ {c} : Reps(x)' = Reps(x)
<1>1. /\ DOMAIN states' = DOMAIN states \cup {c} /\ states'[c] = row
      /\ \A x \in DOMAIN states \ {c} : states'[x] = states[x]
  BY WriteRowOne
<1>2. spoiled \subseteq spoiled' /\ (c \notin spoiled' => \A t \in DOMAIN sess \ {s} : ~Holds(t, c))
  BY DEF WriteRow
<1>3. \A x \in Concepts \ {c} : Reps(x)' = Reps(x)
  BY <1>1 DEF Reps, RowOr
<1>4. Reps(c)' = row.reps
  BY <1>1 DEF Reps, RowOr
<1>5. c \notin spoiled' => sess[s].prior.reps = Reps(c)
  BY <1>2 DEF UnspoiledCovered, Covered
<1> QED BY <1>2, <1>3, <1>4, <1>5

LEMMA NextCovered == TypeOK /\ UnspoiledCovered /\ [Next]_vars => UnspoiledCovered'
<1> SUFFICES ASSUME TypeOK, UnspoiledCovered, [Next]_vars, NEW c \in Concepts, c \notin spoiled'
             PROVE  Covered(c)'
  BY DEF UnspoiledCovered
<1>1. \A s \in DOMAIN sess : FrameOK(sess[s]) /\ sess[s] \in Frames /\ sess[s].target \in Concepts
  BY FrameFields DEF TypeOK, FrameOK
<1>2. /\ IsFiniteSet(Late(c)) /\ Cardinality(Late(c)) \in Nat
      /\ Len(log[c]) \in Nat /\ log[c] \in Seq(Score) /\ Reps(c) \in Nat
  BY CountersTyped
<1>3. c \notin spoiled => Covered(c)
  BY DEF UnspoiledCovered
\* A statement that neither writes a table nor begins or ends at "append".
<1>4. ASSUME NEW s, NEW from, NEW to, NEW changed, Moved(s, from, to, changed),
             from # "append", to # "append", UNCHANGED <<states, log, spoiled>>,
             Holds(s, c)' => sess'[s].prior.reps = Reps(c)
      PROVE  Covered(c)'
  <2>1. Late(c)' = Late(c)
    BY <1>4 DEF Late, Moved
  <2>2. \A t \in DOMAIN sess \ {s} : Holds(t, c)' <=> Holds(t, c)
    BY <1>4 DEF Holds, Moved
  <2>3. Reps(c)' = Reps(c)
    BY <1>4 DEF Reps
  <2> QED BY <1>3, <1>4, <2>1, <2>2, <2>3 DEF Covered, Moved
<1>5. ASSUME NEW s \in Sessions, NEW r \in Requests, Start(s, r)
      PROVE  Covered(c)'
  <2>1. Began(s, r) /\ Frame(r).pc = "prior"
    BY <1>5, StartBegins, StartFrame
  <2>2. Late(c)' = Late(c)
    BY <2>1 DEF Late, Began
  <2>3. \A t \in DOMAIN sess' : Holds(t, c)' => t \in DOMAIN sess /\ Holds(t, c) /\ sess'[t] = sess[t]
    BY <2>1 DEF Holds, Began
  <2>4. Reps(c)' = Reps(c) /\ c \notin spoiled /\ log' = log
    BY <2>1 DEF Reps, Began
  <2> QED BY <1>3, <2>2, <2>3, <2>4 DEF Covered
<1>6. ASSUME NEW s \in Sessions, ReadPrior(s)
      PROVE  Covered(c)'
  <2>1. Moved(s, "prior", "recent", {"prior"}) /\ sess'[s].prior = RowOr(states, sess[s].target, Blank)
    BY <1>6, ReadPriorMoves
  <2>2. Holds(s, c)' => sess'[s].prior.reps = Reps(c)
    BY <2>1 DEF Holds, Moved, Kept, Reps
  <2> QED BY <1>4, <1>6, <2>1, <2>2 DEF ReadPrior
<1>7. ASSUME NEW s \in Sessions, ReadRecent(s)
      PROVE  Covered(c)'
  <2>1. Moved(s, "recent", "upsert", {"recent"})
    BY <1>7, ReadRecentMoves
  <2>2. Holds(s, c)' => sess'[s].prior.reps = Reps(c)
    BY <1>3, <1>7, <2>1 DEF Holds, Moved, Kept, Covered, ReadRecent
  <2> QED BY <1>4, <1>7, <2>1, <2>2 DEF ReadRecent
<1>8. ASSUME NEW s \in Sessions, UpsertGraded(s)
      PROVE  Covered(c)'
  <2> DEFINE row == GradedRow(sess[s].prior, sess[s].req.score, sess[s].recent)
  <2>1. Moved(s, "upsert", "append", {"prior", "recent"})
    BY <1>8, UpsertGradedMoves
  <2>0. PICK x \in Concepts : x = sess[s].target
    BY <1>1, <2>1 DEF Moved
  <2>2. /\ s \in DOMAIN sess /\ Holds(s, x) /\ sess[s].prior \in State
        /\ sess[s].req.score \in Score /\ sess[s].recent \in Seq(Score)
    BY <1>1, <2>0, <2>1, FrameFields DEF Moved, Holds
  <2>3. row \in State /\ row.reps = sess[s].prior.reps + 1 /\ WriteRow(s, x, row)
    BY <1>8, <2>0, <2>2, GradedRowFields DEF UpsertGraded
  <2> HIDE DEF row
  <2>4. /\ spoiled \subseteq spoiled'
        /\ x \notin spoiled' => Reps(x)' = Reps(x) + 1 /\ \A t \in DOMAIN sess \ {s} : ~Holds(t, x)
        /\ \A y \in Concepts \ {x} : Reps(y)' = Reps(y)
    BY <2>2, <2>3, WriteCovers
  <2>5. log' = log /\ sess'[s].pc = "append" /\ sess'[s].target = x /\ sess[s].pc = "upsert"
    BY <1>8, <2>0, <2>1 DEF UpsertGraded, Moved, Kept
  <2>6. ~Holds(s, c)' /\ \A t \in DOMAIN sess \ {s} : (Holds(t, c)' <=> Holds(t, c)) /\ sess'[t] = sess[t]
    BY <2>1, <2>5 DEF Holds, Moved
  <2>7. CASE c = x
    <3>1. Late(c)' = Late(c) \cup {s} /\ s \notin Late(c)
      BY <2>1, <2>5, <2>7 DEF Late, Moved
    <3>2. Cardinality(Late(c)') = Cardinality(Late(c)) + 1
      BY <1>2, <3>1, FS_AddElement
    <3> QED BY <1>2, <1>3, <2>1, <2>4, <2>5, <2>6, <2>7, <3>2 DEF Covered, Moved
  <2>8. CASE c # x
    <3>1. Late(c)' = Late(c)
      BY <2>1, <2>5, <2>8 DEF Late, Moved
    <3> QED BY <1>3, <2>1, <2>4, <2>5, <2>6, <2>8, <3>1 DEF Covered, Moved
  <2> QED BY <2>7, <2>8
<1>9. ASSUME NEW s \in Sessions, AppendLog(s)
      PROVE  Covered(c)'
  <2> DEFINE x == sess[s].target
             score == sess[s].req.score
  <2>1. Moved(s, "append", "cite", {})
    BY <1>9, AppendLogMoves
  <2>2. s \in DOMAIN sess /\ x \in Concepts /\ score \in Score /\ sess[s].pc = "append"
    BY <1>1, <2>1, FrameFields DEF Moved
  <2>3. UNCHANGED <<states, spoiled>> /\ log' = [log EXCEPT ![x] = Append(@, score)]
    BY <1>9 DEF AppendLog
  <2>4. \A t \in DOMAIN sess' : Holds(t, c)' => t \in DOMAIN sess /\ Holds(t, c) /\ sess'[t] = sess[t]
    BY <2>1 DEF Holds, Moved
  <2>5. Reps(c)' = Reps(c)
    BY <2>3 DEF Reps
  <2>6. CASE c = x
    <3>1. Late(c)' = Late(c) \ {s} /\ s \in Late(c)
      BY <2>1, <2>2, <2>6 DEF Late, Moved
    <3>2. Cardinality(Late(c)') = Cardinality(Late(c)) - 1
      BY <1>2, <3>1, FS_RemoveElement
    <3>3. Len(log'[c]) = Len(log[c]) + 1
      BY <1>2, <2>2, <2>3, <2>6 DEF TypeOK
    <3> QED BY <1>2, <1>3, <2>3, <2>4, <2>5, <3>2, <3>3 DEF Covered
  <2>7. CASE c # x
    <3>1. Late(c)' = Late(c)
      BY <2>1, <2>2, <2>7 DEF Late, Moved
    <3>2. log'[c] = log[c]
      BY <2>3, <2>7 DEF TypeOK
    <3> QED BY <1>3, <2>3, <2>4, <2>5, <3>1, <3>2 DEF Covered
  <2> QED BY <2>6, <2>7
<1>10. ASSUME NEW s \in Sessions, RecordCitation(s)
       PROVE  Covered(c)'
  <2>1. Moved(s, "cite", "cite", {"cited"})
    BY <1>10, RecordCitationMoves
  <2>2. ~Holds(s, c)'
    BY <2>1 DEF Holds, Moved
  <2> QED BY <1>4, <1>10, <2>1, <2>2 DEF RecordCitation
<1>11. ASSUME NEW s \in Sessions, Propagate(s)
       PROVE  Covered(c)'
  <2>1. Moved(s, "cite", "ripple", {"owed"})
    BY <1>11, PropagateMoves
  <2>2. ~Holds(s, c)'
    BY <2>1 DEF Holds, Moved
  <2> QED BY <1>4, <1>11, <2>1, <2>2 DEF Propagate
<1>12. ASSUME NEW s \in Sessions, ReadCredited(s)
       PROVE  Covered(c)'
  <2>1. /\ Moved(s, "ripple", "credit", {"target", "prior"})
        /\ sess'[s].prior = RowOr(states, sess'[s].target, Blank)
    BY <1>12, ReadCreditedMoves
  <2>2. Holds(s, c)' => sess'[s].prior.reps = Reps(c)
    BY <2>1 DEF Holds, Reps
  <2> QED BY <1>4, <1>12, <2>1, <2>2 DEF ReadCredited
<1>13. ASSUME NEW s \in Sessions, WriteCredited(s)
       PROVE  Covered(c)'
  <2> DEFINE row == Review(sess[s].prior, sess[s].owed[sess[s].target])
  <2>1. Moved(s, "credit", "ripple", {"owed", "prior"})
    BY <1>13, WriteCreditedMoves
  <2>0. PICK x \in Concepts : x = sess[s].target
    BY <1>1, <2>1 DEF Moved
  <2>2. s \in DOMAIN sess /\ Holds(s, x) /\ sess[s].prior \in State /\ sess[s].owed[x] \in Rating
    BY <1>1, <2>0, <2>1, FrameFields, WrittenRows DEF Moved, Holds
  <2>3. row \in State /\ row.reps = sess[s].prior.reps + 1 /\ WriteRow(s, x, row)
    BY <1>13, <2>0, <2>2, ReviewRow DEF WriteCredited
  <2> HIDE DEF row
  <2>4. /\ spoiled \subseteq spoiled'
        /\ x \notin spoiled' => Reps(x)' = Reps(x) + 1 /\ \A t \in DOMAIN sess \ {s} : ~Holds(t, x)
        /\ \A y \in Concepts \ {x} : Reps(y)' = Reps(y)
    BY <2>2, <2>3, WriteCovers
  <2>5. log' = log /\ Late(c)' = Late(c)
    BY <1>13, <2>1 DEF WriteCredited, Late, Moved
  <2>6. ~Holds(s, c)' /\ \A t \in DOMAIN sess \ {s} : (Holds(t, c)' <=> Holds(t, c)) /\ sess'[t] = sess[t]
    BY <2>1 DEF Holds, Moved
  <2>7. CASE c = x
    BY <1>2, <1>3, <2>1, <2>4, <2>5, <2>6, <2>7 DEF Covered, Moved
  <2>8. CASE c # x
    BY <1>3, <2>1, <2>4, <2>5, <2>6, <2>8 DEF Covered, Moved
  <2> QED BY <2>7, <2>8
<1>14. ASSUME NEW s \in Sessions, Ended(s)
       PROVE  Covered(c)'
  <2>1. Late(c)' \in SUBSET Late(c)
    BY <1>14 DEF Late, Ended
  <2>2. Cardinality(Late(c)') <= Cardinality(Late(c)) /\ Cardinality(Late(c)') \in Nat
    BY <1>2, <2>1, FS_Subset, FS_CardinalityType
  <2>3. \A t \in DOMAIN sess' : Holds(t, c)' => t \in DOMAIN sess /\ Holds(t, c) /\ sess'[t] = sess[t]
    BY <1>14 DEF Holds, Ended
  <2>4. Reps(c)' = Reps(c) /\ c \notin spoiled /\ log' = log
    BY <1>14 DEF Reps, Ended
  <2> QED BY <1>2, <1>3, <2>2, <2>3, <2>4 DEF Covered
<1>15. CASE UNCHANGED vars
  BY <1>3, <1>15 DEF vars, Covered, Late, Reps, Holds
<1> QED BY <1>5, <1>6, <1>7, <1>8, <1>9, <1>10, <1>11, <1>12, <1>13, <1>14, <1>15, SessionEnds DEF Next, Step

\* Grades are lost from the counters by overlapping writes and in no other way.
THEOREM UnspoiledRowsAlwaysCoverLog == Spec => []UnspoiledRowsCoverLog
<1>1. TypeOK /\ UnspoiledCovered => UnspoiledRowsCoverLog
  <2> SUFFICES ASSUME TypeOK, UnspoiledCovered, NEW c \in Concepts \ spoiled
               PROVE  Len(log[c]) <= RowOr(states, c, Blank).reps
    BY DEF UnspoiledRowsCoverLog
  <2> QED BY CountersTyped DEF UnspoiledCovered, Covered, Reps
<1>2. Spec => []UnspoiledCovered
  BY InitType, NextType, InitCovered, NextCovered, PTL DEF Spec
<1> QED BY <1>1, <1>2, TypeCorrect, PTL

---------------------------------------------------------------------------
(***************************************************************************)
(* One session alone. grade(), statement by statement, implements the        *)
(* atomic handlers of Curriculum as long as one process works alone and      *)
(* does not end in the middle of a grade: every statement is a Curriculum    *)
(* step or leaves the abstract tables of SoloGrade as they are.              *)
(***************************************************************************)

\* What the statements before have left in the local variables: alone, a
\* session that has read a row or the log holds what is still stored.
Undisturbed(f) ==
  /\ f.pc \in {"recent", "upsert", "credit"} => f.prior = RowOr(states, f.target, Blank)
  /\ f.pc = "upsert" => f.recent = log[f.target]
  /\ f.pc \in {"prior", "recent", "upsert"} => f.cited = f.req.cited
  /\ f.pc \in {"ripple", "credit"} => f.cited = <<>>

Reads == \A s \in DOMAIN sess : Undisturbed(sess[s])

\* A log entry for every grade started, but for one that is not logged yet.
EntriesOf(table) == {e \in Concepts \X (1 .. MaxRequests) : e[2] <= Len(table[e[1]])}
Entries == EntriesOf(log)

Unlogged == {"prior", "recent", "upsert", "append"}

Counted ==
  /\ Cardinality(Entries) <= started
  /\ \A s \in DOMAIN sess : sess[s].pc \in Unlogged => Cardinality(Entries) < started

IInv == TypeOK /\ Reads /\ Counted

---------------------------------------------------------------------------
\* Counting citations

\* What is counted at the first of n + 1 places and at the others is all there is.
LEMMA FirstAndRest ==
  ASSUME NEW n \in Nat, NEW P \in SUBSET (1 .. n + 1)
  PROVE  Cardinality(P) = Cardinality(P \cap {1}) + Cardinality({i \in 1 .. n : i + 1 \in P})
<1> DEFINE T == {i \in 1 .. n : i + 1 \in P}
           Q == {i \in P : i # 1}
           f == [i \in T |-> i + 1]
<1>1. IsFiniteSet(T) /\ IsFiniteSet(P) /\ Cardinality(T) \in Nat
  <2>1. T \subseteq 1 .. n /\ n + 1 \in Nat
    OBVIOUS
  <2> HIDE DEF T
  <2> QED BY <2>1, TallyIsNumber
<1>2. f \in Bijection(T, Q)
  <2>1. f \in [T -> Q]
    OBVIOUS
  <2>2. \A i, j \in T : f[i] = f[j] => i = j
    OBVIOUS
  <2>3. \A q \in Q : \E i \in T : f[i] = q
    <3> TAKE q \in Q
    <3>1. q - 1 \in T /\ f[q - 1] = q
      OBVIOUS
    <3> QED BY <3>1
  <2> QED BY <2>1, <2>2, <2>3 DEF Bijection, Injection, Surjection, IsInjective
<1>3. Cardinality(Q) = Cardinality(T)
  <2>1. ExistsBijection(T, Q)
    BY <1>2 DEF ExistsBijection
  <2> HIDE DEF T, Q
  <2> QED BY <1>1, <2>1, FS_Bijection
<1>4. IsFiniteSet(Q) /\ IsFiniteSet(P \cap {1})
  BY <1>1, FS_Subset
<1>5. P = (P \cap {1}) \cup Q /\ (P \cap {1}) \cap Q = {}
  OBVIOUS
<1>6. Cardinality(P \cap {1}) \in Nat /\ Cardinality(Q) \in Nat
  BY <1>4, FS_CardinalityType
<1> DEFINE H == P \cap {1}
<1> HIDE DEF Q, H
<1>7. Cardinality(H \cup Q) = Cardinality(H) + Cardinality(Q) - Cardinality(H \cap Q)
  BY <1>4, FS_Union DEF H
<1>8. Cardinality(H \cap Q) = 0
  BY <1>5, FS_EmptySet DEF H
<1>9. P = H \cup Q
  BY <1>5 DEF H
<1> HIDE DEF T
<1>10. Cardinality(H) \in Nat /\ Cardinality(Q) \in Nat
  BY <1>6 DEF H
<1>11. Cardinality(P) = Cardinality(H) + Cardinality(Q)
  BY <1>7, <1>8, <1>9, <1>10
<1> QED BY <1>3, <1>11 DEF H, T

\* Table t is the given table after n citations, row by row.
IsExposed(t, table, cited, n) ==
  /\ DOMAIN t = DOMAIN table \cup {cited[i][1] : i \in 1 .. n}
  /\ t = [e \in DOMAIN t |-> t[e]]
  /\ \A e \in EdgeKeys :
        /\ RowOr(table, e, DefaultEdge) \in EdgeRow
        /\ RowOr(t, e, DefaultEdge) = Exposed(RowOr(table, e, DefaultEdge), e, cited, n)

LEMMA ExposedTable ==
  ASSUME NEW table, EdgeTable(table),
         NEW cited, NEW n \in Nat, \A i \in 1 .. n : cited[i][1] \in EdgeKeys
  PROVE  IsExposed(RecordExposure(table, cited, n), table, cited, n)
<1> DEFINE named == {cited[i][1] : i \in 1 .. n}
           rows == [e \in named |-> Exposed(RowOr(table, e, DefaultEdge), e, cited, n)]
           t == Upsert(table, rows)
<1>1. RecordExposure(table, cited, n) = t
  BY DEF RecordExposure
<1>2. DOMAIN rows = named
  OBVIOUS
<1>3. \A e \in named : rows[e] = Exposed(RowOr(table, e, DefaultEdge), e, cited, n)
  OBVIOUS
<1>4. named \subseteq EdgeKeys
  OBVIOUS
<1> HIDE DEF rows
<1>5. /\ DOMAIN t = DOMAIN table \cup named
      /\ t = [e \in DOMAIN t |-> t[e]]
      /\ \A e \in named : t[e] = rows[e]
      /\ \A e \in DOMAIN table \ named : t[e] = table[e]
  BY <1>2 DEF Upsert
<1>6. ASSUME NEW e \in EdgeKeys
      PROVE  /\ RowOr(table, e, DefaultEdge) \in EdgeRow
             /\ RowOr(t, e, DefaultEdge) = Exposed(RowOr(table, e, DefaultEdge), e, cited, n)
  <2> DEFINE row == RowOr(table, e, DefaultEdge)
             times == {i \in 1 .. n : cited[i][1] = e}
             skipped == {i \in 1 .. n : cited[i] = <<e, TRUE>>}
  <2>1. row \in EdgeRow
    BY RowOrTyped, DefaultEdgeRow DEF EdgeTable
  <2>2. CASE e \in named
    <3>1. RowOr(t, e, DefaultEdge) = t[e]
      BY <1>5, <2>2 DEF RowOr
    <3> HIDE DEF t, row, named
    <3> QED BY <1>3, <1>5, <2>1, <2>2, <3>1 DEF row
  <2>3. CASE e \notin named
    <3>1. times = {} /\ skipped = {}
      <4>1. \A i \in 1 .. n : cited[i][1] # e
        BY <2>3
      <4>2. ASSUME NEW i \in 1 .. n, cited[i] = <<e, TRUE>>
            PROVE  FALSE
        <5>1. cited[i][1] = e
          BY <4>2
        <5> QED BY <4>1, <5>1
      <4> QED BY <4>1, <4>2
    <3>2. Cardinality(times) = 0 /\ Cardinality(skipped) = 0
      BY <3>1, FS_EmptySet
    <3>3. Exposed(row, e, cited, n) =
            [provenance |-> row.provenance, weight |-> row.weight,
             exposures |-> row.exposures + Cardinality(times), skips |-> row.skips + Cardinality(skipped)]
      BY DEF Exposed
    <3>4. RowOr(t, e, DefaultEdge) = row
      BY <1>5, <2>3 DEF RowOr
    <3> HIDE DEF t, row, named, times, skipped
    <3>5. Exposed(row, e, cited, n) = row
      BY <2>1, <3>2, <3>3 DEF EdgeRow
    <3> QED BY <2>1, <3>4, <3>5 DEF row
  <2> QED BY <2>2, <2>3
<1> HIDE DEF t
<1> QED BY <1>1, <1>5, <1>6 DEF IsExposed

\* Counting twice is counting further: n citations after the first one.
LEMMA ExposedFurther ==
  ASSUME NEW row \in EdgeRow, NEW e, NEW S, NEW cited \in Seq(S), NEW n \in Nat, n < Len(cited)
  PROVE  Exposed(Exposed(row, e, cited, 1), e, Tail(cited), n) = Exposed(row, e, cited, n + 1)
<1> DEFINE rest == Tail(cited)
           N(s, m) == {i \in 1 .. m : s[i][1] = e}
           K(s, m) == {i \in 1 .. m : s[i] = <<e, TRUE>>}
<1>1. /\ N(cited, n + 1) \in SUBSET (1 .. n + 1) /\ K(cited, n + 1) \in SUBSET (1 .. n + 1)
  OBVIOUS
<1>2. \A i \in 1 .. n : rest[i] = cited[i + 1]
  OBVIOUS
<1>3. /\ N(cited, n + 1) \cap {1} = N(cited, 1) /\ K(cited, n + 1) \cap {1} = K(cited, 1)
  <2>1. 1 .. 1 = {1} /\ 1 \in 1 .. n + 1
    OBVIOUS
  <2> QED BY <2>1
<1>4. /\ {i \in 1 .. n : i + 1 \in N(cited, n + 1)} = N(rest, n)
      /\ {i \in 1 .. n : i + 1 \in K(cited, n + 1)} = K(rest, n)
  <2> HIDE DEF rest
  <2>1. \A i \in 1 .. n : i + 1 \in 1 .. n + 1 /\ rest[i] = cited[i + 1]
    BY <1>2
  <2>2. \A i \in 1 .. n : i + 1 \in N(cited, n + 1) <=> rest[i][1] = e
    BY <2>1
  <2>3. \A i \in 1 .. n : i + 1 \in K(cited, n + 1) <=> rest[i] = <<e, TRUE>>
    BY <2>1
  <2> QED BY <2>2, <2>3
<1> HIDE DEF rest, N, K
<1>5. /\ Cardinality(N(cited, n + 1)) = Cardinality(N(cited, 1)) + Cardinality(N(rest, n))
      /\ Cardinality(K(cited, n + 1)) = Cardinality(K(cited, 1)) + Cardinality(K(rest, n))
  BY <1>1, <1>3, <1>4, FirstAndRest
<1>6. \A s, m : m \in Nat => Cardinality(N(s, m)) \in Nat /\ Cardinality(K(s, m)) \in Nat
  <2> SUFFICES ASSUME NEW s, NEW m \in Nat
               PROVE  Cardinality(N(s, m)) \in Nat /\ Cardinality(K(s, m)) \in Nat
    OBVIOUS
  <2>1. N(s, m) \subseteq 1 .. m /\ K(s, m) \subseteq 1 .. m
    BY DEF N, K
  <2> QED BY <2>1, TallyIsNumber
<1>7. \A r, s, m : Exposed(r, e, s, m) =
                     [provenance |-> r.provenance, weight |-> r.weight,
                      exposures |-> r.exposures + Cardinality(N(s, m)), skips |-> r.skips + Cardinality(K(s, m))]
  BY DEF Exposed, N, K
<1> DEFINE mid == Exposed(row, e, cited, 1)
<1>8. /\ mid.provenance = row.provenance /\ mid.weight = row.weight
      /\ mid.exposures = row.exposures + Cardinality(N(cited, 1))
      /\ mid.skips = row.skips + Cardinality(K(cited, 1))
  BY <1>7
<1> HIDE DEF mid
<1>9. /\ mid.exposures + Cardinality(N(rest, n)) = row.exposures + Cardinality(N(cited, n + 1))
      /\ mid.skips + Cardinality(K(rest, n)) = row.skips + Cardinality(K(cited, n + 1))
  BY <1>5, <1>6, <1>8 DEF EdgeRow
<1>10. Exposed(mid, e, rest, n) = Exposed(row, e, cited, n + 1)
  BY <1>7, <1>8, <1>9
<1> QED BY <1>10 DEF mid, rest

\* Recording the first citation leaves what is to be recorded as it was.
LEMMA RecordFirst ==
  ASSUME NEW table, EdgeTable(table),
         NEW S, NEW cited \in Seq(S), cited # <<>>, cited[1][1] \in EdgeKeys
  PROVE  LET first == RecordExposure(table, cited, 1)
         IN /\ Parsed(cited) = Parsed(Tail(cited)) + 1
            /\ RecordExposure(first, Tail(cited), Parsed(Tail(cited))) = RecordExposure(table, cited, Parsed(cited))
<1> DEFINE rest == Tail(cited)
           n == Parsed(rest)
           first == RecordExposure(table, cited, 1)
<1>1. /\ rest \in Seq(S) /\ Len(cited) \in Nat /\ Len(rest) = Len(cited) - 1
      /\ \A i \in 1 .. Len(rest) : rest[i] = cited[i + 1]
  OBVIOUS
<1> HIDE DEF rest
<1>2. n \in 0 .. Len(rest) /\ ParsedAt(rest, n)
  BY <1>1, ParsedIs
<1> HIDE DEF n
<1>3. n + 1 \in 0 .. Len(cited) /\ ParsedAt(cited, n + 1)
  <2>1. n + 1 \in 0 .. Len(cited)
    BY <1>1, <1>2
  <2>2. ASSUME NEW i \in 1 .. n + 1
        PROVE  cited[i][1] \in EdgeKeys
    <3>1. CASE i = 1
      BY <3>1
    <3>2. CASE i # 1
      <4>1. i - 1 \in 1 .. n /\ i - 1 \in 1 .. Len(rest) /\ (i - 1) + 1 = i
        BY <1>1, <1>2, <3>2
      <4> QED BY <1>1, <1>2, <4>1 DEF ParsedAt
    <3> QED BY <3>1, <3>2
  <2>3. n + 1 < Len(cited) => cited[(n + 1) + 1][1] \notin EdgeKeys
    <3> SUFFICES ASSUME n + 1 < Len(cited) PROVE cited[(n + 1) + 1][1] \notin EdgeKeys
      OBVIOUS
    <3>1. n < Len(rest) /\ n + 1 \in 1 .. Len(rest)
      BY <1>1, <1>2
    <3> QED BY <1>1, <1>2, <3>1 DEF ParsedAt
  <2> QED BY <2>1, <2>2, <2>3 DEF ParsedAt
<1>4. Parsed(cited) = n + 1
  BY <1>3, ParsedIs
<1>5. /\ \A i \in 1 .. 1 : cited[i][1] \in EdgeKeys
      /\ \A i \in 1 .. n : rest[i][1] \in EdgeKeys
      /\ \A i \in 1 .. n + 1 : cited[i][1] \in EdgeKeys
      /\ n \in Nat
  BY <1>1, <1>2, <1>3 DEF ParsedAt
<1>6. EdgeTable(first)
  BY <1>5, ExposureKeepsGates
<1> DEFINE last == RecordExposure(first, rest, n)
           all == RecordExposure(table, cited, n + 1)
<1>7. IsExposed(first, table, cited, 1)
  BY <1>5, ExposedTable
<1> HIDE DEF first
<1>8. IsExposed(last, first, rest, n)
  BY <1>5, <1>6, ExposedTable
<1>9. IsExposed(all, table, cited, n + 1)
  <2>1. n + 1 \in Nat
    BY <1>5
  <2> QED BY <1>5, <2>1, ExposedTable
<1>10. EdgeTable(all)
  <2>1. n + 1 \in Nat
    BY <1>5
  <2> QED BY <1>5, <2>1, ExposureKeepsGates
<1> HIDE DEF last, all
<1>11. DOMAIN last = DOMAIN all
  <2>1. ASSUME NEW e, e \in {cited[i][1] : i \in 1 .. n + 1}
        PROVE  e = cited[1][1] \/ e \in {rest[i][1] : i \in 1 .. n}
    <3>1. PICK i \in 1 .. n + 1 : e = cited[i][1]
      BY <2>1
    <3>2. CASE i = 1
      BY <3>1, <3>2
    <3>3. CASE i # 1
      <4>1. i - 1 \in 1 .. n /\ i - 1 \in 1 .. Len(rest) /\ (i - 1) + 1 = i
        BY <1>2, <3>3
      <4>2. rest[i - 1] = cited[i]
        BY <1>1, <4>1
      <4> QED BY <3>1, <4>1, <4>2
    <3> QED BY <3>2, <3>3
  <2>2. ASSUME NEW i \in 1 .. n
        PROVE  rest[i][1] \in {cited[j][1] : j \in 1 .. n + 1}
    <3>1. rest[i] = cited[i + 1] /\ i + 1 \in 1 .. n + 1
      BY <1>1, <1>2
    <3> QED BY <3>1
  <2>3. cited[1][1] \in {cited[j][1] : j \in 1 .. n + 1}
    BY <1>5
  <2>4. {cited[i][1] : i \in 1 .. 1} = {cited[1][1]}
    OBVIOUS
  <2> DEFINE One == {cited[i][1] : i \in 1 .. 1}
             Others == {rest[i][1] : i \in 1 .. n}
             Named == {cited[i][1] : i \in 1 .. n + 1}
  <2>5. DOMAIN first = DOMAIN table \cup One
    BY <1>7 DEF IsExposed
  <2>6. DOMAIN last = DOMAIN first \cup Others
    BY <1>8 DEF IsExposed
  <2>7. DOMAIN all = DOMAIN table \cup Named
    BY <1>9 DEF IsExposed
  <2>8. \A e \in Others : e \in Named
    BY <2>2
  <2>9. \A e \in Named : e = cited[1][1] \/ e \in Others
    BY <2>1
  <2> HIDE DEF One, Others, Named
  <2>10. One = {cited[1][1]} /\ cited[1][1] \in Named
    BY <2>3, <2>4 DEF One, Named
  <2> QED BY <2>5, <2>6, <2>7, <2>8, <2>9, <2>10
<1>12. ASSUME NEW e \in DOMAIN all
       PROVE  last[e] = all[e]
  <2>1. e \in EdgeKeys
    BY <1>10 DEF EdgeTable
  <2>2. RowOr(last, e, DefaultEdge) = last[e] /\ RowOr(all, e, DefaultEdge) = all[e]
    BY <1>11 DEF RowOr
  <2>3. n < Len(cited)
    BY <1>1, <1>2
  <2> DEFINE row == RowOr(table, e, DefaultEdge)
  <2>4. row \in EdgeRow /\ RowOr(first, e, DefaultEdge) = Exposed(row, e, cited, 1)
    BY <1>7, <2>1 DEF IsExposed
  <2>5. RowOr(last, e, DefaultEdge) = Exposed(RowOr(first, e, DefaultEdge), e, rest, n)
    BY <1>8, <2>1 DEF IsExposed
  <2>6. RowOr(all, e, DefaultEdge) = Exposed(row, e, cited, n + 1)
    BY <1>9, <2>1 DEF IsExposed
  <2> HIDE DEF row
  <2>7. Exposed(Exposed(row, e, cited, 1), e, rest, n) = Exposed(row, e, cited, n + 1)
    BY <1>5, <2>3, <2>4, ExposedFurther DEF rest
  <2> QED BY <2>2, <2>7, <2>4, <2>5, <2>6
<1>13. last = [e \in DOMAIN last |-> last[e]] /\ all = [e \in DOMAIN all |-> all[e]]
  BY <1>8, <1>9 DEF IsExposed
<1>14. last = all
  BY <1>11, <1>12, <1>13
<1> QED BY <1>4, <1>14 DEF last, all, first, n, rest

---------------------------------------------------------------------------
\* The operators of the abstract module are those of the detailed one

LEMMA SameTables ==
  /\ \A S : C!Cardinality(S) = Cardinality(S)
  /\ \A t, r : C!Upsert(t, r) = Upsert(t, r)
  /\ \A t, k, d : C!RowOr(t, k, d) = RowOr(t, k, d)
  /\ C!Blank = Blank /\ C!DefaultEdge = DefaultEdge
  BY Zenon DEF C!Cardinality, Cardinality, C!Upsert, Upsert, C!RowOr, RowOr, C!Blank, Blank,
               C!DefaultEdge, DefaultEdge

LEMMA SameReviews ==
  /\ \A score : C!GradeToRating(score) = GradeToRating(score)
  /\ \A prior, rating : C!Review(prior, rating) = Review(prior, rating)
  /\ \A prior, score, history : C!GradedRow(prior, score, history) = GradedRow(prior, score, history)
  BY Zenon DEF C!GradedRow, GradedRow, C!Review, Review, C!NextMastery, NextMastery,
               C!GradeToRating, GradeToRating, C!TwoStrong, TwoStrong,
               C!AGAIN, AGAIN, C!HARD, HARD, C!GOOD, GOOD, C!EASY, EASY

LEMMA SameParsed == \A cited : C!Parsed(cited) = Parsed(cited)
  BY DEF C!Parsed, Parsed, C!EdgeKeys, EdgeKeys, C!EdgeTypes, EdgeTypes

LEMMA SameExposure ==
  \A table, cited, n : C!RecordExposure(table, cited, n) = RecordExposure(table, cited, n)
<1>1. ASSUME NEW row, NEW e, NEW cited, NEW n
      PROVE  C!Exposed(row, e, cited, n) = Exposed(row, e, cited, n)
  <2> DEFINE N == {i \in 1 .. n : cited[i][1] = e}
             K == {i \in 1 .. n : cited[i] = <<e, TRUE>>}
  <2>1. Exposed(row, e, cited, n) =
          [provenance |-> row.provenance, weight |-> row.weight,
           exposures |-> row.exposures + Cardinality(N), skips |-> row.skips + Cardinality(K)]
    BY DEF Exposed
  <2>2. C!Exposed(row, e, cited, n) =
          [provenance |-> row.provenance, weight |-> row.weight,
           exposures |-> row.exposures + C!Cardinality(N), skips |-> row.skips + C!Cardinality(K)]
    BY DEF C!Exposed
  <2>3. C!Cardinality(N) = Cardinality(N) /\ C!Cardinality(K) = Cardinality(K)
    BY SameTables
  <2> QED BY <2>1, <2>2, <2>3
<1>2. SUFFICES ASSUME NEW table, NEW cited, NEW n
               PROVE  C!RecordExposure(table, cited, n) = RecordExposure(table, cited, n)
  OBVIOUS
<1> DEFINE S == {cited[i][1] : i \in 1 .. n}
           A(e) == Exposed(RowOr(table, e, DefaultEdge), e, cited, n)
           B(e) == C!Exposed(C!RowOr(table, e, C!DefaultEdge), e, cited, n)
<1>3. RecordExposure(table, cited, n) = Upsert(table, [e \in S |-> A(e)])
  BY Zenon DEF RecordExposure
<1>4. C!RecordExposure(table, cited, n) = C!Upsert(table, [e \in S |-> B(e)])
  BY Zenon DEF C!RecordExposure
<1>5. \A e \in S : A(e) = B(e)
  BY <1>1, SameTables
<1> HIDE DEF S, A, B
<1>6. [e \in S |-> A(e)] = [e \in S |-> B(e)]
  BY <1>5
<1> QED BY <1>3, <1>4, <1>6, SameTables

LEMMA SameCredit == \A table, c, rating : C!Credit(table, c, rating) = Credit(table, c, rating)
<1>1. \A table, c, rating : C!Emissions(table, c, rating) = Emissions(table, c, rating)
  BY Zenon DEF C!Emissions, Emissions, C!EncompassesIn, EncompassesIn, C!EncompassesOut, EncompassesOut,
               C!LinkRating, LinkRating, C!AGAIN, AGAIN, C!HARD, HARD, C!GOOD, GOOD
<1>2. \A emitted, x : C!Strongest(emitted, x) = Strongest(emitted, x)
  BY Zenon DEF C!Strongest, Strongest, C!Rating, Rating, C!AGAIN, AGAIN, C!EASY, EASY
<1>3. SUFFICES ASSUME NEW table, NEW c, NEW rating
               PROVE  C!Credit(table, c, rating) = Credit(table, c, rating)
  OBVIOUS
<1> DEFINE emitted == Emissions(table, c, rating)
           S == {m[1] : m \in emitted} \ {c}
           A(x) == Strongest(emitted, x)
           B(x) == C!Strongest(emitted, x)
<1>4. Credit(table, c, rating) = [x \in S |-> A(x)]
  BY Zenon DEF Credit
<1>5. C!Credit(table, c, rating) = [x \in S |-> B(x)]
  BY Zenon, <1>1 DEF C!Credit
<1>6. \A x \in S : A(x) = B(x)
  BY <1>2
<1> HIDE DEF S, A, B
<1> QED BY <1>4, <1>5, <1>6

\* The credited rows of the abstract handler are what is to be paid.
LEMMA SameRipple ==
  ASSUME NEW rows, NEW table, NEW c, NEW rating
  PROVE  C!Upsert(rows, C!ImplicitRows(rows, table, c, rating)) = Paid(rows, Credit(table, c, rating))
<1> DEFINE credit == Credit(table, c, rating)
           A(x) == Review(RowOr(rows, x, Blank), credit[x])
           B(x) == C!Review(C!RowOr(rows, x, C!Blank), credit[x])
<1>1. Paid(rows, credit) = Upsert(rows, [x \in DOMAIN credit |-> A(x)])
  BY Zenon DEF Paid
<1>2. C!ImplicitRows(rows, table, c, rating) = [x \in DOMAIN credit |-> B(x)]
  BY Zenon, SameCredit DEF C!ImplicitRows
<1>3. \A x \in DOMAIN credit : A(x) = B(x)
  BY SameTables, SameReviews
<1> HIDE DEF credit, A, B
<1>4. [x \in DOMAIN credit |-> A(x)] = [x \in DOMAIN credit |-> B(x)]
  BY <1>3
<1>5. C!Upsert(rows, C!ImplicitRows(rows, table, c, rating)) = Paid(rows, credit)
  BY <1>1, <1>2, <1>4, SameTables
<1> QED BY <1>5 DEF credit

---------------------------------------------------------------------------
\* Paying credits and recording citations, where there is little or nothing to do

\* Nothing owed is nothing written.
LEMMA NothingPaid ==
  ASSUME NEW rows, rows \in [DOMAIN rows -> State], NEW owed, DOMAIN owed = {}
  PROVE  Paid(rows, owed) = rows
<1> DEFINE due == [x \in DOMAIN owed |-> Review(RowOr(rows, x, Blank), owed[x])]
<1>1. DOMAIN due = {}
  OBVIOUS
<1>2. Paid(rows, owed) = Upsert(rows, due)
  BY Zenon DEF Paid
<1> HIDE DEF due
<1>3. Upsert(rows, due) = [k \in DOMAIN rows |-> rows[k]]
  BY <1>1 DEF Upsert
<1> QED BY <1>2, <1>3

\* A credit that is paid is no longer owed, and the rows come out the same.
LEMMA PayOne ==
  ASSUME NEW rows, rows \in [DOMAIN rows -> State],
         NEW owed, NEW x \in DOMAIN owed,
         NEW after, DOMAIN after = DOMAIN rows \cup {x},
         after[x] = Review(RowOr(rows, x, Blank), owed[x]),
         \A y \in DOMAIN rows \ {x} : after[y] = rows[y]
  PROVE  Paid(after, Without(owed, x)) = Paid(rows, owed)
<1> DEFINE rest == Without(owed, x)
           due == [y \in DOMAIN owed |-> Review(RowOr(rows, y, Blank), owed[y])]
           left == [y \in DOMAIN rest |-> Review(RowOr(after, y, Blank), rest[y])]
<1>1. DOMAIN rest = DOMAIN owed \ {x} /\ \A y \in DOMAIN rest : rest[y] = owed[y]
  BY DEF Without
<1>2. Paid(after, rest) = Upsert(after, left) /\ Paid(rows, owed) = Upsert(rows, due)
  BY Zenon DEF Paid
<1> HIDE DEF rest
<1>3. /\ DOMAIN left = DOMAIN rest /\ DOMAIN due = DOMAIN owed
      /\ \A y \in DOMAIN left : left[y] = Review(RowOr(after, y, Blank), rest[y])
      /\ \A y \in DOMAIN due : due[y] = Review(RowOr(rows, y, Blank), owed[y])
  OBVIOUS
<1> HIDE DEF left, due
<1>4. \A y \in DOMAIN rest : RowOr(after, y, Blank) = RowOr(rows, y, Blank)
  BY <1>1 DEF RowOr
<1>5. \A y \in DOMAIN left : left[y] = due[y]
  BY <1>1, <1>3, <1>4
<1>6. due[x] = after[x]
  BY <1>3
<1>7. DOMAIN after \cup DOMAIN left = DOMAIN rows \cup DOMAIN due
  BY <1>1, <1>3
<1>8. ASSUME NEW y \in DOMAIN rows \cup DOMAIN due
      PROVE  (IF y \in DOMAIN left THEN left[y] ELSE after[y]) = (IF y \in DOMAIN due THEN due[y] ELSE rows[y])
  <2>1. CASE y \in DOMAIN left
    BY <1>1, <1>3, <1>5, <2>1
  <2>2. CASE y = x
    BY <1>1, <1>3, <1>6, <2>2
  <2>3. CASE y # x /\ y \notin DOMAIN left
    BY <1>1, <1>3, <1>8, <2>3
  <2> QED BY <2>1, <2>2, <2>3
<1>9. Upsert(after, left) = Upsert(rows, due)
  BY <1>7, <1>8 DEF Upsert
<1> QED BY <1>2, <1>9 DEF rest

\* Recording nothing changes nothing.
LEMMA NothingRecorded ==
  ASSUME NEW table, EdgeTable(table), NEW cited
  PROVE  RecordExposure(table, cited, 0) = table
<1> DEFINE t == RecordExposure(table, cited, 0)
<1>1. \A i \in 1 .. 0 : FALSE
  OBVIOUS
<1>2. IsExposed(t, table, cited, 0) /\ EdgeTable(t)
  BY <1>1, ExposedTable, ExposureKeepsGates
<1>3. {cited[i][1] : i \in 1 .. 0} = {}
  BY <1>1
<1>4. DOMAIN t = DOMAIN table /\ t = [e \in DOMAIN t |-> t[e]]
  BY <1>2, <1>3 DEF IsExposed
<1>5. ASSUME NEW e \in DOMAIN table
      PROVE  t[e] = table[e]
  <2> DEFINE times == {i \in 1 .. 0 : cited[i][1] = e}
             skipped == {i \in 1 .. 0 : cited[i] = <<e, TRUE>>}
  <2>1. times = {} /\ skipped = {}
    BY <1>1
  <2>2. Cardinality(times) = 0 /\ Cardinality(skipped) = 0
    BY <2>1, FS_EmptySet
  <2>3. table[e] \in EdgeRow /\ e \in EdgeKeys
    BY DEF EdgeTable
  <2>4. Exposed(table[e], e, cited, 0) =
          [provenance |-> table[e].provenance, weight |-> table[e].weight,
           exposures |-> table[e].exposures + Cardinality(times), skips |-> table[e].skips + Cardinality(skipped)]
    BY DEF Exposed
  <2> HIDE DEF times, skipped
  <2>5. Exposed(table[e], e, cited, 0) = table[e]
    BY <2>2, <2>3, <2>4 DEF EdgeRow
  <2> HIDE DEF t
  <2>6. RowOr(t, e, DefaultEdge) = t[e] /\ RowOr(table, e, DefaultEdge) = table[e]
    BY <1>4 DEF RowOr
  <2> QED BY <1>2, <2>3, <2>5, <2>6 DEF IsExposed
<1> HIDE DEF t
<1>6. table = [e \in DOMAIN table |-> table[e]]
  BY DEF EdgeTable
<1>7. t = table
  BY <1>4, <1>5, <1>6
<1> QED BY <1>7 DEF t

\* No citation is left, or the next one raises.
LEMMA NoneParsed ==
  ASSUME NEW S, NEW cited \in Seq(S), cited = <<>> \/ cited[1][1] \notin EdgeKeys
  PROVE  Parsed(cited) = 0
<1>1. ParsedAt(cited, 0)
  BY DEF ParsedAt
<1>2. 0 \in 0 .. Len(cited)
  OBVIOUS
<1> QED BY <1>1, <1>2, ParsedIs

---------------------------------------------------------------------------
\* What the abstract tables show when session s is the only one

LateSteps == {"append", "cite", "ripple", "credit"}

LEMMA AloneIs == ASSUME Alone PROVE \E s : Sessions = {s}
  BY SessionsFinite, FS_Singleton DEF Alone

LEMMA FinalNow ==
  ASSUME NEW s, Sessions = {s}, DOMAIN sess \subseteq Sessions
  PROVE  /\ s \in DOMAIN sess /\ sess[s].pc \in LateSteps
              => /\ FinalLog = LogAfter(log, sess[s])
                 /\ FinalEdges = EdgesAfter(edges, sess[s])
                 /\ FinalStates = Paid(states, OwedAfter(edges, sess[s]))
         /\ ~(s \in DOMAIN sess /\ sess[s].pc \in LateSteps)
              => FinalLog = log /\ FinalEdges = edges /\ FinalStates = states
<1>1. ASSUME s \in DOMAIN sess, sess[s].pc \in LateSteps
      PROVE  Committed # {} /\ Working = sess[s]
  <2>1. Committed = {s}
    BY <1>1 DEF Committed, LateSteps
  <2> QED BY <2>1 DEF Working
<1>2. ASSUME ~(s \in DOMAIN sess /\ sess[s].pc \in LateSteps)
      PROVE  Committed = {}
  BY <1>2 DEF Committed, LateSteps
<1> QED BY <1>1, <1>2 DEF FinalLog, FinalEdges, FinalStates

LEMMA FinalThen ==
  ASSUME NEW s, Sessions = {s}, DOMAIN sess' \subseteq Sessions
  PROVE  /\ s \in DOMAIN sess' /\ sess'[s].pc \in LateSteps
              => /\ FinalLog' = LogAfter(log', sess'[s])
                 /\ FinalEdges' = EdgesAfter(edges', sess'[s])
                 /\ FinalStates' = Paid(states', OwedAfter(edges', sess'[s]))
         /\ ~(s \in DOMAIN sess' /\ sess'[s].pc \in LateSteps)
              => FinalLog' = log' /\ FinalEdges' = edges' /\ FinalStates' = states'
<1>1. ASSUME s \in DOMAIN sess', sess'[s].pc \in LateSteps
      PROVE  Committed' # {} /\ Working' = sess'[s]
  <2>1. Committed' = {s}
    BY <1>1 DEF Committed, LateSteps
  <2> QED BY <2>1 DEF Working
<1>2. ASSUME ~(s \in DOMAIN sess' /\ sess'[s].pc \in LateSteps)
      PROVE  Committed' = {}
  BY <1>2 DEF Committed, LateSteps
<1> QED BY <1>1, <1>2 DEF FinalLog, FinalEdges, FinalStates

---------------------------------------------------------------------------
\* The inductive invariant

\* The entries can be counted, whatever the log.
LEMMA EntriesCounted ==
  ASSUME NEW table
  PROVE  IsFiniteSet(EntriesOf(table)) /\ Cardinality(EntriesOf(table)) \in Nat
<1> DEFINE numbers == 1 .. MaxRequests
           pairs == Concepts \X numbers
<1>1. IsFiniteSet(numbers)
  BY MaxRequestsType, FS_Interval
<1>2. EntriesOf(table) \subseteq pairs
  BY DEF EntriesOf
<1> HIDE DEF numbers
<1>3. IsFiniteSet(pairs)
  BY <1>1, ConceptsFinite, FS_Product
<1> HIDE DEF pairs
<1> QED BY <1>2, <1>3, FS_Subset, FS_CardinalityType

\* A grade that is logged makes one entry more.
LEMMA OneEntryMore ==
  ASSUME log \in [Concepts -> Seq(Score)], NEW c \in Concepts, NEW score \in Score,
         log' = [log EXCEPT ![c] = Append(@, score)]
  PROVE  Cardinality(Entries') <= Cardinality(Entries) + 1
<1> DEFINE n == Len(log[c]) + 1
           new == <<c, n>>
           E == Entries
           F == Entries'
<1>1. \A x \in Concepts : Len(log'[x]) = IF x = c THEN n ELSE Len(log[x])
  OBVIOUS
<1>2. F \subseteq E \cup {new}
  <2> SUFFICES ASSUME NEW e \in F PROVE e \in E \/ e = new
    OBVIOUS
  <2>1. e \in Concepts \X (1 .. MaxRequests) /\ e[2] <= Len(log'[e[1]])
    BY DEF Entries, EntriesOf
  <2>2. PICK x \in Concepts, i \in 1 .. MaxRequests : e = <<x, i>>
    BY <2>1
  <2>3. Len(log[x]) \in Nat /\ n \in Nat /\ i <= Len(log'[x])
    BY <2>1, <2>2
  <2>4. i <= Len(log[x]) \/ (x = c /\ i = n)
    <3>1. CASE i <= Len(log[x])
      BY <3>1
    <3>2. CASE ~(i <= Len(log[x]))
      <4>1. x = c
        BY <1>1, <2>3, <3>2
      <4>2. i <= n
        BY <1>1, <2>3, <4>1
      <4>3. i \in Nat /\ i > Len(log[c])
        BY <2>3, <3>2, <4>1, MaxRequestsType
      <4> QED BY <2>3, <4>1, <4>2, <4>3
    <3> QED BY <3>1, <3>2
  <2> QED BY <2>2, <2>4 DEF Entries, EntriesOf
<1>3. IsFiniteSet(E) /\ Cardinality(E) \in Nat
  BY EntriesCounted DEF Entries
<1> HIDE DEF E, F, new
<1>4. IsFiniteSet(E \cup {new}) /\ Cardinality(E \cup {new}) \in Cardinality(E) .. Cardinality(E) + 1
  <2>1. IsFiniteSet(E \cup {new})
    BY <1>3, FS_AddElement
  <2>2. new \in E => Cardinality(E \cup {new}) = Cardinality(E)
    BY <1>3, FS_AddElement
  <2>3. new \notin E => Cardinality(E \cup {new}) = Cardinality(E) + 1
    BY <1>3, FS_AddElement
  <2> QED BY <1>3, <2>1, <2>2, <2>3
<1>5. Cardinality(F) <= Cardinality(E \cup {new}) /\ IsFiniteSet(F)
  BY <1>2, <1>4, FS_Subset
<1>6. Cardinality(F) \in Nat
  BY <1>5, FS_CardinalityType
<1>7. Cardinality(F) <= Cardinality(E) + 1
  BY <1>3, <1>4, <1>5, <1>6
<1> QED BY <1>7 DEF E, F

LEMMA InitCounts == Init => Reads /\ Counted
<1> SUFFICES ASSUME Init PROVE Reads /\ Counted
  OBVIOUS
<1>1. DOMAIN sess = {} /\ started = 0
  BY DEF Init
<1>2. Entries = {}
  <2>1. ASSUME NEW e \in Entries
        PROVE  FALSE
    <3>1. PICK c \in Concepts, i \in 1 .. MaxRequests : e = <<c, i>> /\ i <= Len(log[c])
      BY DEF Entries, EntriesOf
    <3>2. Len(log[c]) = 0
      BY DEF Init
    <3> QED BY <3>1, <3>2, MaxRequestsType
  <2> QED BY <2>1
<1> QED BY <1>1, <1>2, FS_EmptySet DEF Reads, Counted

\* One statement of the only session.
OneStep(s) ==
  \/ \E r \in Requests : Start(s, r)
  \/ ReadPrior(s) \/ ReadRecent(s) \/ UpsertGraded(s) \/ AppendLog(s)
  \/ RecordCitation(s) \/ RaiseOnCitation(s) \/ Propagate(s)
  \/ ReadCredited(s) \/ WriteCredited(s) \/ Return(s)

LEMMA StepCounts ==
  ASSUME IInv, NEW s, Sessions = {s}, OneStep(s), TypeOK'
  PROVE  Reads' /\ Counted'
<1>1. /\ TypeOK /\ Reads /\ Counted /\ DOMAIN sess \subseteq {s} /\ DOMAIN sess' \subseteq {s}
      /\ started \in Nat /\ Cardinality(Entries) \in Nat
  BY EntriesCounted DEF IInv, TypeOK, Entries
<1>2. ASSUME log' = log
      PROVE  Entries' = Entries
  BY <1>2 DEF Entries
<1>3. ASSUME NEW r \in Requests, Start(s, r)
      PROVE  Reads' /\ Counted'
  <2>1. Began(s, r) /\ started' = started + 1
    BY <1>3, StartBegins DEF Start
  <2>2. sess'[s] = Frame(r) /\ Frame(r).pc = "prior" /\ Frame(r).cited = Frame(r).req.cited
    BY <2>1, StartFrame DEF Began, Frame
  <2>3. Reads'
    BY <1>1, <2>2 DEF Reads, Undisturbed
  <2>4. Entries' = Entries
    BY <1>2, <2>1 DEF Began
  <2>5. Cardinality(Entries) < started'
    BY <1>1, <2>1 DEF Counted
  <2>6. Counted'
    BY <1>1, <2>1, <2>4, <2>5 DEF Counted
  <2> QED BY <2>3, <2>6
<1>4. ASSUME Ended(s)
      PROVE  Reads' /\ Counted'
  <2>1. DOMAIN sess' = {} /\ started' = started /\ log' = log
    BY <1>1, <1>4 DEF Ended
  <2>2. Entries' = Entries
    BY <1>2, <2>1
  <2>3. Reads'
    BY <2>1 DEF Reads
  <2>4. Counted'
    BY <1>1, <2>1, <2>2 DEF Counted
  <2> QED BY <2>3, <2>4
<1>5. ASSUME NEW from, NEW to, NEW changed, Moved(s, from, to, changed),
             log' = log, started' = started, to \in Unlogged => from \in Unlogged
      PROVE  Counted'
  <2>1. DOMAIN sess' = {s} /\ DOMAIN sess = {s} /\ sess[s].pc = from /\ sess'[s].pc = to
    BY <1>1, <1>5 DEF Moved
  <2>2. Entries' = Entries
    BY <1>2, <1>5
  <2> QED BY <1>1, <1>5, <2>1, <2>2 DEF Counted
<1>6. CASE ReadPrior(s)
  <2>1. Moved(s, "prior", "recent", {"prior"}) /\ sess'[s].prior = RowOr(states, sess[s].target, Blank)
    BY <1>1, <1>6, ReadPriorMoves
  <2>2. states' = states /\ log' = log /\ started' = started
    BY <1>6 DEF ReadPrior
  <2>3. Counted'
    BY <1>5, <2>1, <2>2 DEF Unlogged
  <2>4. Undisturbed(sess[s]) /\ Kept(sess'[s], sess[s], {"prior"})
    BY <2>1 DEF Moved, Reads, IInv
  <2>5. Reads'
    BY <1>1, <2>1, <2>2, <2>4 DEF Reads, Undisturbed, Moved, Kept
  <2> QED BY <2>3, <2>5
<1>7. CASE ReadRecent(s)
  <2>1. Moved(s, "recent", "upsert", {"recent"}) /\ sess'[s].recent = log[sess[s].target]
    BY <1>1, <1>7, ReadRecentMoves
  <2>2. states' = states /\ log' = log /\ started' = started
    BY <1>7 DEF ReadRecent
  <2>3. Counted'
    BY <1>5, <2>1, <2>2 DEF Unlogged
  <2>4. Undisturbed(sess[s]) /\ Kept(sess'[s], sess[s], {"recent"})
    BY <2>1 DEF Moved, Reads, IInv
  <2>5. Reads'
    BY <1>1, <2>1, <2>2, <2>4 DEF Reads, Undisturbed, Moved, Kept
  <2> QED BY <2>3, <2>5
<1>8. CASE UpsertGraded(s)
  <2>1. Moved(s, "upsert", "append", {"prior", "recent"})
    BY <1>1, <1>8, UpsertGradedMoves
  <2>2. log' = log /\ started' = started
    BY <1>8 DEF UpsertGraded
  <2>3. Counted'
    BY <1>5, <2>1, <2>2 DEF Unlogged
  <2>4. Reads'
    BY <1>1, <2>1 DEF Reads, Undisturbed, Moved
  <2> QED BY <2>3, <2>4
<1>9. CASE AppendLog(s)
  <2>1. Moved(s, "append", "cite", {})
    BY <1>1, <1>9, AppendLogMoves
  <2>2. Reads'
    BY <1>1, <2>1 DEF Reads, Undisturbed, Moved
  <2>3. log' = [log EXCEPT ![sess[s].target] = Append(@, sess[s].req.score)] /\ started' = started
    BY <1>9 DEF AppendLog
  <2>4. s \in DOMAIN sess /\ sess[s].pc = "append" /\ sess[s] \in Frames
    BY <1>1, <2>1 DEF Moved, TypeOK, FrameOK
  <2>5. sess[s].target \in Concepts /\ sess[s].req.score \in Score
    BY <2>4, FrameFields
  <2>6. Cardinality(Entries') <= Cardinality(Entries) + 1
    BY <1>1, <2>3, <2>5, OneEntryMore DEF TypeOK
  <2>7. Cardinality(Entries) < started
    BY <1>1, <2>4 DEF Counted, Unlogged
  <2>8. Cardinality(Entries') \in Nat
    BY EntriesCounted DEF Entries
  <2>9. sess'[s].pc = "cite" /\ Cardinality(Entries') <= started'
    BY <1>1, <2>1, <2>3, <2>6, <2>7, <2>8 DEF Moved
  <2>10. Counted'
    BY <1>1, <2>9 DEF Counted, Unlogged
  <2> QED BY <2>2, <2>10
<1>10. CASE RecordCitation(s)
  <2>1. Moved(s, "cite", "cite", {"cited"})
    BY <1>1, <1>10, RecordCitationMoves
  <2>2. log' = log /\ started' = started
    BY <1>10 DEF RecordCitation
  <2>3. Counted'
    BY <1>5, <2>1, <2>2
  <2>4. Reads'
    BY <1>1, <2>1 DEF Reads, Undisturbed, Moved
  <2> QED BY <2>3, <2>4
<1>11. CASE Propagate(s)
  <2>1. Moved(s, "cite", "ripple", {"owed"})
    BY <1>1, <1>11, PropagateMoves
  <2>2. log' = log /\ started' = started /\ sess[s].cited = <<>>
    BY <1>11 DEF Propagate
  <2>3. Counted'
    BY <1>5, <2>1, <2>2 DEF Unlogged
  <2>4. Reads'
    BY <1>1, <2>1, <2>2 DEF Reads, Undisturbed, Moved, Kept
  <2> QED BY <2>3, <2>4
<1>12. CASE ReadCredited(s)
  <2>1. /\ Moved(s, "ripple", "credit", {"target", "prior"})
        /\ sess'[s].prior = RowOr(states, sess'[s].target, Blank)
    BY <1>1, <1>12, ReadCreditedMoves
  <2>2. states' = states /\ log' = log /\ started' = started
    BY <1>12 DEF ReadCredited
  <2>3. Counted'
    BY <1>5, <2>1, <2>2 DEF Unlogged
  <2>4. Undisturbed(sess[s]) /\ sess'[s].cited = sess[s].cited /\ sess[s].pc = "ripple"
    BY <1>1, <2>1 DEF Moved, Kept, Reads
  <2>5. Reads'
    BY <1>1, <2>1, <2>2, <2>4 DEF Reads, Undisturbed, Moved
  <2> QED BY <2>3, <2>5
<1>13. CASE WriteCredited(s)
  <2>1. Moved(s, "credit", "ripple", {"owed", "prior"})
    BY <1>1, <1>13, WriteCreditedMoves
  <2>2. log' = log /\ started' = started
    BY <1>13 DEF WriteCredited
  <2>3. Counted'
    BY <1>5, <2>1, <2>2 DEF Unlogged
  <2>4. Undisturbed(sess[s]) /\ sess'[s].cited = sess[s].cited /\ sess[s].pc = "credit"
    BY <1>1, <2>1 DEF Moved, Kept, Reads
  <2>5. Reads'
    BY <1>1, <2>1, <2>4 DEF Reads, Undisturbed, Moved
  <2> QED BY <2>3, <2>5
<1> QED
  BY <1>3, <1>4, <1>6, <1>7, <1>8, <1>9, <1>10, <1>11, <1>12, <1>13, SessionEnds DEF OneStep

---------------------------------------------------------------------------
\* The refinement, statement by statement

Unchanged == FinalLog' = FinalLog /\ FinalEdges' = FinalEdges /\ FinalStates' = FinalStates

\* Before the first write, and after an early end, the abstract tables are the tables.
LEMMA ReadsStutter ==
  ASSUME IInv, TypeOK', NEW s, Sessions = {s},
         (\E r \in Requests : Start(s, r)) \/ ReadPrior(s) \/ ReadRecent(s)
  PROVE  Unchanged
<1>1. TypeOK /\ DOMAIN sess \subseteq Sessions /\ DOMAIN sess' \subseteq Sessions
  BY DEF IInv, TypeOK
<1>2. states' = states /\ log' = log /\ edges' = edges
  BY DEF Start, ReadPrior, ReadRecent
<1>3. ~(s \in DOMAIN sess /\ sess[s].pc \in LateSteps) /\ ~(s \in DOMAIN sess' /\ sess'[s].pc \in LateSteps)
  <2>1. ASSUME NEW r \in Requests, Start(s, r)
        PROVE  s \notin DOMAIN sess /\ sess'[s].pc = "prior"
    BY <2>1, StartBegins, StartFrame DEF Began
  <2>2. ASSUME ReadPrior(s)
        PROVE  sess[s].pc = "prior" /\ sess'[s].pc = "recent"
    BY <1>1, <2>2, ReadPriorMoves DEF Moved
  <2>3. ASSUME ReadRecent(s)
        PROVE  sess[s].pc = "recent" /\ sess'[s].pc = "upsert"
    BY <1>1, <2>3, ReadRecentMoves DEF Moved
  <2> QED BY <2>1, <2>2, <2>3 DEF LateSteps
<1> QED BY <1>1, <1>2, <1>3, FinalNow, FinalThen DEF Unchanged

\* Once the row is written the grade has taken effect, all of it.
LEMMA UpsertGrades ==
  ASSUME IInv, TypeOK', NEW s, Sessions = {s}, UpsertGraded(s)
  PROVE  \E c \in Concepts, score \in {r.score : r \in Requests}, cited \in {r.cited : r \in Requests} :
            C!Grade(c, score, cited) \/ C!GradeRaises(c, score, cited)
<1> DEFINE f == sess[s]
           g == sess'[s]
           c == f.req.concept
           score == f.req.score
           cited == f.req.cited
<1>1. /\ TypeOK /\ Reads /\ Counted /\ DOMAIN sess \subseteq Sessions /\ DOMAIN sess' \subseteq Sessions
      /\ Moved(s, "upsert", "append", {"prior", "recent"})
  BY UpsertGradedMoves DEF IInv, TypeOK
<1>2. /\ s \in DOMAIN sess /\ f.pc = "upsert" /\ f \in Frames /\ f.target = c
      /\ f.prior = RowOr(states, c, Blank) /\ f.recent = log[c] /\ f.cited = cited
  BY <1>1 DEF Moved, TypeOK, FrameOK, Reads, Undisturbed
<1>3. s \in DOMAIN sess' /\ g.pc = "append" /\ g.req = f.req /\ g.target = c /\ g.cited = cited
  BY <1>1, <1>2 DEF Moved, Kept
<1>4. f.req \in Requests /\ c \in Concepts /\ score \in Score /\ cited \in Seq(Ids \X BOOLEAN)
  BY <1>2, FrameFields DEF FrameOK
<1> DEFINE row == GradedRow(RowOr(states, c, Blank), score, log[c])
           rows == Upsert(states, [x \in {c} |-> row])
<1>5. states' = rows /\ log' = log /\ edges' = edges
  <2>1. states' = Upsert(states, [x \in {f.target} |-> GradedRow(f.prior, score, f.recent)])
    BY DEF UpsertGraded, WriteRow
  <2>2. log' = log /\ edges' = edges
    BY DEF UpsertGraded
  <2> QED BY <1>2, <2>1, <2>2
<1>6. FinalLog = log /\ FinalEdges = edges /\ FinalStates = states
  BY <1>1, <1>2, FinalNow DEF LateSteps
<1>7. /\ FinalLog' = LogAfter(log', g) /\ FinalEdges' = EdgesAfter(edges', g)
      /\ FinalStates' = Paid(states', OwedAfter(edges', g))
  BY <1>1, <1>3, FinalThen DEF LateSteps
<1>8. C!GradedStates(c, score) = rows
  BY <1>6, SameTables, SameReviews DEF C!GradedStates
<1>9. C!LogGrade(c, score)
  BY <1>3, <1>5, <1>6, <1>7 DEF C!LogGrade, LogAfter
<1>10. C!MayGrade
  <2>1. C!ReviewLog = Entries
    BY <1>6 DEF C!ReviewLog, Entries, EntriesOf
  <2>2. Cardinality(Entries) < started
    BY <1>1, <1>2 DEF Counted, Unlogged
  <2>3. started \in 0 .. MaxRequests /\ Cardinality(Entries) \in Nat
    BY <1>1, EntriesCounted DEF TypeOK, Entries
  <2>4. C!Cardinality(C!ReviewLog) < MaxRequests
    BY <2>1, <2>2, <2>3, SameTables, MaxRequestsType
  <2> QED BY <2>4 DEF C!MayGrade
<1>11. [mode |-> "none"]' = C!Nothing
  BY DEF C!Nothing
<1> DEFINE table == RecordExposure(edges, cited, Parsed(cited))
<1>12. FinalEdges' = table
  BY <1>3, <1>5, <1>7 DEF EdgesAfter
<1>13. rows \in [DOMAIN rows -> State]
  BY <1>5 DEF TypeOK
<1> DEFINE none == [x \in {} |-> AGAIN]
<1>14. OwedAfter(edges', g) = IF EnableFire /\ Parsed(cited) = Len(cited)
                              THEN Credit(table, c, GradeToRating(score))
                              ELSE none
  BY <1>3, <1>5 DEF OwedAfter, EdgesAfter
<1>15. DOMAIN none = {}
  OBVIOUS
<1> HIDE DEF f, g, c, score, cited, row, rows, table, none
<1>16. CASE Parsed(cited) = Len(cited)
  <2>1. FinalEdges' = C!RecordExposure(FinalEdges, cited, Len(cited))
    BY <1>6, <1>12, <1>16, SameExposure DEF table
  <2>2. FinalStates' = C!RippledStates(C!GradedStates(c, score), FinalEdges', c, score)
    <3>1. CASE EnableFire
      BY <1>5, <1>7, <1>8, <1>12, <1>14, <1>16, <3>1, SameRipple, SameReviews DEF C!RippledStates
    <3>2. CASE ~EnableFire
      <4>1. FinalStates' = rows
        BY <1>5, <1>7, <1>13, <1>14, <1>15, <3>2, NothingPaid
      <4> QED BY <1>8, <3>2, <4>1 DEF C!RippledStates
    <3> QED BY <3>1, <3>2
  <2>3. C!Grade(c, score, cited)
    BY <1>9, <1>10, <1>11, <1>16, <2>1, <2>2, SameParsed DEF C!Grade
  <2> QED BY <1>4, <2>3 DEF c, score, cited
<1>17. CASE Parsed(cited) # Len(cited)
  <2>1. Parsed(cited) < Len(cited)
    <3>1. Parsed(cited) \in 0 .. Len(cited) /\ Len(cited) \in Nat
      BY <1>4, ParsedIs
    <3> QED BY <1>17, <3>1
  <2>2. FinalEdges' = C!RecordExposure(FinalEdges, cited, C!Parsed(cited))
    BY <1>6, <1>12, SameExposure, SameParsed DEF table
  <2>3. FinalStates' = C!GradedStates(c, score)
    BY <1>5, <1>7, <1>8, <1>13, <1>14, <1>15, <1>17, NothingPaid
  <2>4. C!GradeRaises(c, score, cited)
    BY <1>9, <1>10, <1>11, <2>1, <2>2, <2>3, SameParsed DEF C!GradeRaises
  <2> QED BY <1>4, <2>4 DEF c, score, cited
<1> QED BY <1>16, <1>17

\* What the frame of the only session says of the abstract tables, before and
\* after a statement that follows the first write.
LateMove(s) ==
  /\ s \in DOMAIN sess /\ sess[s].pc \in LateSteps /\ FrameOK(sess[s]) /\ Undisturbed(sess[s])
  /\ FinalLog = LogAfter(log, sess[s]) /\ FinalLog' = LogAfter(log', sess'[s])
  /\ FinalEdges = EdgesAfter(edges, sess[s]) /\ FinalEdges' = EdgesAfter(edges', sess'[s])
  /\ FinalStates = Paid(states, OwedAfter(edges, sess[s]))
  /\ FinalStates' = Paid(states', OwedAfter(edges', sess'[s]))

LEMMA LateMoves ==
  ASSUME IInv, TypeOK', NEW s, Sessions = {s},
         NEW from \in LateSteps, NEW to \in LateSteps, NEW changed, Moved(s, from, to, changed)
  PROVE  LateMove(s)
<1>1. DOMAIN sess \subseteq Sessions /\ DOMAIN sess' \subseteq Sessions
  BY DEF IInv, TypeOK
<1>2. s \in DOMAIN sess /\ sess[s].pc \in LateSteps /\ s \in DOMAIN sess' /\ sess'[s].pc \in LateSteps
  BY DEF Moved
<1>3. FrameOK(sess[s]) /\ Undisturbed(sess[s])
  BY <1>2 DEF IInv, TypeOK, Reads
<1> QED BY <1>1, <1>2, <1>3, FinalNow, FinalThen DEF LateMove

\* The log entry is the one the abstract grade had written.
LEMMA AppendStutters ==
  ASSUME IInv, TypeOK', NEW s, Sessions = {s}, AppendLog(s)
  PROVE  Unchanged
<1>1. Moved(s, "append", "cite", {}) /\ states' = states /\ edges' = edges
  BY AppendLogMoves DEF IInv, AppendLog
<1>2. LateMove(s)
  BY <1>1, LateMoves DEF LateSteps
<1> DEFINE f == sess[s]
           g == sess'[s]
<1>3. /\ f.pc = "append" /\ g.pc = "cite" /\ f.target = f.req.concept
      /\ g.req = f.req /\ g.cited = f.cited
  BY <1>1, <1>2 DEF Moved, Kept, LateMove, FrameOK
<1>4. log' = [log EXCEPT ![f.target] = Append(@, f.req.score)]
  BY DEF AppendLog
<1> HIDE DEF f, g
<1>5. LogAfter(log', g) = LogAfter(log, f)
  BY <1>3, <1>4 DEF LogAfter
<1>6. EdgesAfter(edges', g) = EdgesAfter(edges, f)
  BY <1>1, <1>3 DEF EdgesAfter
<1>7. OwedAfter(edges', g) = OwedAfter(edges, f)
  BY <1>3, <1>6 DEF OwedAfter
<1> QED BY <1>1, <1>2, <1>5, <1>6, <1>7 DEF Unchanged, LateMove, f, g

\* A citation recorded is one less to record.
LEMMA RecordStutters ==
  ASSUME IInv, TypeOK', NEW s, Sessions = {s}, RecordCitation(s)
  PROVE  Unchanged
<1>1. /\ Moved(s, "cite", "cite", {"cited"}) /\ sess'[s].cited = Tail(sess[s].cited)
      /\ states' = states /\ log' = log
  BY RecordCitationMoves DEF IInv, RecordCitation
<1>2. LateMove(s)
  BY <1>1, LateMoves DEF LateSteps
<1> DEFINE f == sess[s]
           g == sess'[s]
<1>3. /\ f.pc = "cite" /\ g.pc = "cite" /\ g.req = f.req /\ g.cited = Tail(f.cited)
      /\ f.cited \in Seq(Ids \X BOOLEAN)
  BY <1>1, <1>2, FrameFields DEF Moved, Kept, LateMove, FrameOK
<1>4. f.cited # <<>> /\ f.cited[1][1] \in EdgeKeys /\ edges' = RecordExposure(edges, f.cited, 1)
  BY <1>3 DEF RecordCitation
<1>5. EdgeTable(edges)
  BY DEF IInv, TypeOK
<1> HIDE DEF f, g
<1>6. /\ Parsed(f.cited) = Parsed(g.cited) + 1
      /\ RecordExposure(edges', g.cited, Parsed(g.cited)) = RecordExposure(edges, f.cited, Parsed(f.cited))
  BY <1>3, <1>4, <1>5, RecordFirst
<1>7. LogAfter(log', g) = LogAfter(log, f)
  BY <1>1, <1>3 DEF LogAfter
<1>8. EdgesAfter(edges', g) = EdgesAfter(edges, f)
  BY <1>6 DEF EdgesAfter
<1>9. Parsed(g.cited) = Len(g.cited) <=> Parsed(f.cited) = Len(f.cited)
  <2>1. Len(g.cited) = Len(f.cited) - 1 /\ Len(f.cited) \in Nat /\ g.cited \in Seq(Ids \X BOOLEAN)
    BY <1>3, <1>4
  <2>2. Parsed(g.cited) \in 0 .. Len(g.cited)
    BY <2>1, ParsedIs
  <2> DEFINE p == Parsed(f.cited)
             q == Parsed(g.cited)
             m == Len(f.cited)
             n == Len(g.cited)
  <2>3. p = q + 1 /\ n = m - 1 /\ m \in Nat /\ q \in 0 .. n
    BY <1>6, <2>1, <2>2
  <2> HIDE DEF p, q, m, n
  <2>4. q = n <=> p = m
    BY <2>3
  <2> QED BY <2>4 DEF p, q, m, n
<1>10. OwedAfter(edges', g) = OwedAfter(edges, f)
  BY <1>3, <1>8, <1>9 DEF OwedAfter
<1> QED BY <1>1, <1>2, <1>7, <1>8, <1>10 DEF Unchanged, LateMove, f, g

\* What propagate() computes is what the abstract grade credited.
LEMMA PropagateStutters ==
  ASSUME IInv, TypeOK', NEW s, Sessions = {s}, Propagate(s)
  PROVE  Unchanged
<1>1. /\ Moved(s, "cite", "ripple", {"owed"}) /\ sess'[s].owed = CreditOf(sess[s].req)
      /\ states' = states /\ log' = log /\ edges' = edges
  BY PropagateMoves DEF IInv, Propagate
<1>2. LateMove(s)
  BY <1>1, LateMoves DEF LateSteps
<1> DEFINE f == sess[s]
           g == sess'[s]
<1>3. /\ f.pc = "cite" /\ g.pc = "ripple" /\ g.req = f.req /\ g.cited = f.cited
      /\ f.cited = <<>> /\ f.cited \in Seq(Ids \X BOOLEAN) /\ g.owed = CreditOf(f.req)
  BY <1>1, <1>2, FrameFields DEF Moved, Kept, LateMove, FrameOK, Propagate
<1>4. EdgeTable(edges)
  BY DEF IInv, TypeOK
<1> HIDE DEF f, g
<1>5. Parsed(f.cited) = 0 /\ Len(f.cited) = 0
  BY <1>3, NoneParsed
<1>6. EdgesAfter(edges, f) = edges /\ EdgesAfter(edges', g) = edges
  BY <1>1, <1>3, <1>4, <1>5, NothingRecorded DEF EdgesAfter
<1>7. LogAfter(log', g) = LogAfter(log, f)
  BY <1>1, <1>3 DEF LogAfter
<1>8. OwedAfter(edges, f) = CreditOf(f.req)
  BY <1>3, <1>5, <1>6 DEF OwedAfter, CreditOf
<1>9. OwedAfter(edges', g) = CreditOf(f.req)
  BY <1>3 DEF OwedAfter
<1> QED BY <1>1, <1>2, <1>6, <1>7, <1>8, <1>9 DEF Unchanged, LateMove, f, g

LEMMA ReadCreditedStutters ==
  ASSUME IInv, TypeOK', NEW s, Sessions = {s}, ReadCredited(s)
  PROVE  Unchanged
<1>1. /\ Moved(s, "ripple", "credit", {"target", "prior"})
      /\ states' = states /\ log' = log /\ edges' = edges
  BY ReadCreditedMoves DEF IInv, ReadCredited
<1>2. LateMove(s)
  BY <1>1, LateMoves DEF LateSteps
<1> DEFINE f == sess[s]
           g == sess'[s]
<1>3. /\ f.pc = "ripple" /\ g.pc = "credit" /\ g.req = f.req /\ g.cited = f.cited /\ g.owed = f.owed
  BY <1>1 DEF Moved, Kept
<1> HIDE DEF f, g
<1>4. LogAfter(log', g) = LogAfter(log, f) /\ EdgesAfter(edges', g) = EdgesAfter(edges, f)
  BY <1>1, <1>3 DEF LogAfter, EdgesAfter
<1>5. OwedAfter(edges', g) = OwedAfter(edges, f)
  BY <1>3 DEF OwedAfter
<1> QED BY <1>1, <1>2, <1>4, <1>5 DEF Unchanged, LateMove, f, g

\* A credit written is one less to pay.
LEMMA WriteCreditedStutters ==
  ASSUME IInv, TypeOK', NEW s, Sessions = {s}, WriteCredited(s)
  PROVE  Unchanged
<1>1. /\ Moved(s, "credit", "ripple", {"owed", "prior"})
      /\ sess'[s].owed = Without(sess[s].owed, sess[s].target)
      /\ log' = log /\ edges' = edges
  BY WriteCreditedMoves DEF IInv, WriteCredited
<1>2. LateMove(s)
  BY <1>1, LateMoves DEF LateSteps
<1> DEFINE f == sess[s]
           g == sess'[s]
           x == f.target
           row == Review(f.prior, f.owed[x])
<1>3. /\ f.pc = "credit" /\ g.pc = "ripple" /\ g.req = f.req /\ g.cited = f.cited
      /\ g.owed = Without(f.owed, x) /\ f \in Frames
      /\ x \in DOMAIN f.owed /\ f.prior = RowOr(states, x, Blank)
  BY <1>1, <1>2 DEF Moved, Kept, LateMove, FrameOK, Undisturbed
<1>4. WriteRow(s, x, row)
  BY DEF WriteCredited
<1>5. x \in Concepts /\ row \in State /\ TypeOK
  BY <1>2, <1>3, FrameFields, WrittenRows DEF IInv, LateMove
<1>6. row = Review(RowOr(states, x, Blank), f.owed[x]) /\ states \in [DOMAIN states -> State]
  BY <1>3, <1>5 DEF TypeOK
<1> HIDE DEF f, g, x, row
<1>7. /\ DOMAIN states' = DOMAIN states \cup {x}
      /\ states'[x] = row
      /\ \A y \in DOMAIN states \ {x} : states'[y] = states[y]
  BY <1>4, <1>5, WriteRowOne
<1>8. Paid(states', Without(f.owed, x)) = Paid(states, f.owed)
  BY <1>3, <1>6, <1>7, PayOne
<1>9. LogAfter(log', g) = LogAfter(log, f) /\ EdgesAfter(edges', g) = EdgesAfter(edges, f)
  BY <1>1, <1>3 DEF LogAfter, EdgesAfter
<1>10. OwedAfter(edges', g) = Without(f.owed, x) /\ OwedAfter(edges, f) = f.owed
  BY <1>3 DEF OwedAfter
<1> QED BY <1>2, <1>8, <1>9, <1>10 DEF Unchanged, LateMove, f, g

\* A grade that returns has nothing left to do, and one that is refused at a
\* citation does nothing more.
LEMMA EndStutters ==
  ASSUME IInv, TypeOK', NEW s, Sessions = {s}, RaiseOnCitation(s) \/ Return(s)
  PROVE  Unchanged
<1>1. Ended(s) /\ TypeOK /\ EdgeTable(edges) /\ states \in [DOMAIN states -> State]
  BY SessionEnds DEF IInv, TypeOK
<1>2. states' = states /\ log' = log /\ edges' = edges /\ s \notin DOMAIN sess'
  BY <1>1 DEF Ended
<1>3. DOMAIN sess \subseteq Sessions /\ DOMAIN sess' \subseteq Sessions
  BY DEF IInv, TypeOK
<1>4. FinalLog' = log /\ FinalEdges' = edges /\ FinalStates' = states
  BY <1>2, <1>3, FinalThen
<1> DEFINE f == sess[s]
<1>5. s \in DOMAIN sess /\ f.pc \in {"cite", "ripple"} /\ FrameOK(f) /\ Undisturbed(f)
  BY <1>1 DEF IInv, TypeOK, Reads, RaiseOnCitation, Return, At
<1>6. /\ FinalLog = LogAfter(log, f) /\ FinalEdges = EdgesAfter(edges, f)
      /\ FinalStates = Paid(states, OwedAfter(edges, f))
  BY <1>3, <1>5, FinalNow DEF LateSteps
<1>7. f.cited \in Seq(Ids \X BOOLEAN)
  BY <1>5, FrameFields DEF FrameOK
<1>8. LogAfter(log, f) = log
  BY <1>5 DEF LogAfter
<1>9. f.cited = <<>> \/ f.cited[1][1] \notin EdgeKeys
  BY <1>5, <1>7 DEF RaiseOnCitation, Return, At, Undisturbed
<1>10. EdgesAfter(edges, f) = edges /\ Parsed(f.cited) = 0
  BY <1>1, <1>7, <1>9, NoneParsed, NothingRecorded DEF EdgesAfter
<1>11. DOMAIN OwedAfter(edges, f) = {}
  <2>1. CASE RaiseOnCitation(s)
    <3>1. f.pc = "cite" /\ Len(f.cited) # 0
      BY <1>7, <2>1 DEF RaiseOnCitation, At
    <3> QED BY <1>10, <3>1 DEF OwedAfter
  <2>2. CASE Return(s)
    <3>1. f.pc = "ripple" /\ DOMAIN f.owed = {}
      BY <2>2 DEF Return, At
    <3> QED BY <3>1 DEF OwedAfter
  <2> QED BY <2>1, <2>2
<1>12. Paid(states, OwedAfter(edges, f)) = states
  BY <1>1, <1>11, NothingPaid
<1> QED BY <1>4, <1>6, <1>8, <1>10, <1>12 DEF Unchanged

---------------------------------------------------------------------------
\* The initial states are initial states of the handlers.
LEMMA InitRefines == Init => C!Init
<1> SUFFICES ASSUME Init PROVE C!Init
  OBVIOUS
<1>1. Committed = {}
  BY DEF Init, Committed
<1>2. FinalStates = states /\ FinalLog = log /\ FinalEdges = edges
  BY <1>1 DEF FinalStates, FinalLog, FinalEdges
<1>3. C!Nothing = [mode |-> "none"]
  BY DEF C!Nothing
<1>4. C!NoCheck = [step |-> "idle", unseen |-> {}, mastered |-> {}, near |-> {}, pending |-> {}, ready |-> {},
                   rows |-> {}, graded |-> {}]
  BY DEF C!NoCheck
<1> QED BY <1>2, <1>3, <1>4, SameTables DEF Init, C!Init

\* A statement is a whole grade or none of it, and keeps what the next one reads.
LEMMA StepRefines ==
  ASSUME Alone, IInv, [Next]_vars
  PROVE  IInv' /\ [C!Next]_C!vars
<1>1. PICK s : Sessions = {s}
  BY AloneIs
<1>2. TypeOK'
  BY NextType DEF IInv
<1>3. ASSUME Unchanged
      PROVE  UNCHANGED C!vars
  BY <1>3 DEF C!vars, Unchanged
<1>4. CASE UNCHANGED vars
  <2>1. states' = states /\ log' = log /\ edges' = edges /\ sess' = sess /\ started' = started
    BY <1>4 DEF vars
  <2>2. Reads' /\ Counted'
    BY <2>1 DEF IInv, Reads, Undisturbed, Counted, Entries
  <2>3. Committed' = Committed /\ Working' = Working
    BY <2>1 DEF Committed, Working
  <2>4. Unchanged
    BY <2>1, <2>3 DEF Unchanged, FinalLog, FinalEdges, FinalStates
  <2> QED BY <1>2, <1>3, <2>2, <2>4 DEF IInv
<1>5. CASE Next
  <2>1. OneStep(s)
    BY <1>1, <1>5 DEF Next, Step, OneStep, Alone, Crash
  <2>2. IInv'
    BY <1>1, <1>2, <2>1, StepCounts DEF IInv
  <2>3. CASE UpsertGraded(s)
    <3>1. C!Next
      BY <1>1, <1>2, <2>3, UpsertGrades DEF C!Next
    <3> QED BY <2>2, <3>1
  <2>4. CASE ~UpsertGraded(s)
    <3>1. Unchanged
      BY <1>1, <1>2, <2>1, <2>4, ReadsStutter, AppendStutters, RecordStutters, PropagateStutters,
         ReadCreditedStutters, WriteCreditedStutters, EndStutters DEF OneStep
    <3> QED BY <1>3, <2>2, <3>1
  <2> QED BY <2>3, <2>4
<1> QED BY <1>4, <1>5

\* A session that is alone grades atomically: grade(), a sequence of autocommit
\* statements, implements the handler that writes row, log entry, citations and
\* ripple in one step, or stops at the citation that raises (service.py:304-385).
THEOREM SoloGradesAtomically == ASSUME Alone PROVE Spec => GradesAtomically
<1>1. Init => IInv
  BY InitType, InitCounts DEF IInv
<1>2. IInv /\ [Next]_vars => IInv' /\ [C!Next]_C!vars
  BY StepRefines
<1> QED BY <1>1, <1>2, InitRefines, PTL DEF Spec, GradesAtomically, C!Spec
=============================================================================

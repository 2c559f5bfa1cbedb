----------------------------- MODULE Curriculum -----------------------------
(***************************************************************************)
(* The curriculum service (application/service.py) over the tables of one  *)
(* course: grade() and next_action() as the tutor calls them, the passage of *)
(* time that makes reviews due, and the two readings of the prerequisite gate *)
(* that checkin() reports. A check-in runs in a process of its own and reads  *)
(* statement by statement, over autocommit; the other handlers run one at a  *)
(* time between its statements.                                             *)
(*                                                                          *)
(* learner_state is the function states from the concepts that have a row,  *)
(* review_log is log, the edge table is edges, and served is what the        *)
(* handler that just returned told the tutor to do next. Module             *)
(* GradeSessions models the same grade() as the separate statements of       *)
(* several connections.                                                     *)
(***************************************************************************)
EXTENDS CourseGraph

CONSTANTS
  EnableFire,      \* config.enable_fire of the course's archetype
  SkipThreshold,   \* skips after which a connection is escalated
  Scores,          \* the grades the tutor gives
  Ids,             \* the edge ids a tutor names, not all of them in EdgeKeys
  Citations,       \* the lists of <<edge id, skipped>> a grade may cite
  Foci,            \* the scopes next_action() is asked for
  MaxReviews,      \* bound: review_log entries in a behaviour
  MaxChecked       \* bound: review_log entries while a check-in runs

ASSUME EnableFireType == EnableFire \in BOOLEAN
ASSUME SkipThresholdType == SkipThreshold \in Nat \ {0}
ASSUME ScoresType == Scores \subseteq Score
ASSUME CitationsType == Citations \subseteq Seq(Ids \X BOOLEAN)
ASSUME MaxReviewsType == MaxReviews \in Nat /\ MaxChecked \in Nat

VARIABLES
  states,   \* learner_state: concept id -> State
  log,      \* review_log: for every concept its grades, oldest first
  edges,    \* edge: edge id -> EdgeRow
  served,   \* what next_action() has just answered
  check     \* the checkin() that runs, with what it has read so far

tables == <<states, log, edges>>
vars == <<states, log, edges, served, check>>

Modes == {"teach", "review", "test"}
Candidate == [mode : Modes, concept : Concepts, hard : BOOLEAN]
Nothing == [mode |-> "none"]

\* unseen and mastered are what checkin() asks of states_map; rows are the
\* prerequisites of the concept at hand whose rows it has yet to read; graded
\* is history: the concepts graded since states_map was read.
Check == [step : {"idle", "near", "ready"}, unseen : SUBSET Concepts, mastered : SUBSET Concepts,
          near : SUBSET Concepts, pending : SUBSET Concepts, ready : SUBSET Concepts,
          rows : SUBSET (Concepts \X Concepts), graded : SUBSET Concepts]
NoCheck == [step |-> "idle", unseen |-> {}, mastered |-> {}, near |-> {}, pending |-> {}, ready |-> {},
            rows |-> {}, graded |-> {}]

---------------------------------------------------------------------------
\* Readings of the gate

MasteryOf(c) == IF c \in DOMAIN states THEN states[c].mastery ELSE "new"

PrereqsSatisfied(c) ==
  \A p \in GatingPrereqs(edges, c) : p \in DOMAIN states /\ IsMastered(states[p].mastery)

\* Concepts without a row whose prerequisites are mastered: what TEACH offers.
Fringe == {c \in Concepts : c \notin DOMAIN states /\ PrereqsSatisfied(c)}

\* No retention signal yet: _never_seen, and the same rule in unlock_proximity.
NeverSeen(c) == c \notin DOMAIN states \/ states[c].recall = "none"

---------------------------------------------------------------------------
\* next_action()

Escalated == {e \in DOMAIN edges : edges[e].skips >= SkipThreshold}

\* _build_candidates: due reviews, the learnable fringe, escalated connections.
Candidates(focus) ==
  {[mode |-> "review", concept |-> c, hard |-> states[c].recall = "hard"] :
      c \in {d \in DOMAIN states \cap focus : states[d].recall \in {"due", "hard"}}}
  \cup {[mode |-> "teach", concept |-> c, hard |-> FALSE] : c \in Fringe \cap focus}
  \cup {[mode |-> "test", concept |-> c, hard |-> TRUE] : c \in {e.src : e \in Escalated} \cap focus}

\* select(): the best hard-due candidate if there is one, else a draw among the
\* best; scores are not modelled, so any of them.
Choices(focus) ==
  LET urgent == {k \in Candidates(focus) : k.hard}
  IN IF urgent # {} THEN urgent ELSE Candidates(focus)

NextAction(focus) ==
  /\ served' \in Choices(focus)
  /\ UNCHANGED <<tables, check>>

\* NoCandidatesAvailable is raised.
NothingToServe(focus) ==
  /\ Candidates(focus) = {}
  /\ served' = Nothing
  /\ UNCHANGED <<tables, check>>

---------------------------------------------------------------------------
\* grade()

ReviewLog == {entry \in Concepts \X (1 .. MaxReviews) : entry[2] <= Len(log[entry[1]])}

MayGrade ==
  IF check.step = "idle" THEN Cardinality(ReviewLog) < MaxReviews ELSE Cardinality(ReviewLog) < MaxChecked

\* Steps 1 and 3 of grade(): the graded row, then the implicit reviews, each
\* read after the row before it was written.
GradedStates(c, score) ==
  Upsert(states, [x \in {c} |-> GradedRow(RowOr(states, c, Blank), score, log[c])])

RippledStates(rows, table, c, score) ==
  IF EnableFire
  THEN Upsert(rows, ImplicitRows(rows, table, c, GradeToRating(score)))
  ELSE rows

LogGrade(c, score) ==
  /\ log' = [log EXCEPT ![c] = Append(@, score)]
  /\ check' = IF check.step = "idle" THEN check ELSE [check EXCEPT !.graded = @ \cup {c}]

\* Seeded variant: the ids are not parsed, and no foreign key stops them.
UnparsedGrade(c, score, cited) ==
  /\ MayGrade
  /\ LogGrade(c, score)
  /\ edges' = RecordExposure(edges, cited, Len(cited))
  /\ states' = RippledStates(GradedStates(c, score), edges', c, score)
  /\ served' = Nothing

\* A grade whose citations all parse: row, log entry, exposures, ripple.
Grade(c, score, cited) ==
  /\ MayGrade
  /\ Parsed(cited) = Len(cited)
  /\ LogGrade(c, score)
  /\ edges' = RecordExposure(edges, cited, Len(cited))
  /\ states' = RippledStates(GradedStates(c, score), edges', c, score)
  /\ served' = Nothing

\* A citation that does not parse, or names no concept, raises after the row
\* and the log entry were written: the citations before it are counted, and
\* nothing ripples.
GradeRaises(c, score, cited) ==
  /\ MayGrade
  /\ Parsed(cited) < Len(cited)
  /\ LogGrade(c, score)
  /\ states' = GradedStates(c, score)
  /\ edges' = RecordExposure(edges, cited, Parsed(cited))
  /\ served' = Nothing

\* Time passes: a review comes due, and later its recall falls below the bar.
Age(c) ==
  /\ c \in DOMAIN states
  /\ \E r \in Recall :
        /\ <<states[c].recall, r>> \in {<<"fresh", "due">>, <<"fresh", "hard">>, <<"due", "hard">>}
        /\ states' = [states EXCEPT ![c].recall = r]
  /\ served' = Nothing
  /\ UNCHANGED <<log, edges, check>>

---------------------------------------------------------------------------
\* checkin()

\* all_for_course: the rows of the course are read once.
OpenCheck ==
  /\ check.step = "idle" /\ Cardinality(ReviewLog) <= MaxChecked
  /\ check' = [NoCheck EXCEPT !.step = "near",
                               !.unseen = {c \in Concepts : NeverSeen(c)},
                               !.mastered = {c \in Concepts : IsMastered(MasteryOf(c))}]
  /\ served' = Nothing
  /\ UNCHANGED tables

\* Seeded variant: unlock_proximity is handed every prerequisite.
MissingFromAll(c) ==
  {e.src : e \in {g \in EveryPrerequisiteGates(edges) : g.dst = c}} \ check.mastered

\* The prerequisites unlock_proximity() counts as missing.
Missing(c) == GatingPrereqs(edges, c) \ check.mastered

\* near_unlocks: the edges of prereq_in as they are, the rows as they were.
ReadNear ==
  /\ check.step = "near"
  /\ check' = [check EXCEPT !.step = "ready", !.pending = check.unseen,
                             !.near = {c \in check.unseen : Missing(c) # {}}]
  /\ served' = Nothing
  /\ UNCHANGED tables

\* unlocks_ready: _prereqs_satisfied reads the edges of a concept anew (the
\* concepts come in the order of their ids, here in any),
ReadGate(c) ==
  /\ check.step = "ready" /\ check.rows = {} /\ c \in check.pending
  /\ check' = [check EXCEPT !.pending = @ \ {c}, !.ready = @ \cup {c},
                             !.rows = {c} \X GatingPrereqs(edges, c)]
  /\ served' = Nothing
  /\ UNCHANGED tables

\* then the row of one prerequisite after the other, until one is not mastered.
ReadRow(c, p) ==
  /\ <<c, p>> \in check.rows
  /\ check' = IF IsMastered(MasteryOf(p))
              THEN [check EXCEPT !.rows = @ \ {<<c, p>>}]
              ELSE [check EXCEPT !.rows = {}, !.ready = @ \ {c}]
  /\ served' = Nothing
  /\ UNCHANGED tables

\* Both readings are complete, and reported.
CheckRead == check.step = "ready" /\ check.pending = {} /\ check.rows = {}

ReportCheck ==
  /\ CheckRead
  /\ check' = NoCheck
  /\ served' = Nothing
  /\ UNCHANGED tables

---------------------------------------------------------------------------
Init ==
  /\ states = [c \in {} |-> Blank]
  /\ log = [c \in Concepts |-> <<>>]
  /\ edges = InitEdges
  /\ served = Nothing
  /\ check = NoCheck

Next ==
  \/ \E c \in Concepts, s \in Scores, cited \in Citations :
        Grade(c, s, cited) \/ GradeRaises(c, s, cited)
  \/ \E c \in Concepts : Age(c)
  \/ \E focus \in Foci : NextAction(focus) \/ NothingToServe(focus)
  \/ OpenCheck \/ ReadNear \/ ReportCheck
  \/ \E c \in Concepts : ReadGate(c)
  \/ \E c, p \in Concepts : ReadRow(c, p)

Spec == Init /\ [][Next]_vars

---------------------------------------------------------------------------
\* Properties

\* Every table has rows of its type, and a stored row has a retention signal.
TypeOK ==
  /\ DOMAIN states \subseteq Concepts
  /\ states \in [DOMAIN states -> State]
  /\ \A c \in DOMAIN states : states[c].recall # "none"
  /\ log \in [Concepts -> Seq(Score)]
  /\ EdgeTable(edges)
  /\ served \in Candidate \cup {Nothing}
  /\ check \in Check

\* learner_state and review_log agree on mastery: whatever ripples arrive, a
\* concept stands where its own last two grades put it on the ladder of
\* next_mastery(), and one that was never graded is "new".
MasteryMatchesLog ==
  \A c \in Concepts :
    LET n == Len(log[c])
        strong == n >= 2 /\ log[c][n] >= 5 /\ log[c][n - 1] >= 5
    IN /\ (MasteryOf(c) = "new") <=> (n = 0)
       /\ (MasteryOf(c) = "exam_ready") <=> strong
       /\ IsMastered(MasteryOf(c)) <=> (n > 0 /\ log[c][n] >= 4)

\* No grade is lost from the memory counters: a concept's reps and lapses cover
\* its own log entries and failed entries, and a lapse is always also a rep.
EveryGradeCounted ==
  \A c \in Concepts :
    LET row == RowOr(states, c, Blank)
    IN /\ Len(log[c]) <= row.reps
       /\ Cardinality({i \in DOMAIN log[c] : log[c][i] <= 2}) <= row.lapses
       /\ row.lapses <= row.reps

\* What checkin() reports of the gate (service.py:438-444, 132-148), whatever
\* is graded between its reads. Both readings are of concepts it found unseen. It
\* calls one both ready and some prerequisites away only if all that it lacked
\* were graded meanwhile, and neither only if one that was mastered was graded
\* meanwhile. And if nothing was, ready is what next_action() may teach.
UnlockReadingsAgree ==
  CheckRead =>
    /\ check.ready \cup check.near \subseteq check.unseen
    /\ \A c \in check.ready \cap check.near :
         LET lacked == GatingPrereqs(edges, c) \ check.mastered
         IN lacked # {} /\ lacked \subseteq check.graded
    /\ \A c \in check.unseen \ (check.ready \cup check.near) :
         \E p \in GatingPrereqs(edges, c) : p \in check.mastered \cap check.graded
    /\ check.graded = {} => check.ready = Fringe

\* There is always a way on: a concept may be taught now, or one that is not
\* mastered has a row and so will come due for review, or everything is mastered
\* but what ingestion left on or behind a cycle of gates. In particular a cold
\* course without such a cycle has an entry point (service.py:137-139).
NeverStuck ==
  \/ Fringe # {}
  \/ \E c \in DOMAIN states : ~IsMastered(states[c].mastery)
  \/ \A c \in Concepts \ Knotted(InitEdges) : IsMastered(MasteryOf(c))

\* A concept is locked or unlocked by explicit grades of its gating
\* prerequisites alone: neither a ripple nor an edge the tutor names opens or
\* closes a gate.
GatesMoveByGradesOnly ==
  [][\A c \in Concepts :
       (PrereqsSatisfied(c) # PrereqsSatisfied(c)')
         => \E p \in GatingPrereqs(InitEdges, c) : log'[p] # log[p]]_vars

\* Where credit for one grade may go: two links down that carry some, or one
\* link up after a failure.
Within(table, c, score) ==
  LET below(x) == {e.dst : e \in {f \in EncompassesOut(table, x) : table[f].weight # "weak"}}
  IN IF score <= 2
     THEN {e.src : e \in EncompassesIn(table, c)}
     ELSE below(c) \cup UNION {below(x) : x \in below(c)}

\* However many ENCOMPASSES paths and cycles lead to it, a concept gains at
\* most one rep in one handler, and none unless it was graded or the one that was
\* graded has it within two links.
OneReviewPerHandler ==
  [][\A x \in Concepts :
       LET old == RowOr(states, x, Blank).reps
           new == RowOr(states', x, Blank).reps
       IN /\ new \in old .. (old + 1)
          /\ new # old =>
               \E c \in Concepts :
                  /\ log'[c] # log[c]
                  /\ x = c \/ x \in Within(edges', c, log'[c][Len(log'[c])])]_vars

\* A lapse is only recorded for a concept that was itself failed, or that
\* directly encompasses the one failed: a pass penalises nothing.
BlameStopsAtParents ==
  [][\A x \in Concepts :
       RowOr(states', x, Blank).lapses > RowOr(states, x, Blank).lapses
         => \E c \in Concepts :
              /\ log'[c] # log[c]
              /\ log'[c][Len(log'[c])] <= 2
              /\ c = x \/ [src |-> x, type |-> "encompasses", dst |-> c] \in DOMAIN edges']_vars

\* A concept is begun only when its gate is open, unless the tutor grades it
\* outright ("a concept already in progress has been unlocked").
BegunOnlyWhenUnlocked ==
  [][\A x \in DOMAIN states' \ DOMAIN states :
       log'[x] = log[x] => PrereqsSatisfied(x)']_vars
=============================================================================

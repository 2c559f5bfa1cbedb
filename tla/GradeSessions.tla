---------------------------- MODULE GradeSessions ----------------------------
(***************************************************************************)
(* grade() as the statements it is made of. Every MCP server process has    *)
(* its own connection in autocommit mode (storage/postgres.py), so each      *)
(* read and each write of grade() is a transaction of its own: the           *)
(* statements of two sessions interleave, and an exception or the end of     *)
(* the process leaves behind what was already written.                       *)
(*                                                                          *)
(* A session with a grade in progress is at one of these steps:             *)
(*   prior     get() of the graded concept is next                          *)
(*   recent    by_concept() of review_log is next                           *)
(*   upsert    the write of the graded row is next                          *)
(*   append    the review_log entry is next                                 *)
(*   cite      a citation is next, or propagate() when none is left         *)
(*   ripple    get() of a credited concept is next, or the return           *)
(*   credit    the write of the credited row is next                        *)
(***************************************************************************)
EXTENDS CourseGraph

CONSTANTS
  Sessions,      \* the connections that grade
  Ids,           \* the edge ids a tutor names, not all of them in EdgeKeys
  Requests,      \* the grades asked for; cited lists <<edge id, skipped>>, the traversed ids
                 \* before the skipped ones
  EnableFire,    \* config.enable_fire of the course's archetype
  CanCrash,      \* whether a process may end in the middle of a grade
  MaxRequests    \* bound: grades started in a behaviour

ASSUME SessionsFinite == IsFiniteSet(Sessions)
ASSUME SessionFlags == EnableFire \in BOOLEAN /\ CanCrash \in BOOLEAN
ASSUME RequestsType ==
  Requests \subseteq [concept : Concepts, score : Score, cited : Seq(Ids \X BOOLEAN)]
ASSUME MaxRequestsType == MaxRequests \in Nat

VARIABLES
  states,    \* learner_state: concept id -> State
  log,       \* review_log: for every concept its grades, in order of arrival
  edges,     \* edge: edge id -> EdgeRow
  sess,      \* the grades in progress: session -> its local variables
  started,   \* how many grades were started
  accepted,  \* for every concept the grades that returned normally
  spoiled    \* concepts whose row was written between another session's read and write of it

vars == <<states, log, edges, sess, started, accepted, spoiled>>

Steps == {"prior", "recent", "upsert", "append", "cite", "ripple", "credit"}

\* The local variables of grade(): target is the concept of prior and of the
\* next write, recent the grades read from review_log, cited the citations not
\* yet recorded, and owed the credits of propagate() not yet written.
Frame(r) ==
  [pc |-> "prior", req |-> r, target |-> r.concept, prior |-> Blank,
   recent |-> <<>>, cited |-> r.cited, owed |-> [x \in {} |-> AGAIN]]

\* A session that has read the row of c and not written it back yet.
Holds(s, c) == sess[s].target = c /\ sess[s].pc \in {"recent", "upsert", "credit"}

Without(f, k) == [x \in DOMAIN f \ {k} |-> f[x]]

At(s, step) == s \in DOMAIN sess /\ sess[s].pc = step

\* The local variables of session s become those of frame f.
Continue(s, f) == sess' = [sess EXCEPT ![s] = f]

---------------------------------------------------------------------------
\* The statements of grade(), in program order

\* The concept exists and its course has a profile: the early raises before
\* any write are requests that never start.
Start(s, r) ==
  /\ s \notin DOMAIN sess
  /\ started < MaxRequests
  /\ sess' = Upsert(sess, [t \in {s} |-> Frame(r)])
  /\ started' = started + 1
  /\ UNCHANGED <<states, log, edges, accepted, spoiled>>

ReadPrior(s) ==
  /\ At(s, "prior")
  /\ Continue(s, [sess[s] EXCEPT !.prior = RowOr(states, sess[s].target, Blank), !.pc = "recent"])
  /\ UNCHANGED <<states, log, edges, started, accepted, spoiled>>

ReadRecent(s) ==
  /\ At(s, "recent")
  /\ Continue(s, [sess[s] EXCEPT !.recent = log[sess[s].target], !.pc = "upsert"])
  /\ UNCHANGED <<states, log, edges, started, accepted, spoiled>>

\* The blind overwrite of one row; a write under another session's feet is noted.
WriteRow(s, c, row) ==
  /\ states' = Upsert(states, [x \in {c} |-> row])
  /\ spoiled' = spoiled \cup {x \in {c} : \E t \in DOMAIN sess \ {s} : Holds(t, x)}

\* Seeded variant: the row is reviewed as if it had never been stored.
UpsertFromBlank(s) ==
  /\ At(s, "upsert")
  /\ WriteRow(s, sess[s].target, GradedRow(Blank, sess[s].req.score, sess[s].recent))
  /\ Continue(s, [sess[s] EXCEPT !.prior = Blank, !.recent = <<>>, !.pc = "append"])
  /\ UNCHANGED <<log, edges, started, accepted>>

UpsertGraded(s) ==
  /\ At(s, "upsert")
  /\ WriteRow(s, sess[s].target, GradedRow(sess[s].prior, sess[s].req.score, sess[s].recent))
  /\ Continue(s, [sess[s] EXCEPT !.prior = Blank, !.recent = <<>>, !.pc = "append"])
  /\ UNCHANGED <<log, edges, started, accepted>>

\* Seeded variant: the log entry is written although the row never was.
AppendWithoutRow(s) ==
  /\ s \in DOMAIN sess /\ sess[s].pc \in {"upsert", "append"}
  /\ log' = [log EXCEPT ![sess[s].target] = Append(@, sess[s].req.score)]
  /\ Continue(s, [sess[s] EXCEPT !.pc = "cite"])
  /\ UNCHANGED <<states, edges, started, accepted, spoiled>>

AppendLog(s) ==
  /\ At(s, "append")
  /\ log' = [log EXCEPT ![sess[s].target] = Append(@, sess[s].req.score)]
  /\ Continue(s, [sess[s] EXCEPT !.pc = "cite"])
  /\ UNCHANGED <<states, edges, started, accepted, spoiled>>

\* One atomic INSERT .. ON CONFLICT DO UPDATE.
RecordCitation(s) ==
  /\ At(s, "cite")
  /\ sess[s].cited # <<>>
  /\ Head(sess[s].cited)[1] \in EdgeKeys
  /\ edges' = RecordExposure(edges, sess[s].cited, 1)
  /\ Continue(s, [sess[s] EXCEPT !.cited = Tail(@)])
  /\ UNCHANGED <<states, log, started, accepted, spoiled>>

\* parse_edge_id or the foreign key raises; nothing catches it before the tool's reply.
RaiseOnCitation(s) ==
  /\ At(s, "cite")
  /\ sess[s].cited # <<>>
  /\ Head(sess[s].cited)[1] \notin EdgeKeys
  /\ sess' = Without(sess, s)
  /\ UNCHANGED <<states, log, edges, started, accepted, spoiled>>

\* What propagate() returns for a request; nothing when FIRe is off.
CreditOf(r) ==
  IF EnableFire THEN Credit(edges, r.concept, GradeToRating(r.score)) ELSE [x \in {} |-> AGAIN]

\* Seeded variant: the ripple is computed before the citations are recorded.
PropagateFirst(s) ==
  /\ At(s, "cite")
  /\ Continue(s, [sess[s] EXCEPT !.owed = CreditOf(sess[s].req), !.pc = "ripple"])
  /\ UNCHANGED <<states, log, edges, started, accepted, spoiled>>

Propagate(s) ==
  /\ At(s, "cite")
  /\ sess[s].cited = <<>>
  /\ Continue(s, [sess[s] EXCEPT !.owed = CreditOf(sess[s].req), !.pc = "ripple"])
  /\ UNCHANGED <<states, log, edges, started, accepted, spoiled>>

\* Seeded variant: the graded concept is not left out of its own ripple.
ReadAnyCredited(s) ==
  /\ At(s, "ripple")
  /\ \E x \in DOMAIN sess[s].owed \cup {sess[s].req.concept} :
        Continue(s, [sess[s] EXCEPT !.target = x,
                                     !.owed = Upsert([y \in {x} |-> AGAIN], @),
                                     !.prior = RowOr(states, x, Blank),
                                     !.pc = "credit"])
  /\ UNCHANGED <<states, log, edges, started, accepted, spoiled>>

\* The loop runs in the order of the ids; any order is allowed here.
ReadCredited(s) ==
  /\ At(s, "ripple")
  /\ \E x \in DOMAIN sess[s].owed :
        Continue(s, [sess[s] EXCEPT !.target = x, !.prior = RowOr(states, x, Blank), !.pc = "credit"])
  /\ UNCHANGED <<states, log, edges, started, accepted, spoiled>>

WriteCredited(s) ==
  /\ At(s, "credit")
  /\ LET x == sess[s].target
     IN /\ WriteRow(s, x, Review(sess[s].prior, sess[s].owed[x]))
        /\ Continue(s, [sess[s] EXCEPT !.owed = Without(@, x), !.prior = Blank, !.pc = "ripple"])
  /\ UNCHANGED <<log, edges, started, accepted>>

Return(s) ==
  /\ At(s, "ripple")
  /\ DOMAIN sess[s].owed = {}
  /\ accepted' = [accepted EXCEPT ![sess[s].req.concept] = @ + 1]
  /\ sess' = Without(sess, s)
  /\ UNCHANGED <<states, log, edges, started, spoiled>>

\* The process ends, or its connection does.
Crash(s) ==
  /\ CanCrash
  /\ s \in DOMAIN sess
  /\ sess' = Without(sess, s)
  /\ UNCHANGED <<states, log, edges, started, accepted, spoiled>>

---------------------------------------------------------------------------
Init ==
  /\ states = [c \in {} |-> Blank]
  /\ log = [c \in Concepts |-> <<>>]
  /\ edges = InitEdges
  /\ sess = [s \in {} |-> Blank]
  /\ started = 0
  /\ accepted = [c \in Concepts |-> 0]
  /\ spoiled = {}

Step(s) ==
  \/ \E r \in Requests : Start(s, r)
  \/ ReadPrior(s) \/ ReadRecent(s) \/ UpsertGraded(s) \/ AppendLog(s)
  \/ RecordCitation(s) \/ RaiseOnCitation(s) \/ Propagate(s)
  \/ ReadCredited(s) \/ WriteCredited(s) \/ Return(s)
  \/ Crash(s)

Next == \E s \in Sessions : Step(s)

Spec == Init /\ [][Next]_vars

---------------------------------------------------------------------------
\* Properties

Frames ==
  [pc : Steps, req : Requests, target : Concepts, prior : State, recent : Seq(Score),
   cited : Seq(Ids \X BOOLEAN), owed : UNION {[X -> Rating] : X \in SUBSET Concepts}]

\* A session in its ripple is never about to review the concept it was asked
\* to grade, and the concept of a write is the one that was read.
FrameOK(f) ==
  /\ f \in Frames
  /\ f.req.concept \notin DOMAIN f.owed
  /\ f.pc = "credit" => f.target \in DOMAIN f.owed
  /\ f.pc \in {"prior", "recent", "upsert", "append"} => f.target = f.req.concept

\* The tables have rows of their types, and every session frames of its own.
TypeOK ==
  /\ DOMAIN states \subseteq Concepts
  /\ states \in [DOMAIN states -> State]
  /\ log \in [Concepts -> Seq(Score)]
  /\ EdgeTable(edges)
  /\ DOMAIN sess \subseteq Sessions
  /\ \A s \in DOMAIN sess : FrameOK(sess[s])
  /\ started \in 0 .. MaxRequests
  /\ accepted \in [Concepts -> Nat]
  /\ spoiled \subseteq Concepts

\* Wherever a process ends, review_log is never ahead of learner_state: a
\* concept with a log entry has a row, so it is not offered to be taught as if
\* it had never been seen (service.py:333-344).
LoggedConceptHasRow ==
  \A c \in Concepts : log[c] # <<>> => c \in DOMAIN states

\* "exam_ready" is never awarded on one performance: whatever was interleaved,
\* lost or overwritten, an earlier strong grade of the concept is on record.
ExamReadyHasLoggedEvidence ==
  \A c \in DOMAIN states :
    states[c].mastery = "exam_ready" => \E i \in DOMAIN log[c] : log[c][i] >= 5

\* Grades go missing from the counters in one way only: unless another session
\* wrote the row between a read and a write of it, a concept's reps cover all
\* its log entries, whoever raised or crashed in between.
UnspoiledRowsCoverLog ==
  \A c \in Concepts \ spoiled : Len(log[c]) <= RowOr(states, c, Blank).reps

Quiescent == DOMAIN sess = {}

\* "every review counts as a rep" (engine/fsrs.py:186), of every session.
EveryReviewCountsAsARep ==
  Quiescent => \A c \in Concepts : Len(log[c]) <= RowOr(states, c, Blank).reps

\* Operations over several repositories are atomic over one connection
\* (storage/postgres.py:284-287): a grade that was refused left nothing behind.
RefusedGradesLeaveNothing ==
  Quiescent => \A c \in Concepts : Len(log[c]) = accepted[c]
=============================================================================

------------------------------- MODULE CheckIn -------------------------------
(***************************************************************************)
(* The readings of the service (application/service.py: state, checkin,      *)
(* frontier, flag_question; engine/snapshot.py) as handlers over the stores,  *)
(* statement by statement where two may overlap.                            *)
(***************************************************************************)
EXTENDS Stores

CONSTANTS
  Handlers,       \* processes that serve the tutor
  Weight,         \* the importance a curation stands for
  InstantsPerDay, \* the calendar
  DaysPerWeek

ASSUME CalendarType == InstantsPerDay \in Nat \ {0} /\ DaysPerWeek \in Nat

VARIABLES
  clock,      \* the instant
  desk,       \* handler -> its call
  checks      \* the check-ins that were logged, with what they told the learner

desks == <<clock, desk, checks>>

NoCall == [kind |-> "none", course |-> Null, at |-> Null, concepts |-> <<>>, total |-> 0,
           question |-> Null, last |-> <<>>, overlapped |-> FALSE]

Free(h) == desk[h].kind = "none"
Becomes(h, call) == desk' = [desk EXCEPT ![h] = call]

\* Instants of two calls may be equal.
Later(now) == now \in {clock, clock + 1} /\ clock' = now

---------------------------------------------------------------------------
\* engine/snapshot.py

\* The importance-weighted sum of the stabilities of known concepts.
StabilityDays(rows, weights) ==
  FoldLeft(LAMBDA sum, c : sum + weights[c] * rows[c].stability, 0,
           SetToSeq({c \in DOMAIN rows \cap DOMAIN weights : rows[c].stability # Null}))

Holding(rows, now) == {c \in DOMAIN rows : rows[c].due # Null /\ rows[c].due > now}

\* ripeness(): by calendar day.
Day(instant) == instant \div InstantsPerDay

Ripeness(rows, now) ==
  LET ahead(c) == Day(rows[c].due) - Day(now)
      scheduled == {c \in DOMAIN rows : rows[c].due # Null}
  IN [ready_now       |-> {c \in scheduled : ahead(c) <= 0},
      ready_tomorrow  |-> {c \in scheduled : ahead(c) = 1},
      ready_this_week |-> {c \in scheduled : 1 < ahead(c) /\ ahead(c) <= DaysPerWeek},
      holding         |-> {c \in scheduled : ahead(c) > DaysPerWeek}]

---------------------------------------------------------------------------
\* checkin()

\* The clock, then the concepts of the course.
OpenCheck(h, course) ==
  /\ Free(h)
  /\ \E now \in {clock, clock + 1} :
       /\ Later(now)
       /\ Becomes(h, [NoCall EXCEPT !.kind = "states", !.course = course, !.at = now,
                                    !.concepts = [c \in ToSet(Pg!ListConcepts(pg, course)) |->
                                                    Weight[pg.concept[c].curation]]])
  /\ UNCHANGED <<stores, checks>>

\* The rows of the course, and the numbers they give.
ReadStates(h) ==
  /\ desk[h].kind = "states"
  /\ LET rows == [c \in ToSet(Pg!AllStates(pg, desk[h].course)) |-> pg.state[c]]
     IN Becomes(h, [desk[h] EXCEPT !.kind = "last", !.total = StabilityDays(rows, desk[h].concepts)])
  /\ UNCHANGED <<stores, clock, checks>>

\* Seeded variant: the last event of whatever kind.
LastOfAny(course) ==
  LET kinds == {Pg!LastEvent(pg, k, course) : k \in {"check", "escalate"}} \ {<<>>}
  IN IF kinds = {} THEN <<>> ELSE CHOOSE e \in kinds : \A f \in kinds : e[1].at >= f[1].at

LastCheck(course) == Pg!LastEvent(pg, "check", course)

\* The event whose total anchors the delta.
ReadLast(h) ==
  /\ desk[h].kind = "last"
  /\ Becomes(h, [desk[h] EXCEPT !.kind = "log", !.last = LastCheck(desk[h].course)])
  /\ UNCHANGED <<stores, clock, checks>>

\* The delta the learner is told: none at the first check-in.
Delta(call) == IF call.last = <<>> THEN <<>> ELSE <<call.total - call.last[1].total>>

LogCheck(h) ==
  /\ desk[h].kind = "log"
  /\ LogEvent([kind |-> "check", course |-> desk[h].course, at |-> desk[h].at, total |-> desk[h].total])
  /\ checks' = Append(checks, [course |-> desk[h].course, total |-> desk[h].total,
                               delta |-> Delta(desk[h]), overlapped |-> desk[h].overlapped])
  /\ desk' = [g \in Handlers |->
                IF g = h THEN NoCall
                ELSE IF desk[g].course = desk[h].course THEN [desk[g] EXCEPT !.overlapped = TRUE] ELSE desk[g]]
  /\ UNCHANGED clock

---------------------------------------------------------------------------
\* frontier() reads, and logs that the learner escalated.
Escalate(course) ==
  /\ \E now \in {clock, clock + 1} :
       /\ Later(now)
       /\ LogEvent([kind |-> "escalate", course |-> course, at |-> now, total |-> 0])
  /\ UNCHANGED <<desk, checks>>

---------------------------------------------------------------------------
\* flag_question(): refused for an unknown question; retire, then log.
Flag(h, q) ==
  /\ Free(h) /\ q \in DOMAIN pg.question
  /\ RetireQuestion(q)
  /\ Becomes(h, [NoCall EXCEPT !.kind = "flagged", !.question = q,
                               !.concepts = [c \in {pg.question[q].concept} |-> 0]])
  /\ UNCHANGED <<clock, checks>>

\* The course of the concept, or none if it has been deleted.
LogFlag(h) ==
  /\ desk[h].kind = "flagged"
  /\ \E c \in DOMAIN desk[h].concepts, now \in {clock, clock + 1} :
       /\ Later(now)
       /\ LogEvent([kind |-> "item_flag", at |-> now, total |-> 0,
                    course |-> IF c \in DOMAIN pg.concept THEN pg.concept[c].course ELSE Null])
  /\ Becomes(h, NoCall)
  /\ UNCHANGED checks

\* The process of a handler ends.
HandlerDies(h) ==
  /\ ~Free(h)
  /\ Becomes(h, NoCall)
  /\ UNCHANGED <<stores, clock, checks>>
=============================================================================

----------------------------- MODULE MemoryStore -----------------------------
(***************************************************************************)
(* The in-memory adapters (storage/memory.py), "the executable specification *)
(* of what the Postgres/OKF adapters must reproduce": every operation of     *)
(* every repository over its dicts.                                         *)
(***************************************************************************)
EXTENDS StoreTypes

\* The course of a concept, if the index knows the concept.
InCourse(db, c, course) == c \in DOMAIN db.concept /\ db.concept[c].course = course

---------------------------------------------------------------------------
\* Concepts

ListConcepts(db, course) == Listed({c \in DOMAIN db.concept : InCourse(db, c, course)})

ListCourses(db) == Listed({db.concept[c].course : c \in DOMAIN db.concept})

UpsertConcept(db, c, row) == [db EXCEPT !.concept = Put(@, c, row)]

DeleteConcept(db, c) == [db EXCEPT !.concept = Without(@, {c}), !.vector = Without(@, {c})]

\* The vector is stored whether or not the concept is.
SetEmbedding(db, c, vector) == [db EXCEPT !.vector = Put(@, c, vector)]

Nearest(db, vector, course, k) ==
  LET known == {c \in DOMAIN db.vector : InCourse(db, c, course)}
      similarity == [c \in known |-> Alike[vector][db.vector[c]]]
      scored == ListedBy([c \in known |-> -similarity[c]])
  IN IF k <= 0 THEN <<>> ELSE First([n \in DOMAIN scored |-> <<scored[n], similarity[scored[n]]>>], k)

\* One more than asked for, then without the concept itself.
NearestTo(db, c, course, k) ==
  LET pairs == Nearest(db, db.vector[c], course, k + 1)
      own == {n \in DOMAIN pairs : pairs[n][1] = c}
  IN IF c \notin DOMAIN db.vector \/ k <= 0 THEN <<>>
     ELSE First(IF own = {} THEN pairs ELSE RemoveAt(pairs, CHOOSE n \in own : TRUE), k)

---------------------------------------------------------------------------
\* Edges

UpsertEdge(db, key, row) == [db EXCEPT !.edge = Put(@, key, row)]

OutEdges(db, src, type) == {k \in DOMAIN db.edge : k[1] = src /\ type \in {Every, k[2]}}
InEdges(db, dst, type) == {k \in DOMAIN db.edge : k[3] = dst /\ type \in {Every, k[2]}}

\* The course of an edge is that of its source.
ListEdges(db, course) == {k \in DOMAIN db.edge : InCourse(db, k[1], course)}

\* Total: starts from a default edge.
RecordExposure(db, key, skipped, at) ==
  LET current == GetOr(db.edge, key, Edge)
  IN UpsertEdge(db, key,
       [current EXCEPT !.exposures = @ + 1,
                       !.skips = @ + (IF skipped THEN 1 ELSE 0),
                       !.traversed = IF skipped THEN @ ELSE at])

---------------------------------------------------------------------------
\* Questions

UpsertQuestion(db, q, row) == [db EXCEPT !.question = Put(@, q, row)]

Served(db) == {q \in DOMAIN db.question : db.question[q].status # "retired"}

ByConcept(db, c, difficulty, hops) ==
  LET asked == {q \in Served(db) : /\ db.question[q].concept = c
                                   /\ difficulty \in {Null, db.question[q].difficulty}
                                   /\ hops \in {Null, db.question[q].hops}}
  IN Listed(asked)

ByEdge(db, key) == Listed({q \in Served(db) : db.question[q].edge = key})

Retire(db, q) ==
  IF q \in DOMAIN db.question THEN UpsertQuestion(db, q, [db.question[q] EXCEPT !.status = "retired"]) ELSE db

---------------------------------------------------------------------------
\* Learner state

UpsertState(db, c, row) == [db EXCEPT !.state = Put(@, c, row)]

Due(db, course, before) ==
  LET due == {c \in DOMAIN db.state : /\ db.state[c].due # Null /\ db.state[c].due <= before
                                      /\ InCourse(db, c, course)}
  IN ListedBy([c \in due |-> db.state[c].due])

AllStates(db, course) == Listed({c \in DOMAIN db.state : InCourse(db, c, course)})

---------------------------------------------------------------------------
\* Review log and engagement log

ReviewsOf(db, c) == GetOr(db.reviews, c, <<>>)
AppendReview(db, event) ==
  [db EXCEPT !.reviews = Put(@, event.concept, Append(ReviewsOf(db, event.concept), event))]

AppendEvent(db, event) == [db EXCEPT !.events = Append(@, event)]
EventsOf(db, course) == EntriesOf(db.events, course)

\* The latest by its time, the one appended later on a tie.
LastEvent(db, kind, course) ==
  LET matches == {n \in DOMAIN db.events : db.events[n].kind = kind /\ db.events[n].course = course}
  IN IF matches = {} THEN <<>> ELSE <<db.events[LastBy([n \in matches |-> db.events[n].at])]>>

---------------------------------------------------------------------------
\* Learner notes and course profiles

UpsertNote(db, n, row) == [db EXCEPT !.note = Put(@, n, row)]

ListNotes(db, course, kinds, status) ==
  LET listed == {n \in DOMAIN db.note : /\ db.note[n].course = course
                                        /\ db.note[n].kind \in kinds
                                        /\ status \in {Every, db.note[n].status}}
  IN ListedBy([n \in listed |-> db.note[n].created])

DueNotes(db, course, before) ==
  LET due == {n \in DOMAIN db.note : /\ db.note[n].course = course /\ Reviewable(db.note[n])
                                     /\ db.note[n].due # Null /\ db.note[n].due <= before}
  IN ListedBy([n \in due |-> db.note[n].due])

NoteCourses(db) == Listed({db.note[n].course : n \in DOMAIN db.note})

UpsertProfile(db, course, row) == [db EXCEPT !.profile = Put(@, course, row)]
=============================================================================

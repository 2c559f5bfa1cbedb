---------------------------- MODULE PostgresStore ----------------------------
(***************************************************************************)
(* The Postgres adapters (storage/postgres.py) over the tables of schema/:   *)
(* each operation is one statement on an autocommit connection. A foreign    *)
(* key refuses rows about unknown concepts and deletes rows of deleted ones; *)
(* the refused statement raises and changes nothing.                        *)
(***************************************************************************)
EXTENDS StoreTypes

\* A statement whose row references the given concepts.
Referencing(db, ids, changed) == IF ids \subseteq DOMAIN db.concept THEN changed ELSE db

\* INSERT ... ON CONFLICT DO UPDATE of every column given.
InsertOrUpdate(table, key, columns) == Put(table, key, columns)

---------------------------------------------------------------------------
\* Concepts; vector is the column concept.embedding where it is not NULL

OfCourse(db, course) == {c \in DOMAIN db.concept : db.concept[c].course = course}
ListConcepts(db, course) == Listed(OfCourse(db, course))
ListCourses(db) == Listed({db.concept[c].course : c \in DOMAIN db.concept})

\* The embedding is not among the columns.
UpsertConcept(db, c, row) == [db EXCEPT !.concept = InsertOrUpdate(@, c, row)]

\* ON DELETE CASCADE
DeleteConcept(db, c) ==
  [db EXCEPT !.concept = Without(@, {c}),
             !.vector = Without(@, {c}),
             !.edge = Without(@, {k \in DOMAIN @ : c \in {k[1], k[3]}}),
             !.question = Without(@, {q \in DOMAIN @ : @[q].concept = c}),
             !.state = Without(@, {c}),
             !.reviews = Without(@, {c})]

\* An UPDATE: no row, no effect.
SetEmbedding(db, c, vector) ==
  IF c \in DOMAIN db.concept THEN [db EXCEPT !.vector = Put(@, c, vector)] ELSE db

\* SELECT id, similarity ... ORDER BY distance, id LIMIT k
Closest(db, ids, vector, k) ==
  LET distance == [c \in ids |-> -Alike[db.vector[c]][vector]]
      ordered == ListedBy(distance)
  IN IF k <= 0 THEN <<>> ELSE First([n \in DOMAIN ordered |-> <<ordered[n], -distance[ordered[n]]>>], k)

Nearest(db, vector, course, k) ==
  Closest(db, {c \in DOMAIN db.vector : db.concept[c].course = course}, vector, k)

NearestTo(db, c, course, k) ==
  IF c \notin DOMAIN db.vector THEN <<>>
  ELSE Closest(db, {d \in DOMAIN db.vector : db.concept[d].course = course /\ d # c}, db.vector[c], k)

---------------------------------------------------------------------------
\* Edges: ORDER BY src, type, dst

UpsertEdge(db, key, row) ==
  Referencing(db, {key[1], key[3]}, [db EXCEPT !.edge = InsertOrUpdate(@, key, row)])

OutEdges(db, src, type) == {k \in DOMAIN db.edge : k[1] = src /\ (type = Every \/ k[2] = type)}
InEdges(db, dst, type) == {k \in DOMAIN db.edge : k[3] = dst /\ (type = Every \/ k[2] = type)}

\* JOIN concept ON e.src = c.id
ListEdges(db, course) ==
  {k \in DOMAIN db.edge : \E c \in DOMAIN db.concept : k[1] = c /\ db.concept[c].course = course}

\* Seeded variant: without the COALESCE.
RecordLastExposure(db, key, skipped, at) ==
  LET inserted == [Edge EXCEPT !.exposures = 1, !.skips = IF skipped THEN 1 ELSE 0,
                               !.traversed = IF skipped THEN Null ELSE at]
      updated == [db.edge[key] EXCEPT !.exposures = @ + 1, !.skips = @ + inserted.skips,
                                      !.traversed = inserted.traversed]
  IN Referencing(db, {key[1], key[3]},
                 [db EXCEPT !.edge = Put(@, key, IF key \in DOMAIN @ THEN updated ELSE inserted)])

\* The counters of a conflicting row go up; a skip inserts NULL, which
\* COALESCE replaces by the row's own last traversal.
RecordExposure(db, key, skipped, at) ==
  LET inserted == [Edge EXCEPT !.exposures = 1, !.skips = IF skipped THEN 1 ELSE 0,
                               !.traversed = IF skipped THEN Null ELSE at]
      updated == [db.edge[key] EXCEPT !.exposures = @ + 1, !.skips = @ + inserted.skips,
                                      !.traversed = IF inserted.traversed = Null THEN @ ELSE inserted.traversed]
  IN Referencing(db, {key[1], key[3]},
                 [db EXCEPT !.edge = Put(@, key, IF key \in DOMAIN @ THEN updated ELSE inserted)])

---------------------------------------------------------------------------
\* Questions

UpsertQuestion(db, q, row) ==
  Referencing(db, {row.concept}, [db EXCEPT !.question = InsertOrUpdate(@, q, row)])

ByConcept(db, c, difficulty, hops) ==
  Listed({q \in DOMAIN db.question :
            /\ db.question[q].concept = c /\ db.question[q].status # "retired"
            /\ difficulty = Null \/ db.question[q].difficulty = difficulty
            /\ hops = Null \/ db.question[q].hops = hops})

ByEdge(db, key) ==
  Listed({q \in DOMAIN db.question : db.question[q].edge = key /\ db.question[q].status # "retired"})

\* A bare UPDATE
Retire(db, q) ==
  [db EXCEPT !.question = [r \in DOMAIN @ |-> IF r = q THEN [@[r] EXCEPT !.status = "retired"] ELSE @[r]]]

---------------------------------------------------------------------------
\* Learner state: JOIN concept ON s.concept_id = c.id

UpsertState(db, c, row) == Referencing(db, {c}, [db EXCEPT !.state = InsertOrUpdate(@, c, row)])

Joined(db, course) == {c \in DOMAIN db.state \cap DOMAIN db.concept : db.concept[c].course = course}

Due(db, course, before) ==
  ListedBy([c \in {d \in Joined(db, course) : db.state[d].due \in 1 .. before} |-> db.state[c].due])

AllStates(db, course) == Listed(Joined(db, course))

---------------------------------------------------------------------------
\* Logs: ids are a bigserial, the order of insertion

AppendReview(db, event) ==
  Referencing(db, {event.concept},
              [db EXCEPT !.reviews = Put(@, event.concept, Append(GetOr(@, event.concept, <<>>), event))])

ReviewsOf(db, c) == GetOr(db.reviews, c, <<>>)

AppendEvent(db, event) == [db EXCEPT !.events = Append(@, event)]
EventsOf(db, course) == EntriesOf(db.events, course)

\* ORDER BY at DESC, id DESC LIMIT 1
LastEvent(db, kind, course) ==
  LET rows == {n \in DOMAIN db.events : db.events[n].kind = kind /\ db.events[n].course = course}
  IN IF rows = {} THEN <<>> ELSE <<db.events[LastBy([n \in rows |-> db.events[n].at])]>>

---------------------------------------------------------------------------
\* Learner notes and course profiles

UpsertNote(db, n, row) == [db EXCEPT !.note = InsertOrUpdate(@, n, row)]

ListNotes(db, course, kinds, status) ==
  LET rows == {n \in DOMAIN db.note : /\ db.note[n].course = course
                                      /\ db.note[n].kind \in kinds
                                      /\ status = Every \/ db.note[n].status = status}
  IN ListedBy([n \in rows |-> db.note[n].created])

DueNotes(db, course, before) ==
  LET rows == {n \in DOMAIN db.note : /\ db.note[n].course = course /\ db.note[n].status = "active"
                                      /\ db.note[n].kind \in {"insight", "misconception_fixed"}
                                      /\ db.note[n].due \in 1 .. before}
  IN ListedBy([n \in rows |-> db.note[n].due])

NoteCourses(db) == Listed({db.note[n].course : n \in DOMAIN db.note})

UpsertProfile(db, course, row) == [db EXCEPT !.profile = InsertOrUpdate(@, course, row)]
=============================================================================

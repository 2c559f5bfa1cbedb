-------------------------------- MODULE Stores --------------------------------
(***************************************************************************)
(* The Postgres adapters and the in-memory reference side by side: every     *)
(* call of a service is made on both, and their answers are compared.        *)
(***************************************************************************)
EXTENDS StoreTypes

VARIABLES
  pg,         \* the tables of the database
  ref,        \* the dicts of the in-memory adapters
  strayed     \* concepts a foreign key has treated differently

stores == <<pg, ref, strayed>>

Pg == INSTANCE PostgresStore
Memory == INSTANCE MemoryStore

Both(inPg, inMemory) == pg' = inPg /\ ref' = inMemory

\* A call about ids that the database does not know, or is about to forget.
Stray(ids) == strayed' = strayed \cup ids
Unknown(ids) == ids \ DOMAIN pg.concept

---------------------------------------------------------------------------
\* The calls

PutConcept(c, row) ==
  /\ Both(Pg!UpsertConcept(pg, c, row), Memory!UpsertConcept(ref, c, row))
  /\ Stray({})

DropConcept(c) ==
  /\ Both(Pg!DeleteConcept(pg, c), Memory!DeleteConcept(ref, c))
  /\ Stray({c})

PutVector(c, vector) ==
  /\ Both(Pg!SetEmbedding(pg, c, vector), Memory!SetEmbedding(ref, c, vector))
  /\ Stray(Unknown({c}))

PutEdge(key, row) ==
  /\ Both(Pg!UpsertEdge(pg, key, row), Memory!UpsertEdge(ref, key, row))
  /\ Stray(Unknown({key[1], key[3]}))

Expose(key, skipped, at) ==
  /\ Both(Pg!RecordExposure(pg, key, skipped, at), Memory!RecordExposure(ref, key, skipped, at))
  /\ Stray(Unknown({key[1], key[3]}))

PutQuestion(q, row) ==
  /\ Both(Pg!UpsertQuestion(pg, q, row), Memory!UpsertQuestion(ref, q, row))
  /\ Stray(Unknown({row.concept}))

RetireQuestion(q) == Both(Pg!Retire(pg, q), Memory!Retire(ref, q)) /\ Stray({})

PutState(c, row) ==
  /\ Both(Pg!UpsertState(pg, c, row), Memory!UpsertState(ref, c, row))
  /\ Stray(Unknown({c}))

LogReview(event) ==
  /\ Both(Pg!AppendReview(pg, event), Memory!AppendReview(ref, event))
  /\ Stray(Unknown({event.concept}))

LogEvent(event) == Both(Pg!AppendEvent(pg, event), Memory!AppendEvent(ref, event)) /\ Stray({})

PutNote(n, row) == Both(Pg!UpsertNote(pg, n, row), Memory!UpsertNote(ref, n, row)) /\ Stray({})

PutProfile(course, row) ==
  /\ Both(Pg!UpsertProfile(pg, course, row), Memory!UpsertProfile(ref, course, row))
  /\ Stray({})

---------------------------------------------------------------------------
\* The answers, for the concepts no foreign key has touched

Steady == Concepts \ strayed

\* Two lists hold the same of them, in the same order.
SameList(s, t) ==
  /\ ToSet(s) \cap Steady = ToSet(t) \cap Steady
  /\ \A m, n \in DOMAIN s, i, j \in DOMAIN t :
       s[m] = t[i] /\ s[n] = t[j] /\ {s[m], s[n]} \subseteq Steady => (m < n <=> i < j)

Rows(table, keys) == [k \in DOMAIN table \cap keys |-> table[k]]
Links == Steady \X EdgeTypes \X Steady
QuestionsOn(db) == {q \in DOMAIN db.question : db.question[q].concept \in Steady}

SameConcepts ==
  /\ Rows(pg.concept, Steady) = Rows(ref.concept, Steady)
  /\ \A o \in Courses : SameList(Pg!ListConcepts(pg, o), Memory!ListConcepts(ref, o))
  /\ strayed = {} => Pg!ListCourses(pg) = Memory!ListCourses(ref)

SameNeighbours ==
  strayed = {} =>
    \A o \in Courses, k \in {0, 1} :
      /\ \A d \in Docs : Pg!Nearest(pg, d, o, k) = Memory!Nearest(ref, d, o, k)
      /\ \A c \in Concepts : Pg!NearestTo(pg, c, o, k) = Memory!NearestTo(ref, c, o, k)

SameEdges ==
  /\ Rows(pg.edge, Links) = Rows(ref.edge, Links)
  /\ \A c \in Steady, t \in EdgeTypes \cup {Every} :
       /\ Pg!OutEdges(pg, c, t) \cap Links = Memory!OutEdges(ref, c, t) \cap Links
       /\ Pg!InEdges(pg, c, t) \cap Links = Memory!InEdges(ref, c, t) \cap Links
  /\ \A o \in Courses : Pg!ListEdges(pg, o) \cap Links = Memory!ListEdges(ref, o) \cap Links

SameQuestions ==
  /\ Rows(pg.question, QuestionsOn(pg)) = Rows(ref.question, QuestionsOn(ref))
  /\ \A c \in Steady, n, h \in {Null, 1} : Pg!ByConcept(pg, c, n, h) = Memory!ByConcept(ref, c, n, h)
  /\ strayed = {} => \A k \in Links : Pg!ByEdge(pg, k) = Memory!ByEdge(ref, k)

SameLearner(now) ==
  /\ Rows(pg.state, Steady) = Rows(ref.state, Steady)
  /\ \A o \in Courses :
       /\ SameList(Pg!AllStates(pg, o), Memory!AllStates(ref, o))
       /\ \A t \in {now, now + 1} : SameList(Pg!Due(pg, o, t), Memory!Due(ref, o, t))
  /\ \A c \in Steady : Pg!ReviewsOf(pg, c) = Memory!ReviewsOf(ref, c)

SameEvents(kinds) ==
  \A o \in Courses :
    /\ Pg!EventsOf(pg, o) = Memory!EventsOf(ref, o)
    /\ \A k \in kinds : Pg!LastEvent(pg, k, o) = Memory!LastEvent(ref, k, o)

SameNotes(now) ==
  /\ pg.note = ref.note /\ pg.profile = ref.profile
  /\ Pg!NoteCourses(pg) = Memory!NoteCourses(ref)
  /\ \A o \in Courses :
       /\ \A ks \in SUBSET {"insight", "goal"}, s \in {Every, "active", "resolved"} :
            Pg!ListNotes(pg, o, ks, s) = Memory!ListNotes(ref, o, ks, s)
       /\ \A t \in {now, now + 1} : Pg!DueNotes(pg, o, t) = Memory!DueNotes(ref, o, t)
=============================================================================

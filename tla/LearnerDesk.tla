----------------------------- MODULE LearnerDesk -----------------------------
(***************************************************************************)
(* The stores under all of their clients at once: the tutor's calls, its      *)
(* check-ins, an author and reconcile(). The statements of grade(), of the    *)
(* build and of the learner model are in modules of their own; here each is   *)
(* one call on the stores.                                                  *)
(***************************************************************************)
EXTENDS GraphSync, CheckIn

CONSTANTS
  Contents,     \* what an author writes: a sequence of [body, refs]
  Keys,         \* edges that are cited or linked
  Intervals,    \* how far ahead a review schedules
  Fuel          \* bound: commands of a behaviour

ASSUME BodiesAreDocs ==
  /\ Docs \subseteq Document /\ Torn \in Docs
  /\ Contents \in Seq([body : Docs, refs : Seq(Ref)]) /\ Len(Contents) >= 2
  /\ \A n \in DOMAIN Contents : SplitConcept(ComposeConcept(Contents[n])).body \in Docs
ASSUME CallsType ==
  1 \in Concepts /\ Keys \subseteq Concepts \X EdgeTypes \X Concepts /\ Intervals \subseteq Nat \ {0} /\ Fuel \in Nat

VARIABLE fuel

vars == <<stores, syncing, desks, fuel>>

---------------------------------------------------------------------------
\* One command each

Command ==
  /\ fuel > 0 /\ fuel' = fuel - 1
  /\ \/ /\ \/ \E c \in Concepts, n \in DOMAIN Contents : BeginWrite(c, Contents[n])
           \/ \E c \in Concepts : RemoveDocument(c)
           \/ MoveBundle
           \/ \E o \in Courses, deletes \in BOOLEAN : StartSync(o, deletes)
           \/ \E c \in Concepts, w \in DOMAIN Weight : Curate(c, w)
        /\ UNCHANGED desks
     \/ /\ \/ \E h \in Handlers, o \in Courses : OpenCheck(h, o)
           \/ \E h \in Handlers, q \in DOMAIN pg.question : Flag(h, q)
           \/ \E o \in Courses : Escalate(o)
        /\ UNCHANGED syncing
     \/ /\ \/ \E c \in Concepts, n \in Intervals \cup {Null} :
                PutState(c, [stability |-> n, due |-> IF n = Null THEN Null ELSE clock + n])
           \/ \E c \in Concepts : LogReview([concept |-> c, at |-> clock])
           \/ \E k \in Keys, skipped \in BOOLEAN : Expose(k, skipped, clock)
           \/ \E k \in Keys : PutEdge(k, [Edge EXCEPT !.provenance = "spine"])
           \/ \E c \in Concepts, k \in Keys :
                PutQuestion(c, [concept |-> c, edge |-> k, difficulty |-> c, hops |-> 1, status |-> "active"])
           \/ \E s \in {"active", "resolved"} :
                PutNote(1, [course |-> 1, kind |-> "insight", status |-> s, created |-> clock, due |-> clock + 1])
           \/ PutNote(2, [course |-> 2, kind |-> "goal", status |-> "active", created |-> clock, due |-> Null])
           \/ PutProfile(1, [confirmed |-> TRUE])
        /\ UNCHANGED <<syncing, desks>>

Step ==
  /\ UNCHANGED fuel
  /\ \/ (EndWrite \/ WriterDies \/ SyncStep) /\ UNCHANGED desks
     \/ /\ \E h \in Handlers : ReadStates(h) \/ ReadLast(h) \/ LogCheck(h) \/ LogFlag(h) \/ HandlerDies(h)
        /\ UNCHANGED syncing

\* A course that was built, reviewed and checked: since the check-in its first
\* concept was reviewed again; a document may have been edited or removed, and
\* a check-in may be on its way.
Used ==
  [NoTables EXCEPT
     !.concept = [c \in Concepts |-> [course |-> 1, hash |-> ComposeConcept(Contents[1]), refs |-> Contents[1].refs,
                                        curation |-> "default"]],
     !.vector = [c \in Concepts |-> Contents[1].body],
     !.edge = [k \in Keys |-> [Edge EXCEPT !.exposures = 1, !.traversed = 1]],
     !.question = [q \in {1} |-> [concept |-> 1, edge |-> <<1, "related", 2>>, difficulty |-> 1, hops |-> 1,
                                  status |-> "active"]],
     !.state = [c \in {1} |-> [stability |-> 4, due |-> 6]],
     !.reviews = [c \in {1} |-> <<[concept |-> 1, at |-> 1], [concept |-> 1, at |-> 2]>>],
     !.events = <<[kind |-> "check", course |-> 1, at |-> 1, total |-> 1]>>]

Init ==
  /\ pg = Used /\ ref = Used /\ strayed = {}
  /\ LET built == [c \in Concepts |-> Contents[1]]
     IN kept \in {built, Put(built, 1, Contents[2]), Without(built, {1})}
  /\ bundle = [c \in DOMAIN kept |-> ComposeConcept(kept[c])]
  /\ moved = FALSE /\ writing = <<>>
  /\ sync = NoSync /\ edited = {} /\ curated = {}
  /\ unembedded = IF SplitConcept(ComposeConcept(Contents[1])) = Contents[1] THEN {} ELSE Concepts
  /\ clock = 2
  /\ checks = <<[course |-> 1, total |-> 1, delta |-> <<>>, overlapped |-> FALSE]>>
  /\ \E open \in {NoCall, [NoCall EXCEPT !.kind = "states", !.course = 1, !.at = 2,
                                        !.concepts = [c \in Concepts |-> Weight["default"]]]} :
       \E g \in Handlers : desk = [h \in Handlers |-> IF h = g THEN open ELSE NoCall]
  /\ fuel = Fuel

Next == Command \/ Step

Spec == Init /\ [][Next]_vars

---------------------------------------------------------------------------
\* Properties

\* "The executable specification of what the Postgres adapters must reproduce"
\* (memory.py:3-6): after any calls both families answer every query alike,
\* about all concepts that no foreign key has refused or cascaded away; edge
\* listings agree up to their order.
AdaptersAgree ==
  /\ SameConcepts /\ SameNeighbours /\ SameEdges /\ SameQuestions
  /\ SameLearner(clock) /\ SameEvents({"check", "escalate", "item_flag"}) /\ SameNotes(clock)

\* The round-trip is lossless (okf_content.py:16) but for the ends of lines: what
\* is read from a file is what was put, with line feeds for its carriage returns,
\* unless a body without citations reads as if it had a citations section of its
\* own, or a path without a line ends in a number; questions alike, unless the
\* prompt reads as if it had a rubric section.
BundleReadsBack ==
  /\ \A c \in DOMAIN bundle :
       \/ bundle[c] = Torn \/ Ambiguous(kept[c])
       \/ SplitConcept(bundle[c]) = [body |-> ReadText(kept[c].body), refs |-> kept[c].refs]
  /\ \A p \in Docs, r \in Docs \cup {<<>>} :
       \/ \E n \in 2 .. Len(p) : ReadText(p)[n] = RubricFence
       \/ SplitQuestion(ComposeQuestion([prompt |-> p, rubric |-> r])) = [prompt |-> ReadText(p), rubric |-> ReadText(r)]

\* The index is a projection of the bundle (graph_sync.py:108-204). A row's
\* embedding is that of the document its hash names, unless an embedding failed,
\* the document changed between walk and reading, or the build embedded a body
\* that does not read back as it was; nobody else loosens it. And
\* a reconcile() that no edit disturbed leaves every document that is not reserved
\* indexed under its hash, no orphan where it deletes, and each concept in one
\* bucket. (A reserved id is never indexed, and a row that has one is an orphan.)
IndexTellsBundle ==
  /\ \A c \in DOMAIN pg.concept \ unembedded :
       LET told == SplitConcept(pg.concept[c].hash)
       IN \/ c \in DOMAIN pg.vector /\ pg.vector[c] = told.body /\ pg.concept[c].refs = told.refs
          \/ sync.phase = "embed" /\ Current = c
  /\ sync.phase = "done" /\ edited = {} =>
       /\ ~moved => \A c \in DOMAIN bundle \ Reserved : c \in DOMAIN pg.concept /\ pg.concept[c].hash = bundle[c]
       /\ sync.deletes => ToSet(Pg!ListConcepts(pg, sync.course)) \subseteq sync.seen
       /\ \A a, b \in Buckets : a # b => sync.report[a] \cap sync.report[b] = {}

\* What the learner and the curator have put in survives reconcile(): rows go
\* only with a concept of the synced course that the walk did not see, and only
\* where orphans are deleted; the curation of a row is only taken back if it was
\* made after reconcile() had compared it (graph_sync.py:171-204).
SyncKeeps ==
  [][fuel' = fuel =>
       /\ \A c \in DOMAIN pg.concept \ DOMAIN pg'.concept :
            sync.deletes /\ c \notin sync.seen /\ pg.concept[c].course = sync.course
       /\ \A c \in DOMAIN pg.state \ DOMAIN pg'.state : c \notin DOMAIN pg'.concept
       /\ \A k \in DOMAIN pg.edge \ DOMAIN pg'.edge : ~({k[1], k[3]} \subseteq DOMAIN pg'.concept)
       /\ \A c \in DOMAIN pg.concept \cap DOMAIN pg'.concept :
            pg'.concept[c].curation = pg.concept[c].curation \/ c \in curated]_vars

\* The check-in's numbers can be trusted (service.py:419-466, snapshot.py). The
\* deltas of check-ins that did not overlap add up: each is the difference to
\* the one logged before it. And the three readings of a schedule agree: what is
\* due is ready now, and what is ready later is still holding.
ChecksAddUp ==
  /\ \A m, n \in DOMAIN checks :
       /\ m < n /\ checks[m].course = checks[n].course
       /\ \A i \in m + 1 .. n - 1 : checks[i].course # checks[n].course
       /\ ~checks[m].overlapped /\ ~checks[n].overlapped
       => checks[n].delta = <<checks[n].total - checks[m].total>>
  /\ \A o \in Courses :
       LET rows == [c \in ToSet(Pg!AllStates(pg, o)) |-> pg.state[c]]
           due == ToSet(Pg!Due(pg, o, clock))
           ripe == Ripeness(rows, clock)
       IN /\ due \subseteq ripe.ready_now
          /\ ripe.ready_tomorrow \cup ripe.ready_this_week \cup ripe.holding \subseteq Holding(rows, clock)
          /\ due \cup Holding(rows, clock) = UNION {ripe[b] : b \in DOMAIN ripe}
=============================================================================

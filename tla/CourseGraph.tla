----------------------------- MODULE CourseGraph -----------------------------
(***************************************************************************)
(* The knowledge graph of one course: the edge table, the prerequisites    *)
(* that gate unlocking (application/service.py), the exposure accounting    *)
(* of storage/postgres.py, and the credit that FIRe spreads along           *)
(* ENCOMPASSES edges (engine/fire.py).                                      *)
(*                                                                          *)
(* A table is a function from primary key to row. An edge id               *)
(* "src::type::dst" is the record of its three parts; what parse_edge_id    *)
(* rejects, and an id whose endpoint is no concept (a foreign-key           *)
(* violation of the INSERT), is any value outside EdgeKeys.                 *)
(***************************************************************************)
EXTENDS Policies, FiniteSets

CONSTANTS
  Concepts,     \* the concept ids of the course
  InitEdges     \* the edge table as ingestion left it

EdgeTypes == {"prerequisite", "encompasses", "related"}
EdgeKeys == [src : Concepts, type : EdgeTypes, dst : Concepts]

\* An ENCOMPASSES weight matters through the two thresholds of
\* _down_rating_for_weight alone: below 0.33, from 0.33, from 0.66.
Weights == {"weak", "medium", "strong"}
Provenances == {"spine", "inferred", "manual"}
EdgeRow == [provenance : Provenances, weight : Weights, exposures : Nat, skips : Nat]

EdgeTable(t) == /\ DOMAIN t \subseteq EdgeKeys
                /\ t \in [DOMAIN t -> EdgeRow]

\* The row an INSERT without the other columns creates (the column defaults).
DefaultEdge == [provenance |-> "inferred", weight |-> "strong", exposures |-> 0, skips |-> 0]

---------------------------------------------------------------------------
\* Prerequisites

\* Seeded variant: the filter that drops inferred prerequisites is lost.
EveryPrerequisiteGates(edges) ==
  {e \in DOMAIN edges : e.type = "prerequisite"}

\* What _gating_prereqs keeps: only spine and manual prerequisites gate.
GatingEdges(edges) ==
  {e \in DOMAIN edges : e.type = "prerequisite" /\ edges[e].provenance # "inferred"}

\* Seeded variant: the same loss, where one concept is asked about.
AllPrereqs(edges, c) == {e.src : e \in {g \in EveryPrerequisiteGates(edges) : g.dst = c}}

\* _gating_prereqs of one concept.
GatingPrereqs(edges, c) == {e.src : e \in {g \in GatingEdges(edges) : g.dst = c}}

\* The concepts on or behind a cycle of gating prerequisites, which no order of
\* learning reaches. Nothing in the code keeps cycles out: where the tail of a
\* spine source is the head of the next, the stitch gates a concept by itself.
Knotted(edges) ==
  UNION {K \in SUBSET Concepts : \A c \in K : \E e \in GatingEdges(edges) : e.dst = c /\ e.src \in K}

---------------------------------------------------------------------------
\* Exposure accounting. The citations of a grade are a sequence of
\* <<edge id, skipped>>: the ids traversed, then the ids skipped.

\* How many of them are recorded: those before the first that raises.
Parsed(cited) ==
  CHOOSE n \in 0 .. Len(cited) :
    /\ \A i \in 1 .. n : cited[i][1] \in EdgeKeys
    /\ n < Len(cited) => cited[n + 1][1] \notin EdgeKeys

\* A row after the first n citations; an id that is listed twice counts twice.
Exposed(row, e, cited, n) ==
  [provenance |-> row.provenance,
   weight |-> row.weight,
   exposures |-> row.exposures + Cardinality({i \in 1 .. n : cited[i][1] = e}),
   skips |-> row.skips + Cardinality({i \in 1 .. n : cited[i] = <<e, TRUE>>})]

\* Seeded variant: an edge the tutor names is taken for a curated one.
TrustingExposure(edges, cited, n) ==
  LET curated == [DefaultEdge EXCEPT !.provenance = "manual"]
  IN Upsert(edges, [e \in {cited[i][1] : i \in 1 .. n} |-> Exposed(RowOr(edges, e, curated), e, cited, n)])

\* record_exposure, once for each of the first n citations.
RecordExposure(edges, cited, n) ==
  Upsert(edges, [e \in {cited[i][1] : i \in 1 .. n} |-> Exposed(RowOr(edges, e, DefaultEdge), e, cited, n)])

---------------------------------------------------------------------------
\* FIRe

EncompassesOut(edges, c) == {e \in DOMAIN edges : e.type = "encompasses" /\ e.src = c}
EncompassesIn(edges, c) == {e \in DOMAIN edges : e.type = "encompasses" /\ e.dst = c}

\* The rating a link is worth at the given hop; AGAIN stands for None, which
\* no link emits downwards.
LinkRating(row, hop) ==
  LET base == CASE row.weight = "strong" -> GOOD
                [] row.weight = "medium" -> HARD
                [] row.weight = "weak" -> AGAIN
  IN IF base - (hop - 1) < HARD THEN AGAIN ELSE base - (hop - 1)

\* Seeded variant: blame follows the arrows down, as credit does.
BlameGoesDown(edges, c, rating) ==
  IF rating = AGAIN THEN {<<e.dst, AGAIN>> : e \in EncompassesOut(edges, c)} ELSE {}

\* Two hops at most: max_depth is 2, and a third hop would be below HARD anyway.
Emissions(edges, c, rating) ==
  LET firstHop == {e \in EncompassesOut(edges, c) : e.dst # c /\ LinkRating(edges[e], 1) # AGAIN}
      secondHop == {f \in UNION {EncompassesOut(edges, e.dst) : e \in firstHop} :
                       f.dst \notin {c, f.src} /\ LinkRating(edges[f], 2) # AGAIN}
  IN IF rating >= GOOD
     THEN {<<e.dst, LinkRating(edges[e], 1)>> : e \in firstHop}
            \cup {<<f.dst, LinkRating(edges[f], 2)>> : f \in secondHop}
     ELSE IF rating = AGAIN
     THEN {<<e.src, AGAIN>> : e \in EncompassesIn(edges, c)}
     ELSE {}

Strongest(emitted, x) ==
  CHOOSE r \in Rating : /\ <<x, r>> \in emitted
                        /\ \A q \in Rating : <<x, q>> \in emitted => q <= r

\* propagate(): at most one implicit review per concept, never the origin.
Credit(edges, c, rating) ==
  LET emitted == Emissions(edges, c, rating)
  IN [x \in {m[1] : m \in emitted} \ {c} |-> Strongest(emitted, x)]

\* Seeded variant: a concept reached by two paths is reviewed once for each.
UndedupedRows(rows, edges, c, rating) ==
  LET emitted == Emissions(edges, c, rating)
  IN [x \in {m[1] : m \in emitted} \ {c} |->
        [Review(RowOr(rows, x, Blank), Strongest(emitted, x)) EXCEPT
           !.reps = RowOr(rows, x, Blank).reps + Cardinality({m \in emitted : m[1] = x})]]

\* Seeded variant: implicit credit counts as learning.
PromotingRows(rows, edges, c, rating) ==
  LET credit == Credit(edges, c, rating)
  IN [x \in DOMAIN credit |->
        [Review(RowOr(rows, x, Blank), credit[x]) EXCEPT
           !.mastery = IF @ = "new" /\ credit[x] >= GOOD THEN "learning" ELSE @]]

\* The rows the FIRe loop of grade() writes: the scheduler's review of what is
\* stored, under the concept's own id, with its mastery as it was.
ImplicitRows(rows, edges, c, rating) ==
  LET credit == Credit(edges, c, rating)
  IN [x \in DOMAIN credit |-> Review(RowOr(rows, x, Blank), credit[x])]

---------------------------------------------------------------------------
ASSUME ConceptsFinite == IsFiniteSet(Concepts)
ASSUME InitEdgesIsTable == EdgeTable(InitEdges)
=============================================================================

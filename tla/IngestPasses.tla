---------------------------- MODULE IngestPasses ----------------------------
(***************************************************************************)
(* The passes every source goes through (ingestion/passes.py): Extract,     *)
(* Dedupe, Spine, InferEdges and Verify, and the statements that persist     *)
(* their result (ingestion/pipeline.py). Each is an operator from the        *)
(* working set to the working set; what the models answer is an argument.    *)
(*                                                                          *)
(* A concept id "<course>/<slug>" is a number, ordered as the strings are.   *)
(* A look is what the embedding of a body tells apart. An ingest of one      *)
(* source cites one file, so source_of maps every id to that source.         *)
(***************************************************************************)
EXTENDS Integers, Sequences, FiniteSets, SequencesExt

CONSTANTS
  ConceptIds,   \* the ids a slug may lead to
  Files,        \* the files an answer may cite, real ones and invented ones
  Looks,        \* classes of bodies
  Similar       \* the pairs of looks whose cosine reaches the threshold

NoSlug == 0                \* an item with neither a usable id nor a title
NoFile == "no file"        \* a citation without a file, and None
NoLine == 0                \* a citation without a line
AfterAllLines == 1000      \* math.inf

EdgeTypes == {"prerequisite", "encompasses", "related"}

Ref == [file : Files \cup {NoFile}, line : Nat]
Item == [id : ConceptIds \cup {NoSlug}, look : Looks, refs : Seq(Ref)]
Proposal == [src : ConceptIds \cup {NoSlug}, type : EdgeTypes \cup {"unknown"},
             dst : ConceptIds \cup {NoSlug}, cite : Files \cup {NoFile}]

\* A vector is as similar to itself as can be (no body embeds to zero).
ASSUME SimilarReflexive == \A l \in Looks : <<l, l>> \in Similar
ASSUME IdsAreNumbers == ConceptIds \subseteq Nat \ {NoSlug}

ASSUME NoFileIsNoFile == NoFile \notin Files

\* The items of s at the positions P, in their order: what a loop keeps.
Pick(s, P) ==
  LET picked[n \in 0 .. Len(s)] ==
        IF n = 0 THEN <<>> ELSE IF n \in P THEN Append(picked[n - 1], s[n]) ELSE picked[n - 1]
  IN picked[Len(s)]

---------------------------------------------------------------------------
\* Citations

WithFile(refs) == Pick(refs, {n \in DOMAIN refs : refs[n].file # NoFile})

\* _union_refs: order kept, duplicates dropped.
UnionRefs(primary, extra) ==
  LET both == primary \o extra
  IN Pick(both, {n \in DOMAIN both : \A m \in 1 .. n - 1 : both[m] # both[n]})

\* refs[0] if refs else None
FirstFile(refs) == IF refs = <<>> THEN NoFile ELSE refs[1].file

Grounded(refs, files) == \E r \in ToSet(refs) : r.file \in files

---------------------------------------------------------------------------
\* Completions

\* complete() swallows a failed request: the answer is then empty, and what
\* asked for it goes on as if the model had found nothing.
Completions(answers) == answers \cup {<<>>}

---------------------------------------------------------------------------
\* Extract and Dedupe

\* One candidate per item with an identity; an uncited one stays uncited.
Extract(items) ==
  LET usable == Pick(items, {n \in DOMAIN items : items[n].id # NoSlug})
  IN [n \in DOMAIN usable |-> [usable[n] EXCEPT !.refs = WithFile(@)]]

\* concept_content_for(): the first body under the id.
BodyOf(found, c) == found[SelectInSeq(found, LAMBDA d : d.id = c.id)].look

\* _first_match
FirstMatch(kept, look) == SelectInSeq(kept, LAMBDA rep : <<look, rep.look>> \in Similar)

Fold(kept, c) ==
  LET match == FirstMatch(kept, c.look)
  IN IF match = 0
     THEN Append(kept, c)
     ELSE [kept EXCEPT ![match].refs = UnionRefs(@, c.refs)]

\* Candidates fold, in order, into the first survivor they resemble.
Dedupe(found) ==
  LET survivors[n \in 0 .. Len(found)] ==
        IF n = 0 THEN <<>> ELSE Fold(survivors[n - 1], [found[n] EXCEPT !.look = BodyOf(found, found[n])])
  IN survivors[Len(found)]

---------------------------------------------------------------------------
\* Spine

FirstLine(c) ==
  LET lines == {r.line : r \in ToSet(c.refs)} \ {NoLine}
  IN IF lines = {} THEN AfterAllLines ELSE CHOOSE l \in lines : \A m \in lines : l <= m

\* Seeded variant: a chapter's concepts in the order of their ids.
ByIdOnly(c, d) == c.id < d.id

\* spine_within_source_key: first cited line, then id.
Precedes(c, d) ==
  \/ FirstLine(c) < FirstLine(d)
  \/ FirstLine(c) = FirstLine(d) /\ c.id < d.id

\* Ids are unique once deduplicated, so the key orders the concepts strictly.
InDocumentOrder(concepts) ==
  CHOOSE o \in [1 .. Cardinality(concepts) -> concepts] :
    \A m, n \in DOMAIN o : m < n => Precedes(o[m], o[n])

SpineEdge(c, d) ==
  [src |-> c.id, type |-> "prerequisite", dst |-> d.id, provenance |-> "spine", cite |-> FirstFile(c.refs)]

Spine(concepts) ==
  LET ordered == InDocumentOrder(ToSet(concepts))
  IN [n \in 1 .. Len(ordered) - 1 |-> SpineEdge(ordered[n], ordered[n + 1])]

---------------------------------------------------------------------------
\* InferEdges

Inferred(p) ==
  [src |-> p.src, type |-> p.type, dst |-> p.dst, provenance |-> "inferred", cite |-> p.cite]

\* Seeded variant: a type the graph does not know is kept.
AnyType(p) == NoSlug \notin {p.src, p.dst} /\ p.src # p.dst

WellFormed(p) == NoSlug \notin {p.src, p.dst} /\ p.src # p.dst /\ p.type \in EdgeTypes

\* Seeded variant: what the spine already says may be guessed as well.
InferOverSpine(spine, proposals) ==
  LET usable == Pick(proposals, {n \in DOMAIN proposals : WellFormed(proposals[n])})
  IN [n \in DOMAIN usable |-> Inferred(usable[n])]

\* What is kept of the proposals: no prerequisite that the spine already has,
\* and none into the head of the spine.
InferEdges(spine, proposals) ==
  LET keys == {<<e.src, e.dst>> : e \in ToSet(spine)}
      heads == {k[1] : k \in keys} \ {k[2] : k \in keys}
      shadows(p) == p.type = "prerequisite" /\ (<<p.src, p.dst>> \in keys \/ p.dst \in heads)
      usable == Pick(proposals, {n \in DOMAIN proposals : WellFormed(proposals[n]) /\ ~shadows(proposals[n])})
  IN [n \in DOMAIN usable |-> Inferred(usable[n])]

---------------------------------------------------------------------------
\* Verify

\* Seeded variant: an edge passes with its endpoints.
VerifyEndpointsOnly(concepts, edges, files) ==
  LET kept == Pick(concepts, {n \in DOMAIN concepts : Grounded(concepts[n].refs, files)})
      ids == {c.id : c \in ToSet(kept)}
  IN [concepts |-> kept, edges |-> Pick(edges, {n \in DOMAIN edges : {edges[n].src, edges[n].dst} \subseteq ids})]

\* The grounding gate: concepts that cite an input, and edges that cite one
\* between concepts that are left.
Verify(concepts, edges, files) ==
  LET kept == Pick(concepts, {n \in DOMAIN concepts : Grounded(concepts[n].refs, files)})
      ids == {c.id : c \in ToSet(kept)}
  IN [concepts |-> kept,
      edges |-> Pick(edges, {n \in DOMAIN edges :
                               {edges[n].src, edges[n].dst} \subseteq ids /\ edges[n].cite \in files})]

---------------------------------------------------------------------------
\* The graph-only pipeline of one source, and its statements

\* An empty working set has no spine and is not asked about edges.
RunPasses(items, proposals, file, isSpine) ==
  LET concepts == Dedupe(Extract(items))
      spine == IF isSpine /\ concepts # <<>> THEN Spine(concepts) ELSE <<>>
      inferred == IF concepts = <<>> THEN <<>> ELSE InferEdges(spine, proposals)
  IN Verify(concepts, spine \o inferred, {file})

\* For the properties: the ids after which the gate takes a concept out of the spine.
Gaps(items, file) ==
  LET ordered == InDocumentOrder(ToSet(Dedupe(Extract(items))))
  IN {ordered[n].id : n \in {m \in 1 .. Len(ordered) - 1 : ~Grounded(ordered[m + 1].refs, {file})}}

\* persist(): prose, row and embedding of every concept, then the edges.
Statements(set) ==
  LET steps == 3 * Len(set.concepts)
  IN [n \in 1 .. steps + Len(set.edges) |->
        IF n <= steps
        THEN [op |-> <<"prose", "row", "vector">>[1 + ((n - 1) % 3)], arg |-> set.concepts[1 + ((n - 1) \div 3)]]
        ELSE [op |-> "edge", arg |-> set.edges[n - steps]]]
=============================================================================

----------------------------- MODULE CourseBuild -----------------------------
(***************************************************************************)
(* The build commands (app/build.py): ingest() with its pool of source       *)
(* threads, the stitching of spine sources, and the linker's repair of       *)
(* isolated concepts (linking/embedding_linker.py), statement by statement   *)
(* over the concept and edge tables and the OKF bundle, next to a tutor that *)
(* counts exposures on the same edges.                                      *)
(***************************************************************************)
EXTENDS IngestPasses, Policies

CONSTANTS
  Sources,      \* the manifest: a sequence of [file, spine, procure]
  Answers,      \* what extraction may answer: source -> sequences of items
  Proposals,    \* what edge inference may answer: source -> sequences of proposals
  Cited,        \* the edges the tutor may cite
  LinkAnswers,  \* what the linker may be answered about one group
  GroupSize,    \* isolated concepts the linker asks about at once
  Pools,        \* bound: the builds of a behaviour, as sequences of their worker counts
  MaxFaults,    \* bound: sources, commands and requests to a model that fail in a behaviour
  MaxCites      \* bound: citations by the tutor in a behaviour

SourceIds == DOMAIN Sources
Inputs == {Sources[i].file : i \in SourceIds}

ASSUME SourcesType == Sources \in Seq([file : Files, spine : BOOLEAN, procure : BOOLEAN])
ASSUME AnswersType == \A i \in SourceIds : Answers[i] \subseteq Seq(Item) /\ Proposals[i] \subseteq Seq(Proposal)
ASSUME LinkAnswersType == LinkAnswers \subseteq Seq(Proposal)
ASSUME CitedType == Cited \subseteq ConceptIds \X EdgeTypes \X ConceptIds
ASSUME BuildBounds == GroupSize \in Nat \ {0} /\ Pools \subseteq Seq(Nat \ {0}) /\ {MaxFaults, MaxCites} \subseteq Nat

VARIABLES
  rows,       \* concept: id -> its citations and the hash of its prose
  vectors,    \* concept.embedding: id -> the look it was computed from
  bundle,     \* the OKF bundle: id -> the document
  edges,      \* edge: <<src, type, dst>> -> EdgeRow
  present,    \* the sources whose file exists
  stage,      \* what the command is doing
  work,       \* ingest(): source -> its thread (and the gaps its gate left, for the properties)
  queue,      \* the edges the main thread has still to upsert
  workers,    \* _worker_count(): threads of the running build
  builds,     \* the worker counts of the builds to come
  cites,      \* citations made
  faults,     \* sources, commands and requests that failed
  placed,     \* <<id, source, line>> under which a spine source produced a concept
  again,      \* ids produced more than once
  misquoted,  \* ids produced with an invented file as first citation
  torn,       \* ids whose prose, row and vector two writers or a failure mixed
  seen        \* the edges there were when the linker looked for isolated concepts

vars == <<rows, vectors, bundle, edges, present, stage, work, queue, workers, builds, cites, faults,
          placed, again, misquoted, torn, seen>>

store == <<rows, vectors, bundle, edges, torn>>
ghosts == <<placed, again, misquoted, seen>>

EdgeKey == ConceptIds \X EdgeTypes \X ConceptIds
EdgeRow == [provenance : {"spine", "inferred"}, cite : Files \cup {NoFile}, exposures : Nat, skips : Nat]

\* The hash of a document stands for what it says.
Doc(c) == [look |-> c.look, refs |-> c.refs]
Key(e) == <<e.src, e.type, e.dst>>
Fresh(e) == [provenance |-> e.provenance, cite |-> e.cite, exposures |-> 0, skips |-> 0]

\* The upsert of an edge overwrites every column, the counters included.
UpsertEdge(e) == edges' = Upsert(edges, [k \in {Key(e)} |-> Fresh(e)])

NoThread == [phase |-> "waiting", todo |-> <<>>, result |-> <<>>, gaps |-> {}]
Idle == [i \in SourceIds |-> NoThread]

Running == {i \in SourceIds : work[i].phase = "running" /\ work[i].todo # <<>>}
Finished(i) == work[i].phase \in {"pending", "failed"} \/ (work[i].phase = "running" /\ work[i].todo = <<>>)

\* The concepts that thread i has written a part of.
Halfway(i) == IF i \in Running /\ Head(work[i].todo).op \in {"row", "vector"}
              THEN {Head(work[i].todo).arg.id} ELSE {}
HalfwayBut(i) == UNION {Halfway(j) : j \in SourceIds \ {i}}

---------------------------------------------------------------------------
\* ingest()

\* Slots still to be procured are skipped.
StartBuild ==
  /\ stage = "idle" /\ builds # <<>>
  /\ workers' = Head(builds) /\ builds' = Tail(builds)
  /\ stage' = "ingest"
  /\ work' = [i \in SourceIds |->
                [NoThread EXCEPT !.phase = IF Sources[i].procure /\ i \notin present THEN "pending" ELSE @]]
  /\ UNCHANGED <<store, present, queue, cites, faults, ghosts>>

\* A thread takes the next source, reads it and runs the passes.
Ingest(i) ==
  /\ stage = "ingest" /\ i \in present /\ work[i].phase = "waiting"
  /\ \A j \in 1 .. i - 1 : work[j].phase # "waiting"
  /\ Cardinality(Running) < workers
  /\ \E items \in Completions(Answers[i]), proposals \in Completions(Proposals[i]) :
       LET set == RunPasses(items, proposals, Sources[i].file, Sources[i].spine)
           made == ToSet(set.concepts)
       IN /\ work' = [work EXCEPT ![i] = [phase |-> "running", todo |-> Statements(set), result |-> set.concepts,
                                          gaps |-> Gaps(items, Sources[i].file)]]
          /\ again' = again \cup {c.id : c \in {d \in made : d.id \in {p[1] : p \in placed}}}
          /\ faults' = faults + (IF items \in Answers[i] /\ proposals \in Proposals[i] THEN 0 ELSE 1)
          /\ placed' = placed \cup {<<c.id, i, FirstLine(c)>> : c \in made}
          /\ misquoted' = misquoted \cup {c.id : c \in {d \in made : FirstFile(d.refs) \notin Inputs}}
  /\ faults' <= MaxFaults
  /\ UNCHANGED <<store, present, stage, queue, workers, builds, cites, seen>>

\* The thread raises: what it has committed stays, its source is given up.
SourceFails(i) ==
  /\ stage = "ingest" /\ faults < MaxFaults
  /\ work[i].phase = "waiting" \/ i \in Running
  /\ faults' = faults + 1
  /\ work' = [work EXCEPT ![i] = [NoThread EXCEPT !.phase = "failed"]]
  /\ torn' = torn \cup Halfway(i)
  /\ UNCHANGED <<rows, vectors, bundle, edges, present, stage, queue, workers, builds, cites, ghosts>>

\* The thread's next statement is op, on c.
Executes(i, op, c) ==
  /\ stage = "ingest" /\ i \in Running
  /\ Head(work[i].todo) = [op |-> op, arg |-> c]
  /\ work' = [work EXCEPT ![i].todo = Tail(@)]
  /\ UNCHANGED <<present, stage, queue, workers, builds, cites, faults, ghosts>>

Writes(i) == IF i \in Running THEN {Head(work[i].todo).arg} ELSE {}

WriteProse(i) == \E c \in Writes(i) :
  /\ Executes(i, "prose", c)
  /\ bundle' = Upsert(bundle, [x \in {c.id} |-> Doc(c)])
  /\ torn' = IF c.id \in HalfwayBut(i) THEN torn \cup {c.id} ELSE torn \ {c.id}
  /\ UNCHANGED <<rows, vectors, edges>>

\* Seeded variant: a row that exists is left alone.
InsertRow(i) == \E c \in Writes(i) :
  /\ Executes(i, "row", c)
  /\ rows' = Upsert([x \in {c.id} |-> [refs |-> c.refs, hash |-> Doc(c)]], rows)
  /\ UNCHANGED <<vectors, bundle, edges, torn>>

WriteRow(i) == \E c \in Writes(i) :
  /\ Executes(i, "row", c)
  /\ rows' = Upsert(rows, [x \in {c.id} |-> [refs |-> c.refs, hash |-> Doc(c)]])
  /\ UNCHANGED <<vectors, bundle, edges, torn>>

WriteVector(i) == \E c \in Writes(i) :
  /\ Executes(i, "vector", c)
  /\ vectors' = Upsert(vectors, [x \in {c.id} \cap DOMAIN rows |-> c.look])
  /\ UNCHANGED <<rows, bundle, edges, torn>>

WriteEdge(i) == \E e \in Writes(i) :
  /\ Executes(i, "edge", e)
  /\ UpsertEdge(e)
  /\ UNCHANGED <<rows, vectors, bundle, torn>>

---------------------------------------------------------------------------
\* Stitching

Ordered(i) == InDocumentOrder(ToSet(work[i].result))

\* The spine sources that produced something, and each with the next one.
SpineRuns == {i \in SourceIds : Sources[i].spine /\ work[i].result # <<>>}
Neighbours == {p \in SpineRuns \X SpineRuns : p[1] < p[2] /\ \A j \in SpineRuns : j <= p[1] \/ p[2] <= j}

\* Seeded variant: head and tail in the order of the model's answer.
StitchesAsAnswered ==
  {SpineEdge(Last(work[p[1]].result), Head(work[p[2]].result)) : p \in Neighbours}

\* One edge from the tail of each to the head of the next.
Stitches == {SpineEdge(Last(Ordered(p[1])), Head(Ordered(p[2]))) : p \in Neighbours}

Stitch ==
  /\ stage = "ingest" /\ \A i \in SourceIds : Finished(i)
  /\ queue' = Stitches
  /\ stage' = "stitch"
  /\ UNCHANGED <<store, present, work, workers, builds, cites, faults, ghosts>>

UpsertQueued(e) ==
  /\ stage \in {"stitch", "link"} /\ e \in queue
  /\ UpsertEdge(e)
  /\ queue' = queue \ {e}
  /\ UNCHANGED <<rows, vectors, bundle, torn, present, stage, work, workers, builds, cites, faults, ghosts>>

---------------------------------------------------------------------------
\* link()

\* Seeded variant: only an outgoing edge counts.
NoOutEdges == {c \in DOMAIN rows : \A k \in DOMAIN edges : k[1] # c}

Isolated == {c \in DOMAIN rows : \A k \in DOMAIN edges : c \notin {k[1], k[3]}}

\* Consecutive groups of the isolated concepts, in the order of their ids.
Groups(isolated) ==
  LET rank(c) == Cardinality({d \in isolated : d <= c})
      count == (Cardinality(isolated) + GroupSize - 1) \div GroupSize
  IN [n \in 1 .. count |-> {c \in isolated : (n - 1) * GroupSize < rank(c) /\ rank(c) <= n * GroupSize}]

\* _accept: edges anchored in the group (the source first) whose other end is a
\* known concept, grounded at the anchor's first citation.
Accept(answer, group) ==
  LET anchor(p) == IF p.src \in group THEN p.src ELSE p.dst
  IN {[src |-> p.src, type |-> p.type, dst |-> p.dst, provenance |-> "inferred",
       cite |-> FirstFile(rows[anchor(p)].refs)] :
        p \in {q \in ToSet(answer) : WellFormed(q) /\ group \cap {q.src, q.dst} # {}
                                       /\ {q.src, q.dst} \subseteq DOMAIN rows}}

\* The linker reads concepts and edges, asks about every group, and keeps what
\* it accepts, the last one of two with the same id.
LinkIsolated ==
  /\ \/ stage = "stitch" /\ queue = {}
     \/ stage = "idle"
  /\ LET groups == Groups(Isolated)
     IN \E answers \in [DOMAIN groups -> Completions(LinkAnswers)] :
          LET accepted == [n \in DOMAIN groups |-> Accept(answers[n], groups[n])]
              later(n, e) == \E m \in DOMAIN groups : m > n /\ \E f \in accepted[m] : Key(f) = Key(e)
          IN /\ queue' = UNION {{e \in accepted[n] : ~later(n, e)} : n \in DOMAIN groups}
             /\ faults' = faults + (IF ToSet(answers) \subseteq LinkAnswers THEN 0 ELSE 1)
  /\ faults' <= MaxFaults
  /\ stage' = "link"
  /\ work' = Idle
  /\ seen' = DOMAIN edges
  /\ UNCHANGED <<store, present, workers, builds, cites, placed, again, misquoted>>

EndCommand ==
  /\ stage \in {"stitch", "link"} /\ queue = {}
  /\ stage' = "idle"
  /\ work' = Idle /\ seen' = {}
  /\ UNCHANGED <<store, present, queue, workers, builds, cites, faults, placed, again, misquoted>>

\* An exception that no stage catches, or the end of the process.
Abort ==
  /\ stage # "idle" /\ faults < MaxFaults
  /\ faults' = faults + 1
  /\ torn' = torn \cup UNION {Halfway(i) : i \in SourceIds}
  /\ stage' = "idle" /\ work' = Idle /\ queue' = {} /\ seen' = {}
  /\ UNCHANGED <<rows, vectors, bundle, edges, present, workers, builds, cites, placed, again, misquoted>>

---------------------------------------------------------------------------
\* The environment

\* The learner procures a file that was missing.
Procure(i) ==
  /\ i \notin present
  /\ present' = present \cup {i}
  /\ UNCHANGED <<store, stage, work, queue, workers, builds, cites, faults, ghosts>>

\* record_exposure() of the tutor's grade, on an edge that need not exist.
Cite(k, skip) ==
  /\ cites < MaxCites
  /\ {k[1], k[3]} \subseteq DOMAIN rows
  /\ LET row == RowOr(edges, k, [provenance |-> "inferred", cite |-> NoFile, exposures |-> 0, skips |-> 0])
     IN edges' = Upsert(edges, [x \in {k} |-> [row EXCEPT !.exposures = @ + 1, !.skips = @ + skip]])
  /\ cites' = cites + 1
  /\ UNCHANGED <<rows, vectors, bundle, torn, present, stage, work, queue, workers, builds, faults, ghosts>>

---------------------------------------------------------------------------
Init ==
  /\ rows = <<>> /\ vectors = <<>> /\ bundle = <<>> /\ edges = <<>>
  /\ present = {i \in SourceIds : ~Sources[i].procure}
  /\ stage = "idle" /\ work = Idle /\ queue = {}
  /\ workers = 0 /\ builds \in Pools /\ cites = 0 /\ faults = 0
  /\ placed = {} /\ again = {} /\ misquoted = {} /\ torn = {} /\ seen = {}

Next ==
  \/ StartBuild \/ Stitch \/ LinkIsolated \/ EndCommand \/ Abort
  \/ \E i \in SourceIds :
       \/ Ingest(i) \/ SourceFails(i) \/ Procure(i)
       \/ WriteProse(i) \/ WriteRow(i) \/ WriteVector(i) \/ WriteEdge(i)
  \/ \E e \in queue : UpsertQueued(e)
  \/ \E k \in Cited, skip \in {0, 1} : Cite(k, skip)

Spec == Init /\ [][Next]_vars

---------------------------------------------------------------------------
\* Properties

\* Every table and every local variable has values of its type.
TypeOK ==
  /\ DOMAIN rows \subseteq ConceptIds /\ DOMAIN vectors \subseteq DOMAIN rows
  /\ \A c \in DOMAIN rows : rows[c].refs \in Seq(Ref)
  /\ \A c \in DOMAIN vectors : vectors[c] \in Looks
  /\ DOMAIN edges \subseteq EdgeKey
  /\ \A k \in DOMAIN edges : edges[k] \in EdgeRow
  /\ stage \in {"idle", "ingest", "stitch", "link"}
  /\ stage \in {"idle", "link"} => work = Idle
  /\ stage \in {"idle", "ingest"} => queue = {}
  /\ present \subseteq SourceIds /\ torn \cup again \cup misquoted \subseteq ConceptIds

\* The backbone runs with the documents: a stored spine edge leads from a
\* concept to one that some ingest found later in the same spine source, or in a
\* later one of the manifest, whatever sources failed, were pending or came back
\* in another run (app/build.py:379-435, passes.py:551-625). Where no concept
\* was found in two places, the gates therefore form no cycle.
SpineFollowsDocuments ==
  \A k \in DOMAIN edges : edges[k].provenance = "spine" =>
    \E p, q \in placed :
      /\ p[1] = k[1] /\ q[1] = k[3]
      /\ Sources[p[2]].spine /\ Sources[q[2]].spine
      /\ \/ p[2] < q[2]
         \/ p[2] = q[2] /\ p[3] < q[3]
         \/ p[2] = q[2] /\ p[3] = q[3] /\ p[1] < q[1]

\* When the stitches are in, the backbone is whole: from each concept of a spine
\* source that came through, in document order, a trusted edge leads to the
\* source's next one, unless its first citation is of another file (Verify drops
\* the edge), Verify took a concept out between the two, or another ingest
\* produced both; and one leads from each source's tail to the head of the next
\* (app/build.py:379-435, passes.py:565-608, 941-984).
SpineUnbroken ==
  stage = "stitch" /\ queue = {} =>
    LET trusted(c, d) ==
          LET k == <<c.id, "prerequisite", d.id>>
          IN {c.id, d.id} \subseteq again \/ (k \in DOMAIN edges /\ edges[k].provenance = "spine")
    IN /\ \A i \in SpineRuns : \A n \in 1 .. Len(Ordered(i)) - 1 :
            \/ trusted(Ordered(i)[n], Ordered(i)[n + 1])
            \/ FirstFile(Ordered(i)[n].refs) # Sources[i].file
            \/ Ordered(i)[n].id \in work[i].gaps
       /\ \A p \in Neighbours : trusted(Last(Ordered(p[1])), Head(Ordered(p[2])))

\* "Nothing reaches persistence that cannot be traced to a source file present
\* in the ingest input" (passes.py:22-28): every row cites an input, and so does
\* every edge of a build between stored concepts; but a stitched edge or a
\* repair cites its concept's first citation, which may be an invented one.
NothingFabricated ==
  /\ \A c \in DOMAIN rows : Grounded(rows[c].refs, Inputs)
  /\ \A k \in DOMAIN edges :
       /\ {k[1], k[3]} \subseteq DOMAIN rows
       /\ edges[k].cite \in Inputs \cup {NoFile} \/ {k[1], k[3]} \cap misquoted # {}
       /\ edges[k].cite = NoFile => edges[k].exposures > 0

\* Prose, row and embedding of a concept come from the same extraction, unless
\* two threads wrote it at once or one stopped half way; a later undisturbed
\* ingest heals it. A row never lacks its prose (pipeline.py:75-117).
RowTellsContent ==
  /\ DOMAIN rows \subseteq DOMAIN bundle
  /\ \A c \in DOMAIN rows \ (torn \cup UNION {Halfway(i) : i \in SourceIds}) :
       rows[c].hash = bundle[c] /\ c \in DOMAIN vectors /\ vectors[c] = bundle[c].look

\* A trusted edge is never demoted to a guess, by inference, by the linker or by
\* the tutor, as long as one of its ends was produced only once: only a second
\* source that teaches both, or a second ingest, can (passes.py:630-640).
BackboneKept ==
  [][\A k \in DOMAIN edges :
       edges[k].provenance = "spine" /\ ~({k[1], k[3]} \subseteq again')
         => edges'[k].provenance = "spine"]_vars

\* The linker adds and never overwrites: in its stage an edge that existed when
\* it looked keeps its provenance, its citation and the exposures counted on it
\* (embedding_linker.py:150-201).
LinkOnlyAdds ==
  [][stage = "link" =>
       \A k \in seen :
         /\ edges'[k].provenance = edges[k].provenance /\ edges'[k].cite = edges[k].cite
         /\ edges'[k].exposures >= edges[k].exposures]_vars
=============================================================================

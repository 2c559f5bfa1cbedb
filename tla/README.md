# Verification of hermes-curriculum

A curriculum engine keeps a graph of concepts for a course, decides what a
learner should be taught, reviewed or tested on next, and remembers how it
went. An LLM tutor talks to it through MCP tools; build commands fill it from
course material. This directory models its control in TLA+, checks the models
with TLC on small instances and proves the main results with TLAPS.

Paths below are relative to `src/src/curriculum/`.

## 1. Inventory

| Component | State | Operations | Talks to | What is hard |
|---|---|---|---|---|
| Grading, `application/service.py` `grade()`, `application/policies.py` | `learner_state`, `review_log`, `edge` counters | grade, ladder, rating map | scheduler, FIRe, repositories | eight kinds of autocommit statement, each of which may be the last; no lock; a citation that raises half way |
| FIRe, `engine/fire.py` | none | propagate (down with depth cap and floor, up one hop) | edges | cycles, diamonds, strongest credit once |
| FSRS, `engine/fsrs.py` | a `learner_state` row | review, retrievability | - | real arithmetic; counters |
| Fringe and selection, `service.py` `next_action()`, `engine/selection.py` | last cluster | candidates from due rows, fringe, escalated links; sample | states, edges | a way on always exists; hard-due preempts |
| Check-in, frontier, `service.py` `checkin()`, `engine/snapshot.py` | `engagement_log` | unlocks_ready, near_unlocks, stability-days, ripeness, delta | states, edges, log | same rows read by different code, at different moments; the delta is a read and a later append |
| Repositories, `storage/postgres.py`, `storage/memory.py` | the tables; the dicts | upserts, queries, `record_exposure`, cascades | - | two families behind the same ports, tests run on one, production on the other; a cited edge is created |
| Question bank, `app/build.py` `generate_questions()`, `service.py` `quiz()`, `flag_question()` | `question`, bundle `questions/` | generate, serve, retire | provider, two stores | failing completions, overlap, crash, kill switch against regeneration |
| Learner model, `application/learner_model.py` | `learner_note` | remember, review_result, resolve | scheduler | read-modify-write, idempotence |
| Connections, `storage/postgres.py` `connect()` | one autocommit connection per process | - | - | nothing spans two statements |
| Ingestion, `ingestion/passes.py`, `ingestion/pipeline.py` | the working set of one source | extract, dedupe, spine, infer, verify, persist | provider, repositories | near-duplicates, invented citations, empty completions, three stores per concept |
| Build and linker, `app/build.py`, `linking/embedding_linker.py` | `concept`, `edge`, bundle | ingest with a thread pool, stitch, link | pipeline, repositories | failing and pending sources, two sources for one concept, reads long before the upserts that rely on them, re-runs |
| Graph sync, `sync/graph_sync.py` | `concept`, embeddings | reconcile | bundle, embedder | embedding failure, orphans, documents changing underneath |
| OKF bundle, `storage/okf_content.py` | files | put, get, walk | - | written in place; boundaries searched for in the text |
| MCP server, CLI, configuration, archetypes, scoring, providers | none the properties depend on | routing, wiring, pure functions, network | all | - |

Correctness of each: rows and log tell the same story of the learner (grading);
the walk ends and pays the strongest credit once (FIRe); gates move by grades
of ingested prerequisites only and never leave the learner without a next step
(fringe); the two readings of the gate differ at most by what was graded between them
(check-in); what is served has
prose and was not retired (bank); a note is remembered once, reviews count,
resolutions stay (learner model); the backbone follows the documents, has no gap
and is not demoted to a guess, and nothing is stored that cites no input (build);
the index is the projection of the bundle and the learner's rows survive it
(sync); both families of adapters answer alike (repositories). The hazards behind these, at their lines, are
listed in `PROJECT.json`.

## 2. Modules

| Module | Models | Extends |
|---|---|---|
| `Policies` | rating map, mastery ladder, counters of a review, upsert | - |
| `CourseGraph` | the edge table, the gate, exposure, FIRe in closed form | `Policies` |
| `Curriculum` | the service with its handlers atomic: grade, raising grade, next_action, ageing; next to them the readings of `checkin()`, statement by statement | `CourseGraph` |
| `Fire` | `propagate()` as the depth-first walk it is, edge by edge, and the loop of `_dedup()` over what it emitted | `CourseGraph` |
| `GradeSessions` | `grade()` as separate statements of several processes, with refusals and crashes | `CourseGraph` |
| `SoloGrade` | `GradeSessions` with one process, mapped to `Curriculum` | `GradeSessions`, instance of `Curriculum` |
| `QuestionBank` | generation, serving, kill switch | `Policies` |
| `LearnerNotes` | the learner model as read and write statements of several processes | `Policies` |
| `IngestPasses` | the passes of one source as operators on the working set, and the statements of `persist()` | - |
| `CourseBuild` | ingest with source threads, stitching, linking, next to a tutor | `IngestPasses`, `Policies` |
| `StoreTypes` | what the repository ports exchange | - |
| `MemoryStore`, `PostgresStore` | every operation of every repository, in both families | `StoreTypes` |
| `Stores` | both families side by side, each call made on both | `StoreTypes`, instances of the two |
| `OkfFormat` | joining and splitting of documents | - |
| `GraphSync` | `reconcile()` and the files it walks | `Stores`, `OkfFormat` |
| `CheckIn` | `checkin()`, `frontier()`, `flag_question()` and the readings of `engine/snapshot.py` | `Stores` |
| `LearnerDesk` | all clients of the stores at once | `GraphSync`, `CheckIn` |
| `CourseGraphLemmas`, `CurriculumProofs`, `GradeSessionsProofs`, `FireProofs` | lemmas about the graph operators; theorems of the three modules that use them | the module they are about |
| `QuestionBankProofs`, `LearnerNotesProofs` | theorems of the two modules | the module they are about |
| `CourseBuildProofs` | lemmas about the passes; theorems of the build | `CourseBuild` |
| `LearnerDeskProofs` | lemmas about the format, the listings and both families; theorems of all clients together | `LearnerDesk` |
| `MC...` | instances for TLC | the module they instantiate |

How state and actions correspond to the code:

* A table is a function from its primary key to rows; a key outside its domain
  has no row. `states` is `learner_state`, `log` is `review_log` (per concept,
  oldest first), `edges` is `edge`, `questions` is `question`, `content` is the
  bundle's `questions/`, `notes` is `learner_note`.
* In `Curriculum` one action is one handler: the row, the log entry, the
  exposures and the ripples of `grade()` in one step (`Grade`), and the prefix
  of them a citation that raises leaves behind (`GradeRaises`). `checkin()` runs in
  a process of its own and is not one action: `check` holds what it has read.
  `OpenCheck` takes the rows of the course (`service.py:425`), `ReadNear` counts
  missing prerequisites over them (`:438-439`), `ReadGate` and `ReadRow` are the
  queries of `_prereqs_satisfied()` (`:443`, `:150-156`), one edge query and
  then one row after the other until one is not mastered. A grade is atomic here
  because nothing these readings rely on is halfway during one: a grade changes the
  mastery of one concept, in one upsert; ripples give a row to a concept of mastery
  `new`, and edges that gate do not change. `ReadNear` makes one step of several
  edge queries for the same reason.
* In `GradeSessions` one action is one SQL statement and `sess[s]` holds the
  Python locals of the call (`pc`, the row read, the grades read, the ids still
  to be recorded, the credits still owed). `propagate()` is one step although
  it reads edges in several queries: during a session edges only change by
  exposure counters, which it does not read, and by edges a citation creates.
* In `QuestionBank` prose and row are written by two steps of a run, and `quiz()`
  is the two reads it is. Prose and metadata carry the number of the run that
  wrote them.
* In `LearnerNotes` every call is a read that computes the whole row and a write.
* In `Fire` a frame of the walk is `_walk_down`'s call with its loop variable; the list it
  has appended to is `emissions`, and `Dedup` takes one entry of it per step, in the
  order the walk emitted them.
* In `IngestPasses` a pass is an operator and the answers of the models are its
  arguments. `CourseBuild.Ingest` is the part of `_ingest_source()` before its
  first write: reading, the passes and their completions touch no store. Every
  later statement (prose, row, vector of each concept, then the edges) is an
  action of that thread; `work[i].todo` is what is left of `persist()`.
* `stage` in `CourseBuild` is where the command is: `ingest`, `stitch`, `link`.
  `build` goes through all of them, `ingest` ends after the stitches, `link`
  starts from `idle`; `EndCommand`, `LinkIsolated` and `StartBuild` leave the
  three open. `generate_questions()`, the last stage of `build`, is `QuestionBank`.
* A store is a record of tables; an operation is an operator from a store (and
  its arguments) to a store or an answer. `Stores` applies the two families'
  operators to `pg` and `ref`. Listings are compared in their order (`ListedBy`: by a
  key, ties by id, as every `ORDER BY` and every `sort` of the two ends), those of edges
  as sets: the dict is sorted by the string `src::type::dst`, the table by its columns.
  The review log is kept per concept, since it is only read so.
* In `GraphSync` each action is one read or write of `reconcile()`; `sync` holds
  its locals and its report. A hash is the document it is computed from. The walk
  passes over the ids in `Reserved`: `iter_concepts()` skips `index.md` and `log.md`
  at any depth and everything under `questions/` (`storage/okf_content.py:127-131`),
  but `put_concept_content()` writes a document of such a name like any other.
* In `OkfFormat` a block may carry a carriage return (`cr`). What is written has it;
  `ReadText` is `Path.read_text()`, which turns it into a line feed, so both `get_`
  operations see a text that no longer has it.
* In `CheckIn`, `desk[h]` holds the locals of a call in process `h`.

Ghost variables, which the code does not have: `spoiled` and `accepted`
(`GradeSessions`), `torn`, `failed`, `killed`, `revived` (`QuestionBank`),
`reviewed`, `closed`, `raced`, `blind` (`LearnerNotes`), `placed`, `again`,
`misquoted`, `torn`, `seen` (`CourseBuild`), `strayed` (`Stores`), `edited`,
`curated`, `unembedded` (`GraphSync`), the field `gaps` of a thread (`CourseBuild`), `checks` and the field `overlapped`
(`CheckIn`). `GraphSync.kept` is the dict of the in-memory bundle. They record what
happened so that properties can say exactly which interleavings are excused.

## 3. Abstractions

* FSRS stability and difficulty are real numbers. A row keeps `recall`: none,
  fresh, due, or hard (due below the hard-due retrievability); `Age` moves it
  along. `Age` is in `Curriculum` only; the statements of `grade()` do not read it.
* Scores and the random draw of selection are a choice of any candidate;
  hard-due candidates are drawn before all others, as in the code.
* The citations of a grade are a sequence, the traversed ids before the skipped ones;
  an id listed twice counts twice, as in the code. A request that raises before its
  first write (unknown concept, no profile) changes nothing and is not started.
* A question is `<<anchor, n>>`, its id in the code. Questions are persisted and
  served in any order; the difficulty filter is ignored. Provider errors yield an
  empty completion, as in the provider; only an exception is a failure.
* A note's text is a class of texts equal up to case and spacing.
* In `Curriculum`, `GradeSessions`, `QuestionBank` and `CourseBuild` concepts are
  never deleted. Only `GraphSyncService` deletes them, which the library offers and
  no command constructs; `LearnerDesk` has it next to the tutor, where a foreign
  key refuses or cascades in Postgres and not in memory. `strayed` names the
  concepts this has touched, and only those are excused from `AdaptersAgree`.
* Concept ids and courses are numbers ordered as the strings are in Python;
  the collation of the database is taken to order them alike.
* Ids are what a slug leads to, bodies are classes whose similarity is a given
  relation (reflexive, not transitive), lines are positive. One source cites one
  token, so its chunks and its edge batches are one request.
* Instants in `CheckIn` are numbers with a fixed count per day. Time passes with
  the calls that read the clock, or not at all between two of them.
* A grade, a remembered note or a build is a sequence of calls on the stores in
  `LearnerDesk`; their own statements are in the modules named after them.
* A document is a sequence of blocks. Its front matter is left out (title, description,
  and the tags and dates of a record): the properties are about bodies, citations,
  prompts and rubrics. A carriage return in a title is not escaped
  (`okf/frontmatter.py`), so it ends the line when the file is read.
* A check-in decides the concepts it found unseen in any order; the code goes by id.

## 4. Runs

| Run | Instance | Shows |
|---|---|---|
| `curriculum` | 3 concepts; spine, a stitch that gates its own concept, an inferred prerequisite cycle, an ENCOMPASSES cycle; grades 2, 4, 5; 3 reviews, 2 of them around a check-in | the handlers keep state, log and gate consistent, and a check-in tells of the gate what held when it read |
| `begun_unlocked` (violation) | same | an implicit review begins a locked concept |
| `sessions` | 2 concepts that credit each other, 2 processes, 4 requests, refusals, crashes | what survives of consistency without transactions |
| `lost_rep` (violation) | same, no crash, good citations, 2 requests | overlapping grades lose a rep |
| `refused_grade` (violation) | 1 process, 2 requests, a malformed citation | a refused grade is recorded |
| `solo` | 3 concepts, 1 process, 2 requests | one process implements the atomic handlers |
| `fire` | every weighting of every subgraph of six links over 4 concepts (a mutual pair, a self-loop, a concept reached at two tiers, a chain of three), depth caps 2 and 4 | the walk ends and equals the closed form |
| `bank` | 2 concepts, 1 link, 2 completions, 2 runs, 1 question per anchor | the two stores agree, failures leave nothing, flags hold |
| `revived_question` (violation) | 1 process, 2 runs | regeneration revives a flagged question |
| `build` | 3 spine chapters, one still to be procured, and a satellite that teaches two of their concepts again; answers out of order, near-duplicate, uncited, without identity, or with an invented citation; either 1 build with 2 threads or 2 builds with 1; 1 fault; 1 citation | the backbone follows the documents without gaps or demotion, rows and edges are grounded, prose, row and vector agree, the linker only adds |
| `desk` | 2 linked concepts and a reserved name of one course, another course that is empty at first, 2 handlers, 3 contents, 2 commands from a course that has been used | both families agree, documents read back, index and bundle agree, deltas and readings add up, learner data survive reconcile |
| `notes` | 2 processes, 2 kinds, 2 notes, 2 reviews per note | idempotence, counted reviews and lasting resolutions, but for races |

Bounds. `MaxReviews` 3 gives promotion to `exam_ready` (two strong grades) and a
fall from it; while a check-in runs there are at most `MaxChecked` 2 grades, one
that was read and one that comes between, or two that come between; `MaxRequests` 4
lets each of two processes grade twice, so that a
row written from a stale read is read again. Two runs are the fewest that
overlap or regenerate; `MaxPerAnchor` 1 keeps one id per anchor, and ids do not
interact. Two notes are the fewest that duplicate each other, two reviews the
fewest that lose one. In `build`, two threads are the fewest that interleave, two
builds the fewest that re-ingest (`Pools` lists the worker counts of the builds of
a behaviour; two builds of two threads each exceed the time a run may take). One
fault is a source, a command, or an empty completion; one citation lets the tutor
create an edge the linker is about to propose. `GroupSize` 1 gives the linker
several groups, so that later answers override earlier ones. In `desk` a command
is the start of a handler or one call, and runs to its end in any interleaving;
two of them (`Fuel` 2), together with the check-in that may be open and the
edit that may be pending in the initial states, give an edit during a
reconcile, two overlapping check-ins, a deletion under a grade.
`CHECK_DEADLOCK FALSE` stands where a bound, or the end of
the walk, stops the system; the runs of `Curriculum`, `QuestionBank` and
`CourseBuild` are checked for deadlock. Symmetry is used
for processes only, and in runs without liveness.

Fairness. Only `Fire` has liveness: `WalkEnds`, under weak fairness of its
next-state relation, because `propagate()` is a synchronous call that cannot stop
between two of its own instructions. No other module assumes fairness: nothing
in the code schedules the tutor.

## 5. What the violation runs say

* `begun_unlocked`: `unlock_proximity` takes a concept in progress to have been
  unlocked (`engine/snapshot.py:161-163`); an implicit review begins concepts
  without asking the gate (`application/service.py:364-370`).
* `lost_rep`: "every review counts as a rep" (`engine/fsrs.py:186`); of two
  overlapping grades the later upsert drops the earlier one's.
* `refused_grade`: the repositories promise an atomic unit of work
  (`storage/postgres.py:284-287`); on autocommit a refused grade stays recorded.
* `revived_question`: a flagged question is "never served again"
  (`application/service.py:529`); regeneration upserts its row as active.

`OneActivePerEntry` excuses notes remembered under a course name with spaces
around it: `remember()` looks up the name it was given and stores the stripped
one (`application/learner_model.py:121, 129`), so such a call never finds its
own note.

What the passing runs excuse, and why the code leaves no other choice:

* `NothingFabricated` excuses edges of concepts in `misquoted`. Verify keeps a
  concept when any of its citations is real; a stitch (`app/build.py:429`) and a
  repair (`linking/embedding_linker.py:314`) cite the first one, which may be
  invented, and are upserted without passing Verify. For the same reason Verify
  itself drops a spine edge whose first citation is of another file than the source's,
  although it is meant to survive (`ingestion/passes.py:577-580`), and takes whole
  concepts out of a chain that is already made, without closing the gap;
  `SpineUnbroken` excuses these two, by name, and nothing else.
* `BackboneKept` and `SpineUnbroken` excuse edges whose two ends were both
  produced more than once (`again`). Inference "never overwrites the backbone"
  (`ingestion/passes.py:642`) of its own source; a satellite that teaches the same
  two concepts upserts an inferred edge over the trusted one.
* `RowTellsContent` excuses `torn` concepts: two threads, or a thread and a failure,
  left prose and row of different extractions. The next ingest heals them.
* `IndexTellsBundle` excuses `unembedded` concepts. The row is upserted with its new
  hash before `embed()` is called (`sync/graph_sync.py:153-156`): if that raises, later
  runs find the hash equal and never embed. A course that was built of a document that
  does not read back starts so: its vector is of the text that was embedded, not of the
  one that is in the file. A document that is edited and put back
  during one run ends the same way.
* `BundleReadsBack` excuses what `Ambiguous` names: a body without citations that
  has a citations section of its own, a path without a line that ends in
  `:<number>`. All else is read back as it was written but for the ends of its
  lines: the round trip is not "lossless" to the letter (`storage/okf_content.py:16`),
  since `_write()` stores a CR or CR LF as it is (`:151-152`) and `read_text()` reads
  it as LF (`:75`, `:104`). A line that a lone CR ended may so become a section.
* `IndexTellsBundle` is about the ids the walk reaches. A concept whose last part
  is `index` or `log` has a document that is never indexed, and if another path gives
  it a row, reconcile deletes it as an orphan.
* `UnlockReadingsAgree` allows a check-in to report a concept as ready and as some
  prerequisites away, or as neither, when what it lacked (or had) is graded between
  the two readings. "Can never diverge" (`application/service.py:140-142`) is true of
  the edges, which both take from `_gating_prereqs()`, and of the rows only while
  nobody grades.
* `NeverStuck` does not promise that the concepts on or behind a cycle of gates
  (`Knotted`) are reached. A course may have such cycles: when the tail of one spine
  source is the head of the next, `_spine_stitch_edges()` (`app/build.py:420-433`)
  makes a spine edge from the concept to itself, and a concept that recurs closes a
  longer one. Until the tutor grades it outright, or a ripple begins it, it is locked.
* `ChecksAddUp` excuses check-ins that overlapped: both read the same last check.
* `SyncKeeps` excuses curation between the comparison of a row and its upsert.
  It says nothing of which course a row belongs to: `iter_concepts()` walks the
  documents of all courses, so reconciling one course adopts the changed documents
  of another.

## 6. Proofs

Each theorem holds for every value of the constants that satisfies the named
assumptions; the runs show the same on one instance. Every proof has one shape: an
inductive `IInv` made of the properties and of what they need besides, one lemma
per conjunct and action (or group of actions), and a last step in temporal logic.

* `CurriculumProofs`: `TypeOK` and `GatesFixed` (the gating edges are those of
  ingestion) are inductive together. `GatesFixed` is needed because a tutor's
  citation creates edges: without it a step could change what a gate means. From
  them follow `NeverStuck` and `GatesMoveByGradesOnly`;
  `MasteryMatchesLog` and `EveryGradeCounted` are inductive relative to `TypeOK`;
  `OneReviewPerHandler` and `BlameStopsAtParents` are facts of one step
  (`CreditIsNear`: what the FIRe loop reaches is within two links). All
  steps are reduced to a few kinds (`StepKinds`: graded, aged, a reading of the
  check-in, or nothing to the tables) first, so each
  proof treats grade, raising grade and ripple at once. `UnlockReadingsAgree` rests on
  `CheckInv`: concepts not graded since are as they were read (`SinceOpened`), and
  of each concept decided the reason is kept, for one that passed that each
  prerequisite was mastered then or graded since, for one that did not that one
  prerequisite was not mastered, or was graded since (`Examined`; `NoGateRead` and
  `NearIsRead` say which of the readings is done).
  `NeverStuck` needs no assumption on the graph: concepts that wait while nothing can
  be taught wait for each other, so they are knotted. `OrderedCourseNeverStuck` is the
  case of a course whose gates have a rank: nothing is knotted
  (`OrderedIsNotKnotted`, by well-founded induction), and there is always a way on.
* `GradeSessionsProofs`: `TypeOK` carries the session-local variables (what each
  `pc` has read, that no session is to ripple onto the concept it graded).
  `LoggedConceptHasRow` and `ExamReadyHasLoggedEvidence` rest on `Evidence`, which
  also speaks of the rows and grades held in flight: a stale copy is still backed
  by the log, because the log only grows. `UnspoiledRowsCoverLog` rests on
  `UnspoiledCovered`: outside spoiled concepts the row a session holds is current.
* The refinement, `SoloGradesAtomically` in the same module: every step of
  `SoloGrade` is a step of `Curriculum` or a stutter under the mapping of
  `SoloGrade`. `Reads` says that what a session that works alone has read is still
  what is stored, `Counted` that there are never more log entries than grades
  started, so the bound in the guard of the abstract handler is not met before
  that of the concrete one. The two lemmas that carry the argument are about the mapping,
  which finishes in one step what the session still owes: the citations
  recorded one by one are those recorded at once (`RecordFirst`), and the
  credits paid one by one are those paid at once (`PayOne`).
* `QuestionBankProofs`: `EveryRowHasProse` is not inductive, because the
  row of a run is written without looking at the prose; `HalfwayHasProse` says
  that a run between its two writes has it in place. `FailedRunsLeaveNothing` needs
  that a run that may still fail has written nothing (`WritersAreKnown`), and
  `FlaggedIsNotChosen` that a flagged question is retired until a run writes it again
  (`KilledIsRetired`).
* `LearnerNotesProofs`: the properties speak of the table, and the calls in flight
  are what could break them. `CopiesFollowNotes`: a call whose copy is current is
  one review, or one resolution, ahead of the note. `CreationsAreNew`: what
  `remember()` has not found active is not active now, while its copy is current.
  `CopiesAreUnanswered`: no call writes an active note with a resolution in it.
* `FireProofs`: the walk is compared with the closed form without an induction over
  the graph, because ratings decay: an activation three hops deep emits nothing, so
  its stack has at most three frames (`WellPlaced`). What is emitted is of the
  closed form (`Sound`); a link left behind has been emitted, and so have the links
  of its target, but those the frame of that target still has left (`Complete`).
  `Folded` says that the dict holds the strongest rating of the part of the list
  it has been through. `WalkIsCredit` follows for every `max_depth` of 2 or more.
* `CourseBuildProofs` begins with the lemmas about the passes, each stated
  once: what `Pick`, the order by line, dedupe, spine, inference and verify preserve,
  summed up in `Yields`, which is all the build needs to know of a working set.
  In the invariant `ThreadHolds` ties what a thread has still to write to what it
  produced and to what is stored, and `Staged` to where the command is. On them rest
  `Halves` (a half-written concept, for `RowTellsContent`), `RowCites` and
  `QueueCites` (for `NothingFabricated`), `ToFollow` (a trusted edge still to be
  written runs with the documents too), `Rivals` (which edge could demote a trusted
  one, for `BackboneKept`), `Backbone` (each link of the chain is stored or on its
  way, for `SpineUnbroken`), and `Spared` (what the linker holds is none it saw,
  for `LinkOnlyAdds`).
* `LearnerDeskProofs` has one invariant in three parts over the types (`Typed`);
  `DeskInvariant` states that all hold together.
  `SyncInv` is about `reconcile()`: what the walk has seen is still so or was edited
  (`Walked`), what it has dealt with is indexed (`Settled`), each row's vector and
  citations are those of the document its hash names (`Embedded`), the row at hand is
  the one compared but for a curation since (`Comparing`), no orphan is missed
  (`Orphaned`) and none is deleted that was seen (`Deleting`). From it follow
  `IndexTellsBundle` and, step by step, `SyncKeeps`.
  `DeskInv` is about the check-ins: what a call has read of the log is the last
  event still, unless another check-in of its course was logged meanwhile
  (`Undisturbed`), and the last event of a course carries the total last told
  (`Anchored`). Neither would hold if instants could go back.
  `AgreeInv` is about the two families: their tables have the same rows about every
  concept that no foreign key has touched (`Steadily`), and only indexed concepts have
  a vector in the database. Each call of `Stores` is reduced to what it does to the
  tables first, and each query to a filter and `ListedBy`.
  The listings need no induction over data: a finite domain has exactly one order by a key
  (`ListedInOrder`), so two lists of the same keys are equal. `nearest_to` is the
  exception, since the families do not filter alike: one takes the nearest other concept,
  the other the two nearest and drops the concept itself; `WithoutOwn` is why they agree.
  `BundleReadsBack` is a fact of the format: reading translates a composed document
  part by part (`ReadTextConcat`), and the last fence of it is
  the one that composing put there, whatever the body quotes.

Assumptions: the types of the constants; `ConceptsFinite` and `InitEdgesIsTable` (the
graph is a finite table); `CitationsType` and `RequestsType` (a request cites a
finite list of ids, well-formed or not); `SimilarReflexive`, `NoFileIsNoFile` and
`IdsAreNumbers` (a text is like itself, an absent citation names no file, ids are ordered);
`StoreConstants`, `CalendarType`, `CallsType` and `BodiesAreDocs`
(similarity is symmetric, a day has an instant, reviews schedule ahead, every body that can
be read back is one the embedder knows). None is about the shape of the graph.
`SoloGradesAtomically` has the hypothesis `Alone`: at most one session, and no crash in
the middle of a grade. With two sessions `lost_rep` shows it false; with a crash
the abstract handler would have to stop half way. `MCSoloGrade` assumes the same,
so TLC evaluates it.

Only model-checked:

* `WalkEnds`, since liveness is beyond the prover.
* What the recursive helpers compute for every input, where no property rests on it: the
  stability-days a check-in reports are some function of the rows it read
  (`StabilityDays`), and `ChecksAddUp` needs no more.

Hazards that no property covers, in `PROJECT.json` with the reason: a reconcile that
never embeds what failed once (`IndexTellsBundle` excuses it), a truncated document
that is indexed as it is, counters that a re-ingested edge loses, two check-ins that
report one delta, an escalated link that keeps teaching back, questions a shorter
regeneration leaves, a resolution that is repeated, a reconcile that re-labels rows of
another course. The models have these behaviours; either nothing says that they
are wrong, or a property excuses them by name.

Every invariant and action property that a passing run checks is stated by a theorem. The
four violation runs are counterexamples, which only TLC gives.

## 7. Plan

Items 1 to 10 are done. The order puts what the learner's record depends on first.

1. `Policies`, `CourseGraph`, `Curriculum` and its proofs.
2. `GradeSessions` and its proofs; `SoloGrade` as refinement of `Curriculum`.
3. `Fire` against the closed form.
4. `QuestionBank`.
5. `LearnerNotes`.
6. `IngestPasses` and `CourseBuild`: passes, source threads, stitching, linking,
   re-ingestion over an existing edge table.
7. `MemoryStore`, `PostgresStore`, `Stores`: the in-memory family as the reference
   of the Postgres family.
8. `OkfFormat`, `GraphSync`: reconcile with a failing embedder, orphans, files written
   in place, documents that read back.
9. `CheckIn`, `LearnerDesk`: engagement log, deltas, readings, and all clients at once.
10. Proofs of `Curriculum`, `GradeSessions`, `SoloGrade`, `QuestionBank`, `LearnerNotes`,
    `Fire`, `CourseBuild` and `LearnerDesk`.
11. Left: refinements between the models of one call and the calls of `LearnerDesk` (the
    statements of `LearnerNotes` and of the tool calls are one call there).

## 8. Not modelled

* Real-valued formulas: FSRS stability and difficulty, scoring terms, temperature
  and the random draw, percentiles of the consolidation report. They rank or report;
  where a model needs one it is a choice.
* Text: prompts, leniency of JSON parsing, front matter scalars, rendering.
* `QuestionGenPass` and `default_pipeline()`, which only tests construct; the
  production path is `generate_questions()` (`QuestionBank`).
* `frontier()` beyond the event it logs; the events of `grade()`, `quiz()` and the
  learner model, which no code reads back; the count of reviews since the last
  check-in, a report of the same rows.
* Argument parsing, migrations, doctor checks, log files, archetype tables, HTTP: no
  state the properties depend on.
* Corpus tools: run by hand before a build, on files no other component reads meanwhile.

------------------------------ MODULE GraphSync ------------------------------
(***************************************************************************)
(* GraphSyncService.reconcile() (sync/graph_sync.py) over the OKF bundle     *)
(* (storage/okf_content.py), statement by statement, while an author writes  *)
(* documents in place, removes them, or moves the bundle away.              *)
(***************************************************************************)
EXTENDS Stores, OkfFormat

CONSTANT
  Reserved    \* ids whose document the walk passes over: index and log, in any
              \* directory, and whatever is under questions/

ASSUME ReservedType == Reserved \subseteq Concepts

VARIABLES
  bundle,     \* the documents under the root: id -> its blocks
  kept,       \* the in-memory bundle: id -> the content last written
  moved,      \* the root is not there
  writing,    \* the document being written: <<>> or <<id, content>>
  sync,       \* the reconcile() that runs, or the report of the last one
  edited,     \* ids whose document changed since the walk
  curated,    \* ids curated since reconcile() compared them
  unembedded  \* ids whose last embedding failed, or was computed from an edited document
              \* or from one that does not read back as it was given

files == <<bundle, kept, moved, writing>>
syncing == <<bundle, kept, moved, writing, sync, edited, curated, unembedded>>

\* A document in the middle of being written: its front matter is not closed.
Torn == <<Text("---")>>

Buckets == {"added", "changed", "unchanged", "orphaned"}

NoSync == [phase |-> "idle", course |-> Null, deletes |-> FALSE, walk |-> <<>>, row |-> <<>>,
           body |-> <<>>, seen |-> {}, report |-> [b \in Buckets |-> {}]]

Running == sync.phase \notin {"idle", "done"}
Current == CHOOSE c \in DOMAIN sync.walk : \A d \in DOMAIN sync.walk : c <= d
CurrentHash == sync.walk[Current]

Readable(c) == ~moved /\ c \in DOMAIN bundle

---------------------------------------------------------------------------
\* The author and the build: a document is overwritten in place

Touch(ids) == edited' = edited \cup ids

BeginWrite(c, content) ==
  /\ writing = <<>> /\ ~moved
  /\ bundle' = Put(bundle, c, Torn) /\ writing' = <<c, content>>
  /\ Touch({c})
  /\ UNCHANGED <<stores, kept, moved, sync, curated, unembedded>>

EndWrite ==
  /\ writing # <<>> /\ ~moved
  /\ bundle' = Put(bundle, writing[1], ComposeConcept(writing[2]))
  /\ kept' = Put(kept, writing[1], writing[2])
  /\ writing' = <<>>
  /\ Touch({writing[1]})
  /\ UNCHANGED <<stores, moved, sync, curated, unembedded>>

\* The writer ends before it has written everything.
WriterDies ==
  /\ writing # <<>>
  /\ writing' = <<>>
  /\ UNCHANGED <<stores, bundle, kept, moved, sync, edited, curated, unembedded>>

RemoveDocument(c) ==
  /\ writing = <<>> /\ Readable(c)
  /\ bundle' = Without(bundle, {c}) /\ kept' = Without(kept, {c})
  /\ Touch({c})
  /\ UNCHANGED <<stores, moved, writing, sync, curated, unembedded>>

MoveBundle ==
  /\ moved' = ~moved
  /\ Touch(Concepts)
  /\ UNCHANGED <<stores, bundle, kept, writing, sync, curated, unembedded>>

---------------------------------------------------------------------------
\* reconcile()

\* iter_concepts: the documents with their hashes but for the reserved ones,
\* taken in the order of ids; none without a root.
StartSync(course, deletes) ==
  /\ ~Running
  /\ LET walk == IF moved THEN <<>> ELSE Without(bundle, Reserved)
     IN sync' = [NoSync EXCEPT !.phase = "compare", !.course = course, !.deletes = deletes,
                               !.walk = walk, !.seen = DOMAIN walk]
  /\ edited' = {} /\ curated' = {}
  /\ UNCHANGED <<stores, files, unembedded>>

\* One concept is dealt with and put into its bucket.
Reported(bucket) ==
  [sync EXCEPT !.phase = "compare", !.walk = Without(@, {Current}), !.row = <<>>, !.body = <<>>,
               !.report[bucket] = @ \cup {Current}]

\* The row of the next concept is read and its hash compared.
Compare ==
  /\ sync.phase = "compare" /\ DOMAIN sync.walk # {}
  /\ IF Current \in DOMAIN pg.concept /\ pg.concept[Current].hash = CurrentHash
     THEN sync' = Reported("unchanged")
     ELSE sync' = [sync EXCEPT !.phase = "project",
                               !.row = IF Current \in DOMAIN pg.concept THEN <<pg.concept[Current]>> ELSE <<>>]
  /\ curated' = curated \ {Current}
  /\ UNCHANGED <<stores, files, edited, unembedded>>

\* _project: a new row, or the old one with its curated fields kept.
Project(hash, content, row) ==
  [course |-> sync.course, hash |-> hash, refs |-> content.refs,
   curation |-> IF row = <<>> THEN "default" ELSE row[1].curation]

\* The document is read and the row written, with the hash of the walk.
ProjectConcept ==
  /\ sync.phase = "project" /\ Readable(Current)
  /\ LET content == SplitConcept(bundle[Current])
     IN /\ PutConcept(Current, Project(CurrentHash, content, sync.row))
        /\ sync' = [sync EXCEPT !.phase = "embed", !.body = content.body]
  /\ UNCHANGED <<files, edited, curated, unembedded>>

\* SyncError: the walk has named a document that is not there.
ContentMissing ==
  /\ sync.phase = "project" /\ ~Readable(Current)
  /\ sync' = NoSync
  /\ UNCHANGED <<stores, files, edited, curated, unembedded>>

\* Seeded variant: only a new concept is embedded.
EmbedNew ==
  /\ sync.phase = "embed"
  /\ IF sync.row = <<>> THEN PutVector(Current, sync.body) ELSE UNCHANGED stores
  /\ sync' = Reported(IF sync.row = <<>> THEN "added" ELSE "changed")
  /\ unembedded' = IF Current \in edited THEN unembedded \cup {Current} ELSE unembedded \ {Current}
  /\ UNCHANGED <<files, edited, curated>>

EmbedConcept ==
  /\ sync.phase = "embed"
  /\ PutVector(Current, sync.body)
  /\ sync' = Reported(IF sync.row = <<>> THEN "added" ELSE "changed")
  /\ unembedded' = IF Current \in edited THEN unembedded \cup {Current} ELSE unembedded \ {Current}
  /\ UNCHANGED <<files, edited, curated>>

\* embed() raises, a document cannot be decoded, or the process ends: what has
\* been written stays.
SyncFails ==
  /\ Running
  /\ sync' = NoSync
  /\ unembedded' = IF sync.phase = "embed" THEN unembedded \cup {Current} ELSE unembedded
  /\ UNCHANGED <<stores, files, edited, curated>>

\* Seeded variant: whatever the walk did not see.
EveryOther == DOMAIN pg.concept \ sync.seen

\* The rows of the course that the walk did not see.
Orphans == Pg!OfCourse(pg, sync.course) \ sync.seen

CollectOrphans ==
  /\ sync.phase = "compare" /\ DOMAIN sync.walk = {}
  /\ sync' = [sync EXCEPT !.phase = IF sync.deletes /\ Orphans # {} THEN "delete" ELSE "done",
                          !.report["orphaned"] = Orphans]
  /\ UNCHANGED <<stores, files, edited, curated, unembedded>>

\* The orphans of the list are deleted one by one, in the order of their ids.
DeleteOrphan ==
  /\ sync.phase = "delete"
  /\ LET left == sync.report["orphaned"] \cap DOMAIN pg.concept
         c == CHOOSE x \in left : \A y \in left : x <= y
     IN /\ left # {}
        /\ DropConcept(c)
        /\ sync' = IF left = {c} THEN [sync EXCEPT !.phase = "done"] ELSE sync
  /\ UNCHANGED <<files, edited, curated, unembedded>>

SyncStep ==
  \/ Compare \/ ProjectConcept \/ ContentMissing \/ EmbedConcept \/ SyncFails
  \/ CollectOrphans \/ DeleteOrphan

---------------------------------------------------------------------------
\* Someone curates the importance or the status of a row.
Curate(c, value) ==
  /\ c \in DOMAIN pg.concept /\ pg.concept[c].curation # value
  /\ PutConcept(c, [pg.concept[c] EXCEPT !.curation = value])
  /\ curated' = curated \cup {c}
  /\ UNCHANGED <<files, sync, edited, unembedded>>
=============================================================================

----------------------------- MODULE StoreTypes -----------------------------
(***************************************************************************)
(* What the repository ports exchange (domain/entities.py, domain/learner.py, *)
(* domain/telemetry.py), shared by the two families of adapters. A store is   *)
(* a record of tables; its fields have the same names in both families.       *)
(***************************************************************************)
EXTENDS Integers, Sequences, FiniteSets, SequencesExt

CONSTANTS
  Concepts,     \* concept ids, ordered as the strings are
  Courses,      \* course names, ordered as the strings are
  Docs,         \* bodies of documents, each with its own vector
  Alike         \* the similarity of the vectors of a body and another

Every == "every"   \* a filter on strings that is not given
Null == 0          \* None and NULL in place of an instant or a number

EdgeTypes == {"prerequisite", "encompasses", "related"}
Mastery == {"new", "learning", "solid", "exam_ready"}
NoteKinds == {"insight", "misconception_fixed", "open_thread", "material_gap", "goal"}

ASSUME StoreConstants ==
  /\ Concepts \subseteq Nat /\ IsFiniteSet(Concepts) /\ Courses \subseteq Nat
  /\ \A d, e \in Docs : Alike[d][e] \in Int /\ Alike[d][e] = Alike[e][d]

\* The string Edge.id: "src::type::dst"; a key tells the same.
Edge == [exposures |-> 0, skips |-> 0, traversed |-> Null, provenance |-> "inferred"]

\* LearnerNote.reviewable
Reviewable(n) == n.status = "active" /\ n.kind \in {"insight", "misconception_fixed"}

NoTables ==
  [concept |-> <<>>, vector |-> <<>>, edge |-> <<>>, question |-> <<>>, state |-> <<>>,
   reviews |-> <<>>, events |-> <<>>, note |-> <<>>, profile |-> <<>>]

Put(table, key, row) == [k \in DOMAIN table \cup {key} |-> IF k = key THEN row ELSE table[k]]
Without(table, keys) == [k \in DOMAIN table \ keys |-> table[k]]
GetOr(table, key, default) == IF key \in DOMAIN table THEN table[key] ELSE default

\* The first k members of a sequence.
First(seq, k) == SubSeq(seq, 1, IF k < Len(seq) THEN k ELSE Len(seq))

\* The domain of a key, listed by it, ties by id.
Before(key, x, y) == key[x] < key[y] \/ (key[x] = key[y] /\ x < y)

ListedBy(key) ==
  CHOOSE list \in [1 .. Cardinality(DOMAIN key) -> DOMAIN key] :
    \A m, n \in DOMAIN list : m < n => Before(key, list[m], list[n])

Listed(ids) == ListedBy([x \in ids |-> x])

\* The entry of a log with the greatest key, the later one on a tie.
LastBy(key) ==
  CHOOSE m \in DOMAIN key : \A n \in DOMAIN key : key[m] > key[n] \/ (key[m] = key[n] /\ m >= n)

EntriesOf(log, course) == SelectSeq(log, LAMBDA e : e.course = course)
=============================================================================

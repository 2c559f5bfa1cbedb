----------------------------- MODULE LearnerNotes -----------------------------
(***************************************************************************)
(* The learner model of dialogue mode (application/learner_model.py): the    *)
(* notes a tutor keeps about a learner, remembered, reviewed and resolved.  *)
(*                                                                          *)
(* Every use-case reads learner_note, computes a whole row and upserts it,   *)
(* on the autocommit connection of its own process: two statements between   *)
(* which other processes may act. Note i is the i-th created. A text is a    *)
(* class of texts equal but for case and spacing; resolutions appended to    *)
(* it are counted. Reads that only report (recall, reviews, gaps, notes) do  *)
(* not change the table and are left out.                                   *)
(***************************************************************************)
EXTENDS Policies, FiniteSets

CONSTANTS
  Courses, Kinds, Texts,
  Reviewable,     \* the kinds that come back as reviews
  Sessions,       \* the processes serving a tutor
  MaxNotes,       \* bound: notes
  MaxReps,        \* bound: reviews of a note
  MaxResolutions  \* bound: times a note is resolved

ASSUME ReviewableType == Reviewable \subseteq Kinds
ASSUME NotesBounds == MaxNotes \in Nat /\ MaxReps \in Nat /\ MaxResolutions \in Nat

VARIABLES
  notes,     \* learner_note
  request,   \* the calls in progress: process -> the row it will write
  reviewed,  \* per note, the reviews it was answered
  closed,    \* the notes resolve() was ever called on
  raced,     \* notes written from a copy another process had outdated
  blind      \* notes remembered under a course name with spaces around it

vars == <<notes, request, reviewed, closed, raced, blind>>

Note == [course : Courses, kind : Kinds, text : Texts, status : {"active", "resolved"},
         resolutions : Nat, srs : State]

\* What a call holds between its two statements: the note it is about (0 for a
\* new one), the row it will write, and whether that row is out of date.
Request == [op : {"remember", "review", "resolve"}, note : Nat, row : Note, padded : BOOLEAN, stale : BOOLEAN]

SameEntry(m, n) == m.course = n.course /\ m.kind = n.kind /\ m.text = n.text

\* Seeded variant: only the kinds that are reviewed are looked through.
KnownReviewable(c, padded, k, t) ==
  {i \in DOMAIN notes : /\ ~padded /\ k \in Reviewable
                        /\ notes[i].course = c /\ notes[i].kind = k /\ notes[i].text = t
                        /\ notes[i].status = "active"}

\* The notes remember() takes for the one it was asked to create. Notes are
\* kept under the stripped course name and looked up under the given one.
Known(c, padded, k, t) ==
  {i \in DOMAIN notes : /\ ~padded
                        /\ notes[i].course = c /\ notes[i].kind = k /\ notes[i].text = t
                        /\ notes[i].status = "active" /\ notes[i].resolutions = 0}

\* Seeded variant: every note is scheduled.
ScheduleAll(k) == [Blank EXCEPT !.recall = "fresh"]

\* Being learned is not a review: due, and no repetitions.
Schedule(k) == IF k \in Reviewable THEN [Blank EXCEPT !.recall = "fresh"] ELSE Blank

Reads(s, op, i, row, padded) ==
  /\ s \notin DOMAIN request
  /\ request' = Upsert(request, [h \in {s} |->
                   [op |-> op, note |-> i, row |-> row, padded |-> padded, stale |-> FALSE]])
  /\ UNCHANGED <<notes, reviewed, closed, raced, blind>>

\* s has written: the copies others hold of the same thing are out of date.
Returns(s, Same(_)) ==
  request' = [h \in DOMAIN request \ {s} |->
                [request[h] EXCEPT !.stale = @ \/ Same(request[h])]]

Holding(s, op) == s \in DOMAIN request /\ request[s].op = op

---------------------------------------------------------------------------
\* remember(), which returns the existing note if there is one.
RememberReads(s, c, padded, k, t) ==
  /\ Known(c, padded, k, t) = {}
  /\ Len(notes) < MaxNotes
  /\ Reads(s, "remember", 0,
           [course |-> c, kind |-> k, text |-> t, status |-> "active", resolutions |-> 0,
            srs |-> Schedule(k)],
           padded)

RememberWrites(s) ==
  /\ Holding(s, "remember")
  /\ Len(notes) < MaxNotes
  /\ LET r == request[s]
         i == Len(notes) + 1
     IN /\ notes' = Append(notes, r.row)
        /\ reviewed' = Append(reviewed, 0)
        /\ raced' = IF r.stale THEN raced \cup {i} ELSE raced
        /\ blind' = IF r.padded THEN blind \cup {i} ELSE blind
        /\ Returns(s, LAMBDA q : q.note = 0 /\ SameEntry(q.row, r.row))
  /\ UNCHANGED closed

\* The upsert that ends review_result() and resolve().
Overwrites(s) ==
  LET r == request[s]
  IN /\ notes' = [notes EXCEPT ![r.note] = r.row]
     /\ raced' = IF r.stale THEN raced \cup {r.note} ELSE raced
     /\ Returns(s, LAMBDA q : q.note = r.note)

\* review_result(), for a note that is reviewable and active.
ReviewReads(s, i, rating) ==
  /\ i \in DOMAIN notes
  /\ notes[i].kind \in Reviewable /\ notes[i].status = "active"
  /\ reviewed[i] < MaxReps
  /\ Reads(s, "review", i, [notes[i] EXCEPT !.srs = Review(@, rating)], FALSE)

ReviewWrites(s) ==
  /\ Holding(s, "review")
  /\ Overwrites(s)
  /\ reviewed' = [reviewed EXCEPT ![request[s].note] = @ + 1]
  /\ UNCHANGED <<closed, blind>>

\* Seeded variant: the resolution is written and the note stays active.
ResolveAnnotates(s, i, answered) ==
  /\ i \in DOMAIN notes
  /\ notes[i].resolutions < MaxResolutions
  /\ Reads(s, "resolve", i, [notes[i] EXCEPT !.resolutions = IF answered THEN @ + 1 ELSE @], FALSE)

\* Seeded variant: the note is built anew, without its schedule.
ResolveAnew(s, i, answered) ==
  /\ i \in DOMAIN notes
  /\ notes[i].resolutions < MaxResolutions
  /\ Reads(s, "resolve", i,
           [notes[i] EXCEPT !.status = "resolved", !.srs = Schedule(notes[i].kind),
                            !.resolutions = IF answered THEN @ + 1 ELSE @], FALSE)

\* resolve(), of any note, resolved before or not, with a resolution or without.
ResolveReads(s, i, answered) ==
  /\ i \in DOMAIN notes
  /\ notes[i].resolutions < MaxResolutions
  /\ Reads(s, "resolve", i,
           [notes[i] EXCEPT !.status = "resolved",
                            !.resolutions = IF answered THEN @ + 1 ELSE @], FALSE)

ResolveWrites(s) ==
  /\ Holding(s, "resolve")
  /\ Overwrites(s)
  /\ closed' = closed \cup {request[s].note}
  /\ UNCHANGED <<reviewed, blind>>

\* The process, or its connection, ends between the two statements.
Crash(s) ==
  /\ s \in DOMAIN request
  /\ request' = [h \in DOMAIN request \ {s} |-> request[h]]
  /\ UNCHANGED <<notes, reviewed, closed, raced, blind>>

---------------------------------------------------------------------------
Init ==
  /\ notes = <<>> /\ reviewed = <<>>
  /\ request = [s \in {} |-> 0]
  /\ closed = {} /\ raced = {} /\ blind = {}

Call(s) ==
  \/ \E c \in Courses, padded \in BOOLEAN, k \in Kinds, t \in Texts : RememberReads(s, c, padded, k, t)
  \/ RememberWrites(s)
  \/ \E i \in 1 .. MaxNotes, rating \in Rating : ReviewReads(s, i, rating)
  \/ ReviewWrites(s)
  \/ \E i \in 1 .. MaxNotes, answered \in BOOLEAN : ResolveReads(s, i, answered)
  \/ ResolveWrites(s)
  \/ Crash(s)

Next == \E s \in Sessions : Call(s)

Spec == Init /\ [][Next]_vars

---------------------------------------------------------------------------
\* Properties

\* Rows and the copies in flight are notes; a note is scheduled from the start
\* exactly if its kind is reviewable, and no other kind is ever reviewed.
Scheduled(n) ==
  /\ n.srs.recall # "none" <=> n.kind \in Reviewable
  /\ n.srs.reps > 0 => n.kind \in Reviewable

NotesTyped ==
  /\ notes \in Seq(Note) /\ Len(notes) <= MaxNotes
  /\ \A i \in DOMAIN notes : Scheduled(notes[i])
  /\ reviewed \in Seq(Nat) /\ Len(reviewed) = Len(notes)
  /\ closed \cup raced \cup blind \subseteq DOMAIN notes

RequestsTyped ==
  /\ DOMAIN request \subseteq Sessions
  /\ \A s \in DOMAIN request :
        /\ request[s] \in Request
        /\ Scheduled(request[s].row)
        /\ IF request[s].op = "remember" THEN request[s].note = 0
           ELSE request[s].note \in DOMAIN notes

TypeOK == NotesTyped /\ RequestsTyped

\* remember() is idempotent (learner_model.py:107-110) as far as the code can
\* make it so: a course has two active notes of one kind and text only if two
\* processes raced, or the course was once named with spaces around it.
OneActivePerEntry ==
  \A i, j \in DOMAIN notes :
    (/\ i # j /\ SameEntry(notes[i], notes[j])
     /\ notes[i].status = "active" /\ notes[j].status = "active")
    => {i, j} \cap (raced \cup blind) # {}

\* Every answered review counts as a repetition and a resolved note stays
\* resolved, whatever is called in which order, unless processes raced on it.
NotesTellWhatHappened ==
  \A i \in DOMAIN notes \ raced :
    /\ notes[i].srs.reps = reviewed[i]
    /\ notes[i].status = "resolved" <=> i \in closed

\* An active note's text is as it was remembered, even after a race: the copy
\* that reactivates a note has lost the resolution. remember() compares texts.
ActiveNotesAreUnanswered ==
  \A i \in DOMAIN notes : notes[i].status = "active" => notes[i].resolutions = 0
=============================================================================

--------------------------- MODULE LearnerNotesProofs ---------------------------
(***************************************************************************)
(* Proofs about LearnerNotes: for any number of processes, courses, kinds    *)
(* and texts, a course has two active notes of one kind and text only by a   *)
(* race or a padded course name, a note that no race spoiled counts every     *)
(* review and stays resolved, and an active note's text is unanswered.       *)
(***************************************************************************)
EXTENDS LearnerNotes, TLAPS

---------------------------------------------------------------------------
\* The inductive invariant: what a call holds between its two statements

\* The row it will write is active only with the text as it was remembered.
CopiesAreUnanswered ==
  \A s \in DOMAIN request : request[s].row.status = "active" => request[s].row.resolutions = 0

\* remember() writes an active note nobody reviewed, and no other active note
\* was of its kind and text when it looked, unless it looked under another name;
\* its copy being current, none is now, unless a race brought it back.
CreationsAreNew ==
  \A s \in DOMAIN request :
    request[s].op = "remember" =>
      /\ request[s].row.status = "active" /\ request[s].row.srs.reps = 0
      /\ ~request[s].padded /\ ~request[s].stale =>
           \A i \in DOMAIN notes \ raced :
             SameEntry(notes[i], request[s].row) => notes[i].status # "active"

\* A review or a resolution is of the note it was read from, and, its copy being
\* current, one step ahead of it.
CopiesFollowNotes ==
  \A s \in DOMAIN request :
    /\ request[s].op \in {"review", "resolve"} => SameEntry(request[s].row, notes[request[s].note])
    /\ request[s].op = "review" =>
         /\ request[s].row.status = "active"
         /\ ~request[s].stale =>
              /\ notes[request[s].note].status = "active"
              /\ request[s].row.srs.reps = notes[request[s].note].srs.reps + 1
    /\ request[s].op = "resolve" =>
         /\ request[s].row.status = "resolved"
         /\ ~request[s].stale => request[s].row.srs.reps = notes[request[s].note].srs.reps

IInv ==
  /\ TypeOK
  /\ OneActivePerEntry /\ NotesTellWhatHappened /\ ActiveNotesAreUnanswered
  /\ CopiesAreUnanswered /\ CreationsAreNew /\ CopiesFollowNotes

---------------------------------------------------------------------------
\* Rows

LEMMA BlankFields ==
  /\ Blank \in State /\ Blank.reps = 0 /\ Blank.recall = "none"
  /\ [Blank EXCEPT !.recall = "fresh"] \in State
  /\ [Blank EXCEPT !.recall = "fresh"].reps = 0 /\ [Blank EXCEPT !.recall = "fresh"].recall = "fresh"
BY DEF Blank, State, Mastery, Recall

LEMMA ScheduleFields ==
  ASSUME NEW k \in Kinds
  PROVE  /\ Schedule(k) \in State /\ Schedule(k).reps = 0
         /\ Schedule(k).recall # "none" <=> k \in Reviewable
BY BlankFields DEF Schedule

LEMMA ReviewFields ==
  ASSUME NEW prior \in State, NEW rating \in Rating
  PROVE  /\ Review(prior, rating) \in State
         /\ Review(prior, rating).reps = prior.reps + 1
         /\ Review(prior, rating).recall = "fresh"
BY DEF Review, State, Recall

LEMMA NewNote ==
  ASSUME NEW c \in Courses, NEW k \in Kinds, NEW t \in Texts
  PROVE  LET n == [course |-> c, kind |-> k, text |-> t, status |-> "active", resolutions |-> 0,
                   srs |-> Schedule(k)]
         IN n \in Note /\ Scheduled(n)
<1>1. Schedule(k) \in State /\ Schedule(k).reps = 0 /\ (Schedule(k).recall # "none" <=> k \in Reviewable)
  BY ScheduleFields
<1> QED BY <1>1 DEF Note, Scheduled

LEMMA ReviewedNote ==
  ASSUME NEW n \in Note, n.kind \in Reviewable, NEW rating \in Rating
  PROVE  LET m == [n EXCEPT !.srs = Review(@, rating)]
         IN /\ m \in Note /\ Scheduled(m) /\ SameEntry(m, n)
            /\ m.status = n.status /\ m.resolutions = n.resolutions /\ m.srs.reps = n.srs.reps + 1
<1> DEFINE srs == Review(n.srs, rating)
<1>1. n.srs \in State
  BY DEF Note
<1>2. srs \in State /\ srs.reps = n.srs.reps + 1 /\ srs.recall = "fresh"
  BY <1>1, ReviewFields
<1> HIDE DEF srs
<1> DEFINE m == [n EXCEPT !.srs = srs]
<1>3. m \in Note /\ m.srs = srs /\ m.kind = n.kind /\ SameEntry(m, n) /\ m.status = n.status
        /\ m.resolutions = n.resolutions
  BY <1>2 DEF Note, SameEntry
<1>4. Scheduled(m)
  BY <1>2, <1>3 DEF Scheduled
<1>5. m = [n EXCEPT !.srs = Review(@, rating)]
  BY DEF srs
<1> QED BY <1>2, <1>3, <1>4, <1>5

LEMMA ResolvedNote ==
  ASSUME NEW n \in Note, Scheduled(n), NEW answered \in BOOLEAN
  PROVE  LET m == [n EXCEPT !.status = "resolved", !.resolutions = IF answered THEN @ + 1 ELSE @]
         IN m \in Note /\ Scheduled(m) /\ SameEntry(m, n) /\ m.status = "resolved" /\ m.srs = n.srs
<1> DEFINE count == IF answered THEN n.resolutions + 1 ELSE n.resolutions
           m == [n EXCEPT !.status = "resolved", !.resolutions = count]
<1>1. count \in Nat
  BY DEF Note
<1> HIDE DEF count
<1>2. m \in Note /\ SameEntry(m, n) /\ m.kind = n.kind /\ m.status = "resolved" /\ m.srs = n.srs
  BY <1>1 DEF Note, SameEntry
<1>3. Scheduled(m)
  BY <1>2 DEF Scheduled
<1>4. m = [n EXCEPT !.status = "resolved", !.resolutions = IF answered THEN @ + 1 ELSE @]
  BY DEF count
<1> QED BY <1>2, <1>3, <1>4

---------------------------------------------------------------------------
\* First statements

\* A call has read and holds its copy.
LEMMA AfterReading ==
  ASSUME NEW s, NEW op, NEW i, NEW row, NEW padded, Reads(s, op, i, row, padded)
  PROVE  /\ s \notin DOMAIN request /\ DOMAIN request' = DOMAIN request \cup {s}
         /\ request'[s] = [op |-> op, note |-> i, row |-> row, padded |-> padded, stale |-> FALSE]
         /\ \A h \in DOMAIN request : request'[h] = request[h]
         /\ UNCHANGED <<notes, reviewed, closed, raced, blind>>
BY DEF Reads, Upsert

LEMMA ReadsKeeps ==
  ASSUME IInv, NEW s \in Sessions, NEW op \in {"remember", "review", "resolve"}, NEW i \in Nat, NEW row \in Note,
         NEW padded \in BOOLEAN, Reads(s, op, i, row, padded),
         Scheduled(row), row.status = "active" => row.resolutions = 0,
         op = "remember" =>
           /\ i = 0 /\ row.status = "active" /\ row.srs.reps = 0
           /\ ~padded => \A j \in DOMAIN notes \ raced : SameEntry(notes[j], row) => notes[j].status # "active",
         op # "remember" => i \in DOMAIN notes /\ SameEntry(row, notes[i]),
         op = "review" =>
           row.status = "active" /\ notes[i].status = "active" /\ row.srs.reps = notes[i].srs.reps + 1,
         op = "resolve" => row.status = "resolved" /\ row.srs.reps = notes[i].srs.reps
  PROVE  IInv'
<1> DEFINE r == [op |-> op, note |-> i, row |-> row, padded |-> padded, stale |-> FALSE]
<1>1. /\ DOMAIN request' = DOMAIN request \cup {s} /\ request'[s] = r
      /\ \A h \in DOMAIN request : request'[h] = request[h]
      /\ UNCHANGED <<notes, reviewed, closed, raced, blind>>
  BY AfterReading
<1>2. r \in Request /\ r.op = op /\ r.note = i /\ r.row = row /\ r.padded = padded /\ r.stale = FALSE
  BY DEF Request
<1> HIDE DEF r
<1>3. NotesTyped'
  BY <1>1 DEF IInv, TypeOK, NotesTyped, Scheduled
<1>4. RequestsTyped'
  <2>1. DOMAIN request' \subseteq Sessions
    BY <1>1 DEF IInv, TypeOK, RequestsTyped
  <2>2. ASSUME NEW h \in DOMAIN request'
        PROVE  /\ request'[h] \in Request /\ Scheduled(request'[h].row)
               /\ IF request'[h].op = "remember" THEN request'[h].note = 0
                  ELSE request'[h].note \in DOMAIN notes
    <3>1. CASE h = s
      BY <1>1, <1>2, <3>1
    <3>2. CASE h # s
      BY <1>1, <3>2 DEF IInv, TypeOK, RequestsTyped
    <3> QED BY <3>1, <3>2
  <2> QED BY <1>1, <2>1, <2>2 DEF RequestsTyped, Scheduled
<1>5. (OneActivePerEntry /\ NotesTellWhatHappened /\ ActiveNotesAreUnanswered)'
  BY <1>1 DEF IInv, OneActivePerEntry, NotesTellWhatHappened, ActiveNotesAreUnanswered, SameEntry
<1>6. CopiesAreUnanswered'
  BY <1>1, <1>2 DEF IInv, CopiesAreUnanswered
<1>7. CreationsAreNew'
  BY <1>1, <1>2 DEF IInv, CreationsAreNew, SameEntry
<1>8. CopiesFollowNotes'
  BY <1>1, <1>2 DEF IInv, CopiesFollowNotes, SameEntry
<1> QED BY <1>3, <1>4, <1>5, <1>6, <1>7, <1>8 DEF IInv, TypeOK

LEMMA RememberReadsKeeps ==
  ASSUME IInv, NEW s \in Sessions, NEW c \in Courses, NEW padded \in BOOLEAN, NEW k \in Kinds, NEW t \in Texts,
         RememberReads(s, c, padded, k, t)
  PROVE  IInv'
<1> DEFINE row == [course |-> c, kind |-> k, text |-> t, status |-> "active", resolutions |-> 0,
                   srs |-> Schedule(k)]
<1>1. Reads(s, "remember", 0, row, padded) /\ Known(c, padded, k, t) = {}
  BY DEF RememberReads
<1>2. row \in Note /\ Scheduled(row)
  BY NewNote
<1>3. row.status = "active" /\ row.resolutions = 0 /\ row.srs.reps = 0
  BY ScheduleFields
<1>4. ASSUME ~padded, NEW j \in DOMAIN notes, SameEntry(notes[j], row)
      PROVE  notes[j].status # "active"
  BY <1>1, <1>4 DEF Known, SameEntry, IInv, ActiveNotesAreUnanswered
<1> HIDE DEF row
<1> QED BY <1>1, <1>2, <1>3, <1>4, ReadsKeeps

LEMMA ReviewReadsKeeps ==
  ASSUME IInv, NEW s \in Sessions, NEW i \in 1 .. MaxNotes, NEW rating \in Rating, ReviewReads(s, i, rating)
  PROVE  IInv'
<1> DEFINE row == [notes[i] EXCEPT !.srs = Review(@, rating)]
<1>1. /\ i \in DOMAIN notes /\ notes[i].kind \in Reviewable /\ notes[i].status = "active"
      /\ Reads(s, "review", i, row, FALSE)
  BY DEF ReviewReads
<1>2. notes[i] \in Note /\ notes[i].resolutions = 0 /\ i \in Nat
  BY <1>1 DEF IInv, TypeOK, NotesTyped, ActiveNotesAreUnanswered
<1>3. /\ row \in Note /\ Scheduled(row) /\ SameEntry(row, notes[i])
      /\ row.status = "active" /\ row.resolutions = 0 /\ row.srs.reps = notes[i].srs.reps + 1
  BY <1>1, <1>2, ReviewedNote
<1> HIDE DEF row
<1> QED BY <1>1, <1>2, <1>3, ReadsKeeps

LEMMA ResolveReadsKeeps ==
  ASSUME IInv, NEW s \in Sessions, NEW i \in 1 .. MaxNotes, NEW answered \in BOOLEAN, ResolveReads(s, i, answered)
  PROVE  IInv'
<1> DEFINE row == [notes[i] EXCEPT !.status = "resolved", !.resolutions = IF answered THEN @ + 1 ELSE @]
<1>1. i \in DOMAIN notes /\ Reads(s, "resolve", i, row, FALSE)
  BY DEF ResolveReads
<1>2. notes[i] \in Note /\ Scheduled(notes[i]) /\ i \in Nat
  BY <1>1 DEF IInv, TypeOK, NotesTyped
<1>3. /\ row \in Note /\ Scheduled(row) /\ SameEntry(row, notes[i])
      /\ row.status = "resolved" /\ row.srs = notes[i].srs
  BY <1>2, ResolvedNote
<1> HIDE DEF row
<1> QED BY <1>1, <1>2, <1>3, ReadsKeeps

---------------------------------------------------------------------------
\* Second statements

\* A copy as it was, current or not.
SameCopy(q, r) == q.op = r.op /\ q.note = r.note /\ q.row = r.row /\ q.padded = r.padded

LEMMA OutdatedCopy ==
  ASSUME NEW r \in Request, NEW b \in BOOLEAN
  PROVE  LET q == [r EXCEPT !.stale = @ \/ b]
         IN q \in Request /\ SameCopy(q, r) /\ (q.stale <=> r.stale \/ b)
BY DEF Request, SameCopy

\* The other calls' copies, after review_result() or resolve() has written.
LEMMA OthersAfterOverwriting ==
  ASSUME RequestsTyped, NEW s \in DOMAIN request, Overwrites(s)
  PROVE  /\ DOMAIN request' = DOMAIN request \ {s}
         /\ \A h \in DOMAIN request' :
              /\ request'[h] \in Request /\ SameCopy(request'[h], request[h])
              /\ request'[h].stale <=> request[h].stale \/ request[h].note = request[s].note
<1>1. request' = [h \in DOMAIN request \ {s} |->
                    [request[h] EXCEPT !.stale = @ \/ (request[h].note = request[s].note)]]
  BY DEF Overwrites, Returns
<1>2. \A h \in DOMAIN request : request[h] \in Request
  BY DEF RequestsTyped
<1>3. ASSUME NEW h \in DOMAIN request \ {s}
      PROVE  /\ request'[h] \in Request /\ SameCopy(request'[h], request[h])
             /\ request'[h].stale <=> request[h].stale \/ request[h].note = request[s].note
  <2> DEFINE b == request[h].note = request[s].note
  <2>1. request'[h] = [request[h] EXCEPT !.stale = @ \/ b]
    BY <1>1
  <2>2. b \in BOOLEAN
    OBVIOUS
  <2> HIDE DEF b
  <2>3. request[h] \in Request
    BY <1>2
  <2>4. request'[h] \in Request /\ SameCopy(request'[h], request[h]) /\ (request'[h].stale <=> request[h].stale \/ b)
    BY <2>1, <2>2, <2>3, OutdatedCopy
  <2> QED BY <2>4 DEF b
<1> QED BY <1>1, <1>3

\* What a write of a held row leaves behind: the note is the row that was held,
\* and a copy that was not current marks it.
LEMMA NotesAfterOverwriting ==
  ASSUME TypeOK, NEW s \in DOMAIN request, request[s].op \in {"review", "resolve"}, Overwrites(s)
  PROVE  /\ request[s].note \in DOMAIN notes
         /\ notes' \in Seq(Note) /\ Len(notes') = Len(notes) /\ DOMAIN notes' = DOMAIN notes
         /\ notes'[request[s].note] = request[s].row
         /\ \A i \in DOMAIN notes \ {request[s].note} : notes'[i] = notes[i]
         /\ \A i \in DOMAIN notes : Scheduled(notes'[i])
         /\ raced' = IF request[s].stale THEN raced \cup {request[s].note} ELSE raced
<1>1. /\ request[s] \in Request /\ Scheduled(request[s].row) /\ request[s].note \in DOMAIN notes
      /\ notes \in Seq(Note) /\ \A i \in DOMAIN notes : Scheduled(notes[i])
  BY DEF TypeOK, RequestsTyped, NotesTyped
<1>2. request[s].row \in Note
  BY <1>1 DEF Request
<1>3. notes' = [notes EXCEPT ![request[s].note] = request[s].row]
  BY DEF Overwrites
<1>4. raced' = IF request[s].stale THEN raced \cup {request[s].note} ELSE raced
  BY DEF Overwrites
<1> QED BY <1>1, <1>2, <1>3, <1>4

LEMMA OverwritesKeeps ==
  ASSUME IInv, NEW s \in Sessions, ReviewWrites(s) \/ ResolveWrites(s)
  PROVE  IInv'
<1> DEFINE r == request[s]
           n == request[s].note
<1>1. /\ s \in DOMAIN request /\ Overwrites(s) /\ blind' = blind
      /\ \/ r.op = "review" /\ reviewed' = [reviewed EXCEPT ![n] = @ + 1] /\ closed' = closed
         \/ r.op = "resolve" /\ closed' = closed \cup {n} /\ reviewed' = reviewed
  BY DEF ReviewWrites, ResolveWrites, Holding
<1>2. TypeOK /\ RequestsTyped /\ NotesTyped
  BY DEF IInv, TypeOK
<1>3. /\ n \in DOMAIN notes
      /\ notes' \in Seq(Note) /\ Len(notes') = Len(notes) /\ DOMAIN notes' = DOMAIN notes
      /\ notes'[n] = r.row
      /\ \A i \in DOMAIN notes \ {n} : notes'[i] = notes[i]
      /\ \A i \in DOMAIN notes : Scheduled(notes'[i])
      /\ raced' = IF r.stale THEN raced \cup {n} ELSE raced
  BY <1>1, <1>2, NotesAfterOverwriting
<1>4. /\ DOMAIN request' = DOMAIN request \ {s}
      /\ \A h \in DOMAIN request' :
           /\ request'[h] \in Request /\ SameCopy(request'[h], request[h])
           /\ request'[h].stale <=> request[h].stale \/ request[h].note = n
  BY <1>1, <1>2, OthersAfterOverwriting
<1>5. /\ r.row.status = "active" => r.row.resolutions = 0
      /\ SameEntry(r.row, notes[n])
      /\ r.op = "review" => r.row.status = "active"
      /\ r.op = "resolve" => r.row.status = "resolved"
      /\ r.op = "review" /\ ~r.stale => notes[n].status = "active" /\ r.row.srs.reps = notes[n].srs.reps + 1
      /\ r.op = "resolve" /\ ~r.stale => r.row.srs.reps = notes[n].srs.reps
  BY <1>1 DEF IInv, CopiesAreUnanswered, CopiesFollowNotes
<1>6. n \notin raced' => ~r.stale /\ n \notin raced
  BY <1>3
<1>7. raced \subseteq raced' /\ raced' \subseteq DOMAIN notes
  BY <1>2, <1>3 DEF NotesTyped
<1>8. \A h \in DOMAIN request' : h \in DOMAIN request
  BY <1>4
<1> HIDE DEF r, n
<1>9. /\ reviewed' \in Seq(Nat) /\ Len(reviewed') = Len(notes) /\ closed' \subseteq DOMAIN notes
      /\ \A i \in DOMAIN notes \ {n} : reviewed'[i] = reviewed[i] /\ (i \in closed' <=> i \in closed)
      /\ r.op = "review" => reviewed'[n] = reviewed[n] + 1 /\ closed' = closed
      /\ r.op = "resolve" => reviewed'[n] = reviewed[n] /\ n \in closed'
  <2>1. reviewed \in Seq(Nat) /\ Len(reviewed) = Len(notes) /\ n \in DOMAIN reviewed /\ DOMAIN reviewed = DOMAIN notes
    BY <1>2, <1>3 DEF NotesTyped
  <2>2. closed \subseteq DOMAIN notes
    BY <1>2 DEF NotesTyped
  <2>3. CASE r.op = "review" /\ reviewed' = [reviewed EXCEPT ![n] = @ + 1] /\ closed' = closed
    <3>1. reviewed[n] + 1 \in Nat
      BY <2>1
    <3> DEFINE more == reviewed[n] + 1
    <3>2. reviewed' = [reviewed EXCEPT ![n] = more] /\ more \in Nat
      BY <2>3, <3>1
    <3> HIDE DEF more
    <3>3. /\ reviewed' \in Seq(Nat) /\ Len(reviewed') = Len(notes) /\ reviewed'[n] = more
          /\ \A i \in DOMAIN notes \ {n} : reviewed'[i] = reviewed[i]
      BY <2>1, <3>2
    <3> QED BY <2>2, <2>3, <3>3 DEF more
  <2>4. CASE r.op = "resolve" /\ closed' = closed \cup {n} /\ reviewed' = reviewed
    BY <1>3, <2>1, <2>2, <2>4
  <2> QED BY <1>1, <2>3, <2>4
<1>10. NotesTyped'
  BY <1>1, <1>2, <1>3, <1>7, <1>9 DEF NotesTyped, Scheduled
<1>11. RequestsTyped'
  BY <1>2, <1>3, <1>4, <1>8 DEF RequestsTyped, SameCopy, Scheduled
<1>12. ASSUME NEW i \in DOMAIN notes, i \notin raced', notes'[i].status = "active"
       PROVE  notes[i].status = "active" /\ SameEntry(notes'[i], notes[i])
  BY <1>1, <1>3, <1>5, <1>6, <1>12 DEF SameEntry
<1>13. OneActivePerEntry'
  <2> SUFFICES ASSUME NEW i \in DOMAIN notes, NEW j \in DOMAIN notes, i # j,
                      SameEntry(notes'[i], notes'[j]),
                      notes'[i].status = "active", notes'[j].status = "active",
                      i \notin raced', j \notin raced'
               PROVE  {i, j} \cap (raced \cup blind) # {}
    BY <1>1, <1>3, <1>7 DEF OneActivePerEntry, SameEntry
  <2>1. /\ notes[i].status = "active" /\ SameEntry(notes'[i], notes[i])
        /\ notes[j].status = "active" /\ SameEntry(notes'[j], notes[j])
    BY <1>12
  <2>2. SameEntry(notes[i], notes[j])
    BY <2>1 DEF SameEntry
  <2> QED BY <2>1, <2>2 DEF IInv, OneActivePerEntry
<1>14. NotesTellWhatHappened'
  <2> SUFFICES ASSUME NEW i \in DOMAIN notes \ raced'
               PROVE  /\ notes'[i].srs.reps = reviewed'[i]
                      /\ notes'[i].status = "resolved" <=> i \in closed'
    BY <1>3 DEF NotesTellWhatHappened
  <2>1. notes[i].srs.reps = reviewed[i] /\ (notes[i].status = "resolved" <=> i \in closed)
    BY <1>7 DEF IInv, NotesTellWhatHappened
  <2>2. CASE i = n
    BY <1>1, <1>3, <1>5, <1>6, <1>9, <2>1, <2>2
  <2>3. CASE i # n
    BY <1>3, <1>9, <2>1, <2>3
  <2> QED BY <2>2, <2>3
<1>15. ActiveNotesAreUnanswered'
  BY <1>3, <1>5 DEF IInv, ActiveNotesAreUnanswered
<1>16. CopiesAreUnanswered'
  BY <1>4, <1>8 DEF IInv, CopiesAreUnanswered, SameCopy
<1>17. CreationsAreNew'
  <2> SUFFICES ASSUME NEW h \in DOMAIN request', request'[h].op = "remember"
               PROVE  /\ request'[h].row.status = "active" /\ request'[h].row.srs.reps = 0
                      /\ ~request'[h].padded /\ ~request'[h].stale =>
                           \A i \in DOMAIN notes \ raced' :
                             SameEntry(notes'[i], request'[h].row) => notes'[i].status # "active"
    BY <1>3 DEF CreationsAreNew, SameEntry
  <2>1. h \in DOMAIN request /\ SameCopy(request'[h], request[h]) /\ (request[h].stale => request'[h].stale)
    BY <1>4, <1>8
  <2>2. request[h].row.status = "active" /\ request[h].row.srs.reps = 0
    BY <2>1 DEF IInv, CreationsAreNew, SameCopy
  <2>3. ASSUME ~request'[h].padded, ~request'[h].stale, NEW i \in DOMAIN notes \ raced',
               SameEntry(notes'[i], request'[h].row), notes'[i].status = "active"
        PROVE  FALSE
    <3>1. notes[i].status = "active" /\ SameEntry(notes'[i], notes[i])
      BY <1>12, <2>3
    <3>2. SameEntry(notes[i], request[h].row)
      BY <2>1, <2>3, <3>1 DEF SameEntry, SameCopy
    <3> QED BY <1>7, <2>1, <2>3, <3>1, <3>2 DEF IInv, CreationsAreNew, SameCopy
  <2> QED BY <2>1, <2>2, <2>3 DEF SameCopy
<1>18. CopiesFollowNotes'
  <2> SUFFICES ASSUME NEW h \in DOMAIN request', request'[h].op \in {"review", "resolve"}
               PROVE  /\ SameEntry(request'[h].row, notes'[request'[h].note])
                      /\ request'[h].op = "review" =>
                           /\ request'[h].row.status = "active"
                           /\ ~request'[h].stale =>
                                /\ notes'[request'[h].note].status = "active"
                                /\ request'[h].row.srs.reps = notes'[request'[h].note].srs.reps + 1
                      /\ request'[h].op = "resolve" =>
                           /\ request'[h].row.status = "resolved"
                           /\ ~request'[h].stale =>
                                request'[h].row.srs.reps = notes'[request'[h].note].srs.reps
    BY DEF CopiesFollowNotes, SameEntry
  <2>1. /\ h \in DOMAIN request /\ SameCopy(request'[h], request[h])
        /\ request'[h].stale <=> request[h].stale \/ request[h].note = n
    BY <1>4, <1>8
  <2>2. request[h].note \in DOMAIN notes
    BY <1>2, <2>1 DEF RequestsTyped, SameCopy
  <2>3. CASE request[h].note = n
    <3>1. SameEntry(request[h].row, notes[n])
      BY <2>1, <2>3 DEF IInv, CopiesFollowNotes, SameCopy
    <3>2. SameEntry(request'[h].row, notes'[n]) /\ request'[h].stale
      BY <1>3, <1>5, <2>1, <2>3, <3>1 DEF SameEntry, SameCopy
    <3> QED BY <2>1, <2>3, <3>2 DEF IInv, CopiesFollowNotes, SameCopy
  <2>4. CASE request[h].note # n
    BY <1>3, <2>1, <2>2, <2>4 DEF IInv, CopiesFollowNotes, SameCopy
  <2> QED BY <2>3, <2>4
<1> QED BY <1>10, <1>11, <1>13, <1>14, <1>15, <1>16, <1>17, <1>18 DEF IInv, TypeOK

\* remember() has written: the new note is the last one.
LEMMA AfterRemembering ==
  ASSUME TypeOK, NEW s \in DOMAIN request, RememberWrites(s)
  PROVE  LET i == Len(notes) + 1
             r == request[s]
         IN /\ r.op = "remember" /\ r \in Request /\ Scheduled(r.row)
            /\ i \notin DOMAIN notes /\ DOMAIN notes' = DOMAIN notes \cup {i}
            /\ notes' \in Seq(Note) /\ Len(notes') = i /\ i <= MaxNotes
            /\ notes'[i] = r.row
            /\ \A j \in DOMAIN notes : notes'[j] = notes[j] /\ reviewed'[j] = reviewed[j]
            /\ reviewed' \in Seq(Nat) /\ Len(reviewed') = i /\ reviewed'[i] = 0
            /\ raced' = IF r.stale THEN raced \cup {i} ELSE raced
            /\ blind' = IF r.padded THEN blind \cup {i} ELSE blind
            /\ closed' = closed
<1>1. /\ request[s].op = "remember" /\ request[s] \in Request /\ Scheduled(request[s].row)
      /\ notes \in Seq(Note) /\ reviewed \in Seq(Nat) /\ Len(reviewed) = Len(notes)
  BY DEF TypeOK, NotesTyped, RequestsTyped, RememberWrites, Holding
<1>2. request[s].row \in Note
  BY <1>1 DEF Request
<1>3. Len(notes) \in Nat /\ Len(notes) < MaxNotes /\ Len(notes) + 1 <= MaxNotes
  BY <1>1, NotesBounds DEF RememberWrites
<1>4. notes' = Append(notes, request[s].row) /\ reviewed' = Append(reviewed, 0)
  BY DEF RememberWrites
<1>5. /\ raced' = IF request[s].stale THEN raced \cup {Len(notes) + 1} ELSE raced
      /\ blind' = IF request[s].padded THEN blind \cup {Len(notes) + 1} ELSE blind
      /\ closed' = closed
  BY DEF RememberWrites
<1>6. /\ notes' \in Seq(Note) /\ Len(notes') = Len(notes) + 1 /\ notes'[Len(notes) + 1] = request[s].row
      /\ \A j \in DOMAIN notes : notes'[j] = notes[j]
      /\ DOMAIN notes' = DOMAIN notes \cup {Len(notes) + 1} /\ Len(notes) + 1 \notin DOMAIN notes
  BY <1>1, <1>2, <1>3, <1>4
<1>7. /\ reviewed' \in Seq(Nat) /\ Len(reviewed') = Len(notes) + 1 /\ reviewed'[Len(notes) + 1] = 0
      /\ \A j \in DOMAIN notes : reviewed'[j] = reviewed[j]
  BY <1>1, <1>3, <1>4
<1> QED BY <1>1, <1>3, <1>5, <1>6, <1>7

\* The other calls' copies, after remember() has written.
LEMMA OthersAfterRemembering ==
  ASSUME RequestsTyped, NEW s \in DOMAIN request, RememberWrites(s)
  PROVE  /\ DOMAIN request' = DOMAIN request \ {s}
         /\ \A h \in DOMAIN request' :
              /\ request'[h] \in Request /\ SameCopy(request'[h], request[h])
              /\ request'[h].stale <=>
                   request[h].stale \/ (request[h].note = 0 /\ SameEntry(request[h].row, request[s].row))
<1> DEFINE b(h) == request[h].note = 0 /\ SameEntry(request[h].row, request[s].row)
<1>1. request' = [h \in DOMAIN request \ {s} |-> [request[h] EXCEPT !.stale = @ \/ b(h)]]
  BY DEF RememberWrites, Returns
<1>2. \A h \in DOMAIN request : request[h] \in Request /\ b(h) \in BOOLEAN
  BY DEF RequestsTyped, SameEntry
<1> HIDE DEF b
<1>3. ASSUME NEW h \in DOMAIN request \ {s}
      PROVE  /\ request'[h] \in Request /\ SameCopy(request'[h], request[h])
             /\ request'[h].stale <=> request[h].stale \/ b(h)
  <2>1. request'[h] = [request[h] EXCEPT !.stale = @ \/ b(h)]
    BY <1>1
  <2>2. request[h] \in Request /\ b(h) \in BOOLEAN
    BY <1>2
  <2> QED BY <2>1, <2>2, OutdatedCopy
<1> QED BY <1>1, <1>3 DEF b

LEMMA RememberWritesKeeps ==
  ASSUME IInv, NEW s \in Sessions, RememberWrites(s)
  PROVE  IInv'
<1> DEFINE r == request[s]
           i == Len(notes) + 1
<1>1. s \in DOMAIN request /\ TypeOK /\ RequestsTyped /\ NotesTyped
  BY DEF IInv, TypeOK, RememberWrites, Holding
<1>2. /\ r.op = "remember" /\ r \in Request /\ Scheduled(r.row)
      /\ i \notin DOMAIN notes /\ DOMAIN notes' = DOMAIN notes \cup {i}
      /\ notes' \in Seq(Note) /\ Len(notes') = i /\ i <= MaxNotes
      /\ notes'[i] = r.row
      /\ \A j \in DOMAIN notes : notes'[j] = notes[j] /\ reviewed'[j] = reviewed[j]
      /\ reviewed' \in Seq(Nat) /\ Len(reviewed') = i /\ reviewed'[i] = 0
      /\ raced' = IF r.stale THEN raced \cup {i} ELSE raced
      /\ blind' = IF r.padded THEN blind \cup {i} ELSE blind
      /\ closed' = closed
  BY <1>1, AfterRemembering
<1>3. /\ DOMAIN request' = DOMAIN request \ {s}
      /\ \A h \in DOMAIN request' :
           /\ request'[h] \in Request /\ SameCopy(request'[h], request[h])
           /\ request'[h].stale <=> request[h].stale \/ (request[h].note = 0 /\ SameEntry(request[h].row, r.row))
  BY <1>1, OthersAfterRemembering
<1>4. /\ r.row.status = "active" /\ r.row.resolutions = 0 /\ r.row.srs.reps = 0
      /\ ~r.padded /\ ~r.stale =>
           \A j \in DOMAIN notes \ raced : SameEntry(notes[j], r.row) => notes[j].status # "active"
  BY <1>1, <1>2 DEF IInv, CreationsAreNew, CopiesAreUnanswered
<1>5. closed \cup raced \cup blind \subseteq DOMAIN notes
  BY <1>1 DEF NotesTyped
<1>6. \A h \in DOMAIN request' : h \in DOMAIN request
  BY <1>3
<1> HIDE DEF r, i
<1>7. NotesTyped'
  <2>1. (closed \cup raced \cup blind)' \subseteq DOMAIN notes'
    BY <1>2, <1>5
  <2>2. \A j \in DOMAIN notes' : Scheduled(notes'[j])
    BY <1>1, <1>2 DEF NotesTyped
  <2> QED BY <1>2, <2>1, <2>2 DEF NotesTyped, Scheduled
<1>8. RequestsTyped'
  BY <1>1, <1>2, <1>3, <1>6 DEF RequestsTyped, SameCopy, Scheduled
<1>9. OneActivePerEntry'
  <2>1. ASSUME NEW j \in DOMAIN notes, SameEntry(notes[j], r.row), notes[j].status = "active"
        PROVE  {i, j} \cap (raced' \cup blind') # {}
    BY <1>2, <1>4, <2>1
  <2> SUFFICES ASSUME NEW j \in DOMAIN notes', NEW k \in DOMAIN notes', j # k,
                      SameEntry(notes'[j], notes'[k]),
                      notes'[j].status = "active", notes'[k].status = "active"
               PROVE  {j, k} \cap (raced' \cup blind') # {}
    BY DEF OneActivePerEntry, SameEntry
  <2>2. CASE j = i
    BY <1>2, <2>1, <2>2 DEF SameEntry
  <2>3. CASE k = i
    BY <1>2, <2>1, <2>3
  <2>4. CASE j # i /\ k # i
    <3>1. {j, k} \cap (raced \cup blind) # {}
      BY <1>2, <2>4 DEF IInv, OneActivePerEntry
    <3> QED BY <1>2, <3>1
  <2> QED BY <2>2, <2>3, <2>4
<1>10. NotesTellWhatHappened'
  <2>1. i \notin closed
    BY <1>2, <1>5
  <2> QED BY <1>2, <1>4, <2>1 DEF IInv, NotesTellWhatHappened
<1>11. ActiveNotesAreUnanswered'
  BY <1>2, <1>4 DEF IInv, ActiveNotesAreUnanswered
<1>12. CopiesAreUnanswered'
  BY <1>3, <1>6 DEF IInv, CopiesAreUnanswered, SameCopy
<1>13. CreationsAreNew'
  <2> SUFFICES ASSUME NEW h \in DOMAIN request', request'[h].op = "remember"
               PROVE  /\ request'[h].row.status = "active" /\ request'[h].row.srs.reps = 0
                      /\ ~request'[h].padded /\ ~request'[h].stale =>
                           \A j \in DOMAIN notes' \ raced' :
                             SameEntry(notes'[j], request'[h].row) => notes'[j].status # "active"
    BY DEF CreationsAreNew, SameEntry
  <2>1. /\ h \in DOMAIN request /\ SameCopy(request'[h], request[h])
        /\ request'[h].stale <=> request[h].stale \/ (request[h].note = 0 /\ SameEntry(request[h].row, r.row))
    BY <1>3, <1>6
  <2>2. request[h].op = "remember" /\ request[h].note = 0
    BY <1>1, <2>1 DEF RequestsTyped, SameCopy
  <2>3. ASSUME ~request'[h].padded, ~request'[h].stale, NEW j \in DOMAIN notes' \ raced',
               SameEntry(notes'[j], request'[h].row)
        PROVE  notes'[j].status # "active"
    <3>1. CASE j = i
      <4>1. SameEntry(request[h].row, r.row)
        BY <1>2, <2>1, <2>3, <3>1 DEF SameEntry, SameCopy
      <4> QED BY <2>1, <2>2, <2>3, <4>1
    <3>2. CASE j # i
      <4>1. j \in DOMAIN notes \ raced /\ notes'[j] = notes[j]
        BY <1>2, <2>3, <3>2
      <4> QED BY <2>1, <2>2, <2>3, <4>1 DEF IInv, CreationsAreNew, SameCopy
    <3> QED BY <3>1, <3>2
  <2> QED BY <2>1, <2>2, <2>3 DEF IInv, CreationsAreNew, SameCopy
<1>14. CopiesFollowNotes'
  <2>1. ASSUME NEW h \in DOMAIN request', request'[h].op \in {"review", "resolve"}
        PROVE  /\ h \in DOMAIN request /\ SameCopy(request'[h], request[h])
               /\ request[h].stale => request'[h].stale
               /\ notes'[request[h].note] = notes[request[h].note]
    BY <1>1, <1>2, <1>3, <1>6, <2>1 DEF RequestsTyped, SameCopy
  <2> QED BY <2>1 DEF IInv, CopiesFollowNotes, SameCopy, SameEntry
<1> QED BY <1>7, <1>8, <1>9, <1>10, <1>11, <1>12, <1>13, <1>14 DEF IInv, TypeOK

LEMMA CrashKeeps ==
  ASSUME IInv, NEW s \in Sessions, Crash(s)
  PROVE  IInv'
<1>1. /\ DOMAIN request' = DOMAIN request \ {s}
      /\ \A h \in DOMAIN request' : h \in DOMAIN request /\ request'[h] = request[h]
      /\ UNCHANGED <<notes, reviewed, closed, raced, blind>>
  BY DEF Crash
<1>2. TypeOK'
  BY <1>1 DEF IInv, TypeOK, NotesTyped, RequestsTyped, Scheduled
<1>3. (OneActivePerEntry /\ NotesTellWhatHappened /\ ActiveNotesAreUnanswered)'
  BY <1>1 DEF IInv, OneActivePerEntry, NotesTellWhatHappened, ActiveNotesAreUnanswered, SameEntry
<1>4. (CopiesAreUnanswered /\ CreationsAreNew /\ CopiesFollowNotes)'
  BY <1>1 DEF IInv, CopiesAreUnanswered, CreationsAreNew, CopiesFollowNotes, SameEntry
<1> QED BY <1>2, <1>3, <1>4 DEF IInv

---------------------------------------------------------------------------
\* Theorems

LEMMA Inductive == IInv /\ [Next]_vars => IInv'
<1> SUFFICES ASSUME IInv, [Next]_vars
             PROVE  IInv'
  OBVIOUS
<1>1. CASE UNCHANGED vars
  <2>1. UNCHANGED <<notes, request, reviewed, closed, raced, blind>>
    BY <1>1 DEF vars
  <2>2. TypeOK'
    BY <2>1 DEF IInv, TypeOK, NotesTyped, RequestsTyped, Scheduled
  <2>3. (OneActivePerEntry /\ NotesTellWhatHappened /\ ActiveNotesAreUnanswered)'
    BY <2>1 DEF IInv, OneActivePerEntry, NotesTellWhatHappened, ActiveNotesAreUnanswered, SameEntry
  <2>4. (CopiesAreUnanswered /\ CreationsAreNew /\ CopiesFollowNotes)'
    BY <2>1 DEF IInv, CopiesAreUnanswered, CreationsAreNew, CopiesFollowNotes, SameEntry
  <2> QED BY <2>2, <2>3, <2>4 DEF IInv
<1>2. ASSUME NEW s \in Sessions, Call(s)
      PROVE  IInv'
  BY <1>2, RememberReadsKeeps, RememberWritesKeeps, ReviewReadsKeeps, ResolveReadsKeeps, OverwritesKeeps, CrashKeeps
     DEF Call
<1> QED BY <1>1, <1>2 DEF Next

LEMMA Invariance == Spec => []IInv
<1>1. Init => IInv
  <2>1. <<>> \in Seq(Note) /\ <<>> \in Seq(Nat) /\ Len(<<>>) = 0 /\ DOMAIN <<>> = {}
    OBVIOUS
  <2> QED BY <2>1, NotesBounds DEF Init, IInv, TypeOK, NotesTyped, RequestsTyped, OneActivePerEntry,
             NotesTellWhatHappened, ActiveNotesAreUnanswered, CopiesAreUnanswered, CreationsAreNew, CopiesFollowNotes
<1> QED BY <1>1, Inductive, PTL DEF Spec

\* Rows and copies are notes of their types for any number of processes and
\* notes, and only the kinds that are reviewed carry a schedule.
THEOREM TypeCorrect == Spec => []TypeOK
BY Invariance, PTL DEF IInv

\* remember() makes a second active note of a course, kind and text only where
\* processes raced or the course was named with spaces around it.
THEOREM AlwaysOneActivePerEntry == Spec => []OneActivePerEntry
BY Invariance, PTL DEF IInv

\* Unless processes raced on a note, its repetitions are the reviews it was
\* answered, and it is resolved exactly if resolve() was called on it.
THEOREM NotesAlwaysTellWhatHappened == Spec => []NotesTellWhatHappened
BY Invariance, PTL DEF IInv

\* No active note has a resolution in its text, raced on or not, so remember()
\* always compares with the text it once stored.
THEOREM ActiveNotesAreNeverAnswered == Spec => []ActiveNotesAreUnanswered
BY Invariance, PTL DEF IInv
=============================================================================

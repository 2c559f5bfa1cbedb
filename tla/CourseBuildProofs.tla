-------------------------- MODULE CourseBuildProofs --------------------------
(***************************************************************************)
(* Proofs about CourseBuild: for every manifest, every answer of the models,  *)
(* every number of workers and every failure. The inductive invariant says    *)
(* what the threads of an ingest still have to write, and how that relates to *)
(* what the tables hold already. It rests on lemmas about what the passes     *)
(* return, whose recursive functions are reasoned about by induction on sets *)
(* of numbers: first-order, since every nonempty one has a least member.     *)
(***************************************************************************)
EXTENDS CourseBuild, FiniteSetTheorems, SequenceTheorems, WellFoundedInduction, TLAPS

---------------------------------------------------------------------------
\* Induction and recursion over the numbers

\* A nonempty set of numbers has a least one.
LEMMA Least ==
  ASSUME NEW T \in SUBSET Nat, T # {}
  PROVE  \E x \in T : \A y \in T : x <= y
<1>1. \E x \in T : \A y \in T : ~(<<y, x>> \in OpToRel(<, Nat))
  BY NatLessThanWellFounded, WFMin
<1>2. PICK x \in T : \A y \in T : ~(y < x)
  BY <1>1 DEF OpToRel
<1> QED BY <1>2

\* A set of numbers that has 0 and the successors of its members has them all.
LEMMA NatInSteps ==
  ASSUME NEW S, 0 \in S, \A n \in Nat : n \in S => n + 1 \in S
  PROVE  \A n \in Nat : n \in S
<1> SUFFICES ASSUME Nat \ S # {} PROVE FALSE
  OBVIOUS
<1>1. PICK x \in Nat \ S : \A y \in Nat \ S : x <= y
  <2>1. Nat \ S \in SUBSET Nat
    OBVIOUS
  <2> QED BY <2>1, Least
<1>2. x # 0 /\ x - 1 \in Nat
  BY <1>1
<1>3. x - 1 \in S
  BY <1>1, <1>2
<1>4. (x - 1) + 1 \in S
  BY <1>2, <1>3
<1> QED BY <1>1, <1>4

\* f is the history of N steps from a base.
History(f, N, T, base, step) ==
  f \in [0 .. N -> T] /\ f[0] = base /\ \A n \in 1 .. N : f[n] = step[n][f[n - 1]]

\* A step taken N times from a base has a history.
LEMMA Iteration ==
  ASSUME NEW N \in Nat, NEW T, NEW base \in T, NEW step \in [1 .. N -> [T -> T]]
  PROVE  \E f : History(f, N, T, base, step)
<1> DEFINE Good(f, n) == f \in [0 .. n -> T] /\ f[0] = base
                         /\ \A m \in 1 .. n : f[m] = step[m][f[m - 1]]
           S == {n \in Nat : n <= N => \E f : Good(f, n)}
<1>1. 0 \in S
  <2>1. Good([n \in 0 .. 0 |-> base], 0)
    OBVIOUS
  <2> QED BY <2>1
<1>2. ASSUME NEW n \in Nat, n \in S PROVE n + 1 \in S
  <2> SUFFICES ASSUME n + 1 <= N PROVE \E f : Good(f, n + 1)
    OBVIOUS
  <2>1. PICK f : Good(f, n)
    BY <1>2
  <2> DEFINE g == [m \in 0 .. n + 1 |-> IF m = n + 1 THEN step[n + 1][f[n]] ELSE f[m]]
  <2>2. f[n] \in T /\ step[n + 1] \in [T -> T]
    BY <2>1
  <2>3. g \in [0 .. n + 1 -> T] /\ g[0] = base /\ g[n + 1] = step[n + 1][f[n]]
        /\ \A m \in 0 .. n : g[m] = f[m]
    BY <2>1, <2>2
  <2> HIDE DEF g
  <2>4. ASSUME NEW m \in 1 .. n + 1 PROVE g[m] = step[m][g[m - 1]]
    <3>1. CASE m = n + 1
      BY <3>1, <2>3
    <3>2. CASE m # n + 1
      BY <3>2, <2>1, <2>3
    <3> QED BY <3>1, <3>2
  <2>5. Good(g, n + 1)
    BY <2>3, <2>4
  <2> QED BY <2>5
<1> HIDE DEF S
<1>3. N \in S
  BY <1>1, <1>2, NatInSteps
<1> QED BY <1>3 DEF S, History

---------------------------------------------------------------------------
\* Pick

\* Append adds one item.
LEMMA AppendToSet ==
  ASSUME NEW X, NEW s \in Seq(X), NEW x \in X
  PROVE  Append(s, x) \in Seq(X) /\ ToSet(Append(s, x)) = ToSet(s) \cup {x}
<1> DEFINE t == Append(s, x)
           n == Len(s)
<1>1. t \in Seq(X) /\ n \in Nat /\ DOMAIN t = 1 .. n + 1 /\ DOMAIN s = 1 .. n
      /\ t[n + 1] = x /\ \A i \in 1 .. n : t[i] = s[i]
  OBVIOUS
<1> HIDE DEF t, n
<1>2. 1 .. n + 1 = (1 .. n) \cup {n + 1}
  BY <1>1
<1>3. ToSet(t) = ToSet(s) \cup {x}
  BY <1>1, <1>2 DEF ToSet
<1> QED BY <1>1, <1>3 DEF t

\* Pick runs through s, from the front.
LEMMA PickHistory ==
  ASSUME NEW X, NEW s \in Seq(X), NEW P
  PROVE  \E f \in [0 .. Len(s) -> Seq(X)] :
           /\ Pick(s, P) = f[Len(s)] /\ f[0] = <<>>
           /\ \A n \in 1 .. Len(s) : f[n] = IF n \in P THEN Append(f[n - 1], s[n]) ELSE f[n - 1]
<1> DEFINE N == Len(s)
           T == Seq(X)
           step == [n \in 1 .. N |-> [t \in T |-> IF n \in P THEN Append(t, s[n]) ELSE t]]
           At(g, n) == IF n = 0 THEN <<>> ELSE IF n \in P THEN Append(g[n - 1], s[n]) ELSE g[n - 1]
           Body(g) == [n \in 0 .. N |-> At(g, n)]
           h == CHOOSE g : g = Body(g)
<1>1. step \in [1 .. N -> [T -> T]]
  OBVIOUS
<1>2. \A n \in 1 .. N, t \in T : step[n][t] = IF n \in P THEN Append(t, s[n]) ELSE t
  OBVIOUS
<1>3. <<>> \in T /\ N \in Nat
  OBVIOUS
<1>4. Pick(s, P) = h[N]
  BY Zenon DEF Pick
<1>5. \A n \in 1 .. N, t \in T : Append(t, s[n]) \in T
  OBVIOUS
<1> HIDE DEF step, N, T
<1>6. PICK f : History(f, N, T, <<>>, step)
  BY <1>1, <1>3, Iteration
<1>7. f \in [0 .. N -> T] /\ f[0] = <<>> /\ \A n \in 1 .. N : f[n] = step[n][f[n - 1]]
  BY <1>6 DEF History
<1>8. \A n \in 1 .. N : n - 1 \in 0 .. N /\ f[n - 1] \in T
  BY <1>3, <1>7
<1>9. \A n \in 0 .. N : f[n] = At(f, n)
  <2> TAKE n \in 0 .. N
  <2>1. CASE n = 0
    BY <2>1, <1>7
  <2>2. CASE n # 0
    <3>1. n \in 1 .. N
      BY <2>2, <1>3
    <3>2. f[n] = step[n][f[n - 1]] /\ f[n - 1] \in T
      BY <3>1, <1>7, <1>8
    <3> QED BY <2>2, <3>1, <3>2, <1>2
  <2> QED BY <2>1, <2>2
<1> HIDE DEF At
<1>10. f = Body(f)
  BY <1>3, <1>7, <1>9
<1>11. h = Body(h)
  BY <1>10
<1> HIDE DEF h
<1>12. h = [n \in 0 .. N |-> h[n]] /\ \A n \in 0 .. N : h[n] = At(h, n)
  BY <1>3, <1>11
<1>13. h[0] = <<>> /\ \A n \in 1 .. N : h[n] = IF n \in P THEN Append(h[n - 1], s[n]) ELSE h[n - 1]
  <2>1. 0 \in 0 .. N /\ \A n \in 1 .. N : n \in 0 .. N /\ n # 0
    BY <1>3
  <2> QED BY <2>1, <1>12, Zenon DEF At
<1> DEFINE S == {m \in Nat : m <= N => h[m] \in T}
<1>14. 0 \in S
  BY <1>3, <1>13
<1>15. ASSUME NEW n \in Nat, n \in S PROVE n + 1 \in S
  <2> SUFFICES ASSUME n + 1 \in 1 .. N PROVE h[n + 1] \in T
    BY <1>3
  <2>1. h[n] \in T /\ (n + 1) - 1 = n
    BY <1>3, <1>15
  <2>2. h[n + 1] = IF n + 1 \in P THEN Append(h[n], s[n + 1]) ELSE h[n]
    BY <2>1, <1>13
  <2> QED BY <2>1, <2>2, <1>5
<1> HIDE DEF S
<1>16. \A n \in Nat : n \in S
  BY <1>14, <1>15, NatInSteps
<1>17. h \in [0 .. N -> T]
  BY <1>3, <1>12, <1>16 DEF S
<1> QED BY <1>4, <1>13, <1>17 DEF N, T

\* What Pick returns: the items at the positions, nothing else.
LEMMA PickType ==
  ASSUME NEW X, NEW s \in Seq(X), NEW P
  PROVE  /\ Pick(s, P) \in Seq(X)
         /\ ToSet(Pick(s, P)) = {s[n] : n \in P \cap DOMAIN s}
<1> DEFINE N == Len(s)
<1>1. PICK f \in [0 .. N -> Seq(X)] :
           /\ Pick(s, P) = f[N] /\ f[0] = <<>>
           /\ \A n \in 1 .. N : f[n] = IF n \in P THEN Append(f[n - 1], s[n]) ELSE f[n - 1]
  BY PickHistory
<1>2. N \in Nat /\ DOMAIN s = 1 .. N /\ \A n \in 1 .. N : s[n] \in X
  OBVIOUS
<1> HIDE DEF N
<1> DEFINE S == {n \in Nat : n <= N => ToSet(f[n]) = {s[m] : m \in P \cap (1 .. n)}}
<1>3. 0 \in S
  BY <1>1, <1>2 DEF ToSet
<1>4. ASSUME NEW n \in Nat, n \in S PROVE n + 1 \in S
  <2> SUFFICES ASSUME n + 1 \in 1 .. N
               PROVE  ToSet(f[n + 1]) = {s[m] : m \in P \cap (1 .. n + 1)}
    BY <1>2
  <2>1. ToSet(f[n]) = {s[m] : m \in P \cap (1 .. n)} /\ f[n] \in Seq(X) /\ s[n + 1] \in X
    BY <1>1, <1>2, <1>4
  <2>2. f[n + 1] = IF n + 1 \in P THEN Append(f[n], s[n + 1]) ELSE f[n]
    <3>1. (n + 1) - 1 = n
      OBVIOUS
    <3> QED BY <1>1, <3>1
  <2>3. 1 .. n + 1 = (1 .. n) \cup {n + 1}
    OBVIOUS
  <2>4. ToSet(Append(f[n], s[n + 1])) = ToSet(f[n]) \cup {s[n + 1]}
    <3> DEFINE t == f[n]
               x == s[n + 1]
    <3>1. t \in Seq(X) /\ x \in X
      BY <2>1
    <3> HIDE DEF t, x
    <3>2. ToSet(Append(t, x)) = ToSet(t) \cup {x}
      BY <3>1, AppendToSet
    <3> QED BY <3>2 DEF t, x
  <2>5. CASE n + 1 \in P
    BY <2>1, <2>2, <2>3, <2>4, <2>5
  <2>6. CASE n + 1 \notin P
    BY <2>1, <2>2, <2>3, <2>6
  <2> QED BY <2>5, <2>6
<1> HIDE DEF S
<1>5. \A n \in Nat : n \in S
  BY <1>3, <1>4, NatInSteps
<1>6. ToSet(f[N]) = {s[m] : m \in P \cap (1 .. N)}
  <2>1. N \in S /\ N <= N
    BY <1>2, <1>5
  <2> QED BY <2>1, Zenon DEF S
<1>7. f[N] \in Seq(X)
  BY <1>1, <1>2
<1> QED BY <1>1, <1>2, <1>6, <1>7

\* A sequence is of whatever its items are of.
LEMMA SeqOfItems ==
  ASSUME NEW X, NEW s \in Seq(X), NEW Y, ToSet(s) \subseteq Y
  PROVE  s \in Seq(Y)
<1>1. \A n \in 1 .. Len(s) : s[n] \in Y
  BY DEF ToSet
<1> QED BY <1>1

\* The items of a sequence that are picked by what they are.
LEMMA PickThose ==
  ASSUME NEW X, NEW s \in Seq(X), NEW Y \in SUBSET X, NEW P,
         \A n \in DOMAIN s : n \in P <=> s[n] \in Y
  PROVE  Pick(s, P) \in Seq(Y) /\ ToSet(Pick(s, P)) = ToSet(s) \cap Y
<1>1. Pick(s, P) \in Seq(X) /\ ToSet(Pick(s, P)) = {s[n] : n \in P \cap DOMAIN s}
  BY PickType
<1>2. ToSet(Pick(s, P)) = ToSet(s) \cap Y
  BY <1>1 DEF ToSet
<1>3. ToSet(Pick(s, P)) \subseteq Y
  BY <1>2
<1> QED BY <1>1, <1>2, <1>3, SeqOfItems

\* A concatenation has the items of both.
LEMMA ConcatToSet ==
  ASSUME NEW X, NEW s \in Seq(X), NEW t \in Seq(X)
  PROVE  ToSet(s \o t) = ToSet(s) \cup ToSet(t)
<1> DEFINE u == s \o t
           M == Len(s)
           N == Len(t)
<1>1. /\ M \in Nat /\ N \in Nat /\ DOMAIN s = 1 .. M /\ DOMAIN t = 1 .. N /\ DOMAIN u = 1 .. M + N
      /\ \A i \in 1 .. M : u[i] = s[i]
      /\ \A i \in M + 1 .. M + N : u[i] = t[i - M]
  OBVIOUS
<1> HIDE DEF u, M, N
<1>2. ASSUME NEW x \in ToSet(u) PROVE x \in ToSet(s) \cup ToSet(t)
  <2>1. PICK i \in 1 .. M + N : u[i] = x
    BY <1>1, <1>2 DEF ToSet
  <2>2. CASE i <= M
    BY <2>1, <2>2, <1>1 DEF ToSet
  <2>3. CASE i > M
    <3>1. i \in M + 1 .. M + N /\ i - M \in 1 .. N
      BY <2>1, <2>3, <1>1
    <3> QED BY <3>1, <2>1, <1>1 DEF ToSet
  <2> QED BY <2>1, <2>2, <2>3, <1>1
<1>3. ASSUME NEW x \in ToSet(s) PROVE x \in ToSet(u)
  <2>1. PICK i \in 1 .. M : s[i] = x
    BY <1>1, <1>3 DEF ToSet
  <2>2. i \in 1 .. M + N /\ u[i] = x
    BY <2>1, <1>1
  <2> QED BY <2>2, <1>1 DEF ToSet
<1>4. ASSUME NEW x \in ToSet(t) PROVE x \in ToSet(u)
  <2>1. PICK i \in 1 .. N : t[i] = x
    BY <1>1, <1>4 DEF ToSet
  <2>2. M + i \in M + 1 .. M + N /\ (M + i) - M = i /\ M + i \in 1 .. M + N
    BY <2>1, <1>1
  <2>3. u[M + i] = x
    BY <2>1, <2>2, <1>1
  <2> QED BY <2>2, <2>3, <1>1 DEF ToSet
<1> QED BY <1>2, <1>3, <1>4 DEF u

---------------------------------------------------------------------------
\* Extract

\* A citation of a file, and a concept that an answer yields.
FileRef == [file : Files, line : Nat]
Found == [id : ConceptIds, look : Looks, refs : Seq(FileRef)]

\* Only the citations of a file are left.
LEMMA WithFileType ==
  ASSUME NEW refs \in Seq(Ref)
  PROVE  WithFile(refs) \in Seq(FileRef)
<1>1. FileRef \in SUBSET Ref
  BY DEF FileRef, Ref
<1>2. \A n \in DOMAIN refs : n \in {m \in DOMAIN refs : refs[m].file # NoFile} <=> refs[n] \in FileRef
  <2>1. \A n \in DOMAIN refs : refs[n] \in Ref
    OBVIOUS
  <2>2. \A r \in Ref : r.file # NoFile <=> r \in FileRef
    BY NoFileIsNoFile DEF Ref, FileRef
  <2> QED BY <2>1, <2>2
<1> QED BY <1>1, <1>2, PickThose DEF WithFile

\* The union of citations of files is one.
LEMMA UnionRefsType ==
  ASSUME NEW primary \in Seq(FileRef), NEW extra \in Seq(FileRef)
  PROVE  UnionRefs(primary, extra) \in Seq(FileRef)
<1> DEFINE both == primary \o extra
<1>1. both \in Seq(FileRef)
  OBVIOUS
<1> HIDE DEF both
<1>2. \A P : Pick(both, P) \in Seq(FileRef)
  BY <1>1, PickType
<1> QED BY <1>2 DEF UnionRefs, both

\* Whatever is answered, candidates have an identity and cite files.
LEMMA ExtractType ==
  ASSUME NEW items \in Seq(Item)
  PROVE  Extract(items) \in Seq(Found)
<1> DEFINE P == {n \in DOMAIN items : items[n].id # NoSlug}
           Y == {i \in Item : i.id # NoSlug}
           usable == Pick(items, P)
<1>1. \A n \in DOMAIN items : n \in P <=> items[n] \in Y
  OBVIOUS
<1>2. usable \in Seq(Y)
  BY <1>1, PickThose
<1>3. Extract(items) = [n \in DOMAIN usable |-> [usable[n] EXCEPT !.refs = WithFile(@)]]
  BY DEF Extract
<1> HIDE DEF usable
<1>4. \A i \in Y : [i EXCEPT !.refs = WithFile(@)] \in Found
  <2> TAKE i \in Y
  <2>1. WithFile(i.refs) \in Seq(FileRef)
    BY WithFileType DEF Item
  <2>2. i.id \in ConceptIds /\ i.look \in Looks
    BY DEF Item
  <2>3. [i EXCEPT !.refs = WithFile(@)] = [id |-> i.id, look |-> i.look, refs |-> WithFile(i.refs)]
    BY DEF Item
  <2> QED BY <2>1, <2>2, <2>3 DEF Found
<1> HIDE DEF Y
<1>5. \A n \in DOMAIN usable : usable[n] \in Y
  BY <1>2
<1> DEFINE N == Len(usable)
<1>6. N \in Nat /\ DOMAIN usable = 1 .. N
  BY <1>2
<1> HIDE DEF N
<1>7. Extract(items) \in [1 .. N -> Found]
  BY <1>3, <1>4, <1>5, <1>6
<1> QED BY <1>6, <1>7

---------------------------------------------------------------------------
\* Dedupe

\* No two of the concepts have one id.
UniqueIds(concepts) == \A c, d \in concepts : c.id = d.id => c = d

\* What SelectInSeq says, for a test that is a set of positions.
LEMMA BodyOfType ==
  ASSUME NEW found \in Seq(Found)
  PROVE  /\ \A n \in DOMAIN found : BodyOf(found, found[n]) \in Looks
         /\ \A c, d : c.id = d.id => BodyOf(found, c) = BodyOf(found, d)
<1>1. ASSUME NEW n \in DOMAIN found PROVE BodyOf(found, found[n]) \in Looks
  <2> DEFINE I == {i \in 1 .. Len(found) : found[i].id = found[n].id}
  <2>1. I \in SUBSET Nat /\ n \in I
    OBVIOUS
  <2>2. \E x \in I : \A y \in I : x <= y
    BY <2>1, Least
  <2>3. Min(I) \in I
    BY <2>2 DEF Min
  <2>4. SelectInSeq(found, LAMBDA d : d.id = found[n].id) = Min(I)
    BY <2>1 DEF SelectInSeq
  <2> HIDE DEF I
  <2>5. BodyOf(found, found[n]) = found[Min(I)].look
    BY <2>4 DEF BodyOf
  <2>6. found[Min(I)] \in Found
    BY <2>3 DEF I
  <2> QED BY <2>5, <2>6 DEF Found
<1>2. ASSUME NEW c, NEW d, c.id = d.id PROVE BodyOf(found, c) = BodyOf(found, d)
  BY <1>2 DEF BodyOf, SelectInSeq
<1> QED BY <1>1, <1>2

\* FirstMatch finds a survivor that is similar, whenever there is one.
LEMMA FirstMatchType ==
  ASSUME NEW kept \in Seq(Found), NEW look
  PROVE  \/ FirstMatch(kept, look) = 0 /\ \A n \in DOMAIN kept : <<look, kept[n].look>> \notin Similar
         \/ FirstMatch(kept, look) \in DOMAIN kept
<1> DEFINE I == {i \in 1 .. Len(kept) : <<look, kept[i].look>> \in Similar}
<1>1. I \in SUBSET Nat
  OBVIOUS
<1>2. CASE I = {}
  <2>1. FirstMatch(kept, look) = 0
    BY <1>2 DEF FirstMatch, SelectInSeq
  <2>2. \A n \in DOMAIN kept : <<look, kept[n].look>> \notin Similar
    BY <1>2
  <2> QED BY <2>1, <2>2
<1>3. CASE I # {}
  <2>1. \E x \in I : \A y \in I : x <= y
    BY <1>1, <1>3, Least
  <2>2. Min(I) \in I
    BY <2>1 DEF Min
  <2>3. FirstMatch(kept, look) = Min(I)
    BY <1>3 DEF FirstMatch, SelectInSeq
  <2> QED BY <2>2, <2>3
<1> QED BY <1>2, <1>3

\* Survivors of found: one per id, each with the body of its id.
Survivors(found) ==
  {t \in Seq(Found) :
     /\ \A m, n \in DOMAIN t : t[m].id = t[n].id => m = n
     /\ \A n \in DOMAIN t : \E m \in DOMAIN found :
          t[n].id = found[m].id /\ t[n].look = BodyOf(found, found[m])}

Candidate(found, n) == [found[n] EXCEPT !.look = BodyOf(found, found[n])]

\* A candidate that resembles no survivor has an id of its own, since a body
\* resembles itself; one that does leaves the ids and the bodies alone.
LEMMA FoldKeepsSurvivors ==
  ASSUME NEW found \in Seq(Found), NEW n \in DOMAIN found, NEW t \in Survivors(found)
  PROVE  Fold(t, Candidate(found, n)) \in Survivors(found)
<1> DEFINE body == BodyOf(found, found[n])
           c == Candidate(found, n)
           match == FirstMatch(t, body)
<1>1. found[n] \in Found /\ body \in Looks
  BY BodyOfType
<1>2. c = [id |-> found[n].id, look |-> body, refs |-> found[n].refs]
  BY <1>1 DEF Candidate, Found
<1>3. c \in Found /\ c.look = body /\ c.id = found[n].id /\ c.refs \in Seq(FileRef)
  BY <1>1, <1>2 DEF Found
<1>4. t \in Seq(Found) /\ Len(t) \in Nat /\ DOMAIN t = 1 .. Len(t)
  BY DEF Survivors
<1>5. /\ \A k, m \in DOMAIN t : t[k].id = t[m].id => k = m
      /\ \A k \in DOMAIN t : \E m \in DOMAIN found : t[k].id = found[m].id /\ t[k].look = BodyOf(found, found[m])
  BY DEF Survivors
<1>6. Fold(t, c) = IF match = 0 THEN Append(t, c) ELSE [t EXCEPT ![match].refs = UnionRefs(@, c.refs)]
  BY <1>3 DEF Fold
<1>7. match \in DOMAIN t \/ (match = 0 /\ \A k \in DOMAIN t : <<body, t[k].look>> \notin Similar)
  BY <1>4, FirstMatchType
<1> HIDE DEF c, match, body
<1>8. CASE match = 0
  <2> DEFINE u == Append(t, c)
             N == Len(t)
  <2>1. u \in Seq(Found) /\ DOMAIN u = 1 .. N + 1 /\ u[N + 1] = c /\ \A k \in 1 .. N : u[k] = t[k]
    BY <1>3, <1>4
  <2>2. N \in Nat /\ DOMAIN t = 1 .. N
    BY <1>4
  <2> HIDE DEF u, N
  <2>3. \A k \in DOMAIN t : t[k].id # c.id
    <3> SUFFICES ASSUME NEW k \in DOMAIN t, t[k].id = c.id PROVE FALSE
      OBVIOUS
    <3>1. PICK m \in DOMAIN found : t[k].id = found[m].id /\ t[k].look = BodyOf(found, found[m])
      BY <1>5
    <3>2. BodyOf(found, found[m]) = BodyOf(found, found[n])
      BY <3>1, <1>3, BodyOfType
    <3>3. <<body, t[k].look>> \in Similar
      BY <3>1, <3>2, <1>1, SimilarReflexive DEF body
    <3>4. 0 \notin DOMAIN t
      BY <2>2
    <3> QED BY <3>3, <3>4, <1>7, <1>8
  <2>4. \A k \in DOMAIN u : k = N + 1 \/ k \in DOMAIN t
    BY <2>1, <2>2
  <2>5. \A k \in DOMAIN t : k # N + 1 /\ u[k] = t[k]
    BY <2>1, <2>2
  <2>6. \A k, m \in DOMAIN u : u[k].id = u[m].id => k = m
    BY <2>1, <2>3, <2>4, <2>5, <1>5
  <2>7. \A k \in DOMAIN u : \E m \in DOMAIN found : u[k].id = found[m].id /\ u[k].look = BodyOf(found, found[m])
    BY <2>1, <2>4, <2>5, <1>3, <1>5 DEF body
  <2>8. u \in Survivors(found)
    BY <2>1, <2>6, <2>7 DEF Survivors
  <2> QED BY <2>8, <1>6, <1>8 DEF u, c
<1>9. CASE match # 0
  <2>1. match \in DOMAIN t
    BY <1>7, <1>9
  <2> DEFINE u == [t EXCEPT ![match].refs = UnionRefs(@, c.refs)]
  <2>2. DOMAIN u = DOMAIN t /\ \A k \in DOMAIN t : u[k] = IF k = match THEN [t[k] EXCEPT !.refs = UnionRefs(@, c.refs)] ELSE t[k]
    BY <1>4
  <2>3. \A k \in DOMAIN t : t[k] \in Found
    BY <1>4
  <2>4. \A d \in Found : LET e == [d EXCEPT !.refs = UnionRefs(@, c.refs)]
                         IN e \in Found /\ e.id = d.id /\ e.look = d.look
    <3> TAKE d \in Found
    <3>1. UnionRefs(d.refs, c.refs) \in Seq(FileRef)
      BY <1>3, UnionRefsType DEF Found
    <3> DEFINE r == UnionRefs(d.refs, c.refs)
               e == [d EXCEPT !.refs = r]
    <3>2. r \in Seq(FileRef)
      BY <3>1
    <3> HIDE DEF r
    <3>3. e \in Found /\ e.id = d.id /\ e.look = d.look
      BY <3>2 DEF Found
    <3> QED BY <3>3 DEF r
  <2>5. \A k \in DOMAIN t : u[k] \in Found /\ u[k].id = t[k].id /\ u[k].look = t[k].look
    BY <2>2, <2>3, <2>4
  <2>6. u \in [1 .. Len(t) -> Found]
    BY <1>4, <2>2, <2>5
  <2> HIDE DEF u
  <2>7. u \in Seq(Found)
    BY <1>4, <2>6
  <2>8. u \in Survivors(found)
    BY <2>2, <2>5, <2>7, <1>5 DEF Survivors
  <2> QED BY <2>8, <1>6, <1>9 DEF u, c
<1> QED BY <1>8, <1>9

\* What Dedupe returns are survivors of what it was given.
LEMMA DedupeType ==
  ASSUME NEW found \in Seq(Found)
  PROVE  Dedupe(found) \in Survivors(found)
<1> DEFINE N == Len(found)
           T == Survivors(found)
           step == [n \in 1 .. N |-> [t \in T |-> Fold(t, Candidate(found, n))]]
           At(g, n) == IF n = 0 THEN <<>> ELSE Fold(g[n - 1], [found[n] EXCEPT !.look = BodyOf(found, found[n])])
           Body(g) == [n \in 0 .. N |-> At(g, n)]
           h == CHOOSE g : g = Body(g)
<1>1. step \in [1 .. N -> [T -> T]]
  BY FoldKeepsSurvivors
<1>2. \A n \in 1 .. N, t \in T : step[n][t] = Fold(t, Candidate(found, n))
  OBVIOUS
<1>3. <<>> \in T /\ N \in Nat
  BY DEF Survivors
<1>4. Dedupe(found) = h[N]
  BY Zenon DEF Dedupe
<1>5. \A n \in 1 .. N, t \in T : Fold(t, Candidate(found, n)) \in T
  BY FoldKeepsSurvivors
<1> HIDE DEF step, N, T
<1>6. PICK f : History(f, N, T, <<>>, step)
  BY <1>1, <1>3, Iteration
<1>7. f \in [0 .. N -> T] /\ f[0] = <<>> /\ \A n \in 1 .. N : f[n] = step[n][f[n - 1]]
  BY <1>6 DEF History
<1>8. \A n \in 1 .. N : n - 1 \in 0 .. N /\ f[n - 1] \in T
  BY <1>3, <1>7
<1>9. \A n \in 0 .. N : f[n] = At(f, n)
  <2> TAKE n \in 0 .. N
  <2>1. CASE n = 0
    BY <2>1, <1>7
  <2>2. CASE n # 0
    <3>1. n \in 1 .. N
      BY <2>2, <1>3
    <3>2. f[n] = step[n][f[n - 1]] /\ f[n - 1] \in T
      BY <3>1, <1>7, <1>8
    <3> QED BY <2>2, <3>1, <3>2, <1>2 DEF Candidate
  <2> QED BY <2>1, <2>2
<1> HIDE DEF At
<1>10. f = Body(f)
  BY <1>3, <1>7, <1>9
<1>11. h = Body(h)
  BY <1>10
<1> HIDE DEF h
<1>12. h = [n \in 0 .. N |-> h[n]] /\ \A n \in 0 .. N : h[n] = At(h, n)
  BY <1>3, <1>11
<1>13. h[0] = <<>> /\ \A n \in 1 .. N : h[n] = Fold(h[n - 1], Candidate(found, n))
  <2>1. 0 \in 0 .. N /\ \A n \in 1 .. N : n \in 0 .. N /\ n # 0
    BY <1>3
  <2> QED BY <2>1, <1>12, Zenon DEF At, Candidate
<1> DEFINE S == {m \in Nat : m <= N => h[m] \in T}
<1>14. 0 \in S
  BY <1>3, <1>13
<1>15. ASSUME NEW n \in Nat, n \in S PROVE n + 1 \in S
  <2> SUFFICES ASSUME n + 1 \in 1 .. N PROVE h[n + 1] \in T
    BY <1>3
  <2>1. h[n] \in T /\ (n + 1) - 1 = n
    BY <1>3, <1>15
  <2>2. h[n + 1] = Fold(h[n], Candidate(found, n + 1))
    BY <2>1, <1>13
  <2> QED BY <2>1, <2>2, <1>5
<1> HIDE DEF S
<1>16. \A n \in Nat : n \in S
  BY <1>14, <1>15, NatInSteps
<1>17. h[N] \in T
  <2>1. N \in S /\ N <= N
    BY <1>3, <1>16
  <2> QED BY <2>1, Zenon DEF S
<1> QED BY <1>4, <1>17 DEF T

---------------------------------------------------------------------------
\* Document order

\* The first line is a number, the one after all lines included.
LEMMA FirstLineType ==
  ASSUME NEW c \in Found
  PROVE  FirstLine(c) \in Nat
<1> DEFINE lines == {r.line : r \in ToSet(c.refs)} \ {NoLine}
<1>1. lines \in SUBSET Nat
  <2>1. \A n \in DOMAIN c.refs : c.refs[n] \in FileRef
    BY DEF Found
  <2> QED BY <2>1 DEF ToSet, FileRef
<1>2. CASE lines = {}
  BY <1>2 DEF FirstLine, AfterAllLines
<1>3. CASE lines # {}
  <2>1. \E l \in lines : \A m \in lines : l <= m
    BY <1>1, <1>3, Least
  <2> DEFINE l == CHOOSE l \in lines : \A m \in lines : l <= m
  <2>2. l \in lines
    BY <2>1
  <2>3. FirstLine(c) = l
    BY <1>3 DEF FirstLine
  <2> QED BY <1>1, <2>2, <2>3
<1> QED BY <1>2, <1>3

\* Precedes is a strict order of the concepts, total where ids are unique.
LEMMA PrecedesOrders ==
  ASSUME NEW c \in Found, NEW d \in Found, NEW e \in Found
  PROVE  /\ ~Precedes(c, c)
         /\ Precedes(c, d) /\ Precedes(d, e) => Precedes(c, e)
         /\ c.id # d.id => Precedes(c, d) \/ Precedes(d, c)
<1> DEFINE x == FirstLine(c)
           y == FirstLine(d)
           z == FirstLine(e)
<1>1. x \in Nat /\ y \in Nat /\ z \in Nat
  BY FirstLineType
<1>2. c.id \in Nat /\ d.id \in Nat /\ e.id \in Nat
  BY IdsAreNumbers DEF Found
<1>3. /\ Precedes(c, c) <=> x < x \/ (x = x /\ c.id < c.id)
      /\ Precedes(c, d) <=> x < y \/ (x = y /\ c.id < d.id)
      /\ Precedes(d, c) <=> y < x \/ (y = x /\ d.id < c.id)
      /\ Precedes(d, e) <=> y < z \/ (y = z /\ d.id < e.id)
      /\ Precedes(c, e) <=> x < z \/ (x = z /\ c.id < e.id)
  BY DEF Precedes
<1> HIDE DEF x, y, z
<1> QED BY <1>1, <1>2, <1>3

\* Some set of concepts has a first one.
LEMMA FirstConcept ==
  ASSUME NEW T \in SUBSET Found, T # {}, UniqueIds(T)
  PROVE  \E c \in T : \A d \in T \ {c} : Precedes(c, d)
<1> DEFINE lines == {FirstLine(c) : c \in T}
<1>1. lines \in SUBSET Nat /\ lines # {}
  BY FirstLineType
<1>2. PICK l \in lines : \A m \in lines : l <= m
  BY <1>1, Least
<1> DEFINE ids == {c.id : c \in {d \in T : FirstLine(d) = l}}
<1>3. ids \in SUBSET Nat /\ ids # {}
  BY <1>2, IdsAreNumbers DEF Found
<1>4. PICK i \in ids : \A j \in ids : i <= j
  BY <1>3, Least
<1>5. PICK c \in T : FirstLine(c) = l /\ c.id = i
  BY <1>4
<1>6. ASSUME NEW d \in T \ {c} PROVE Precedes(c, d)
  <2>1. d.id # c.id /\ d.id \in Nat /\ c.id \in Nat
    BY <1>5, IdsAreNumbers DEF UniqueIds, Found
  <2>2. FirstLine(d) \in Nat /\ l \in Nat /\ l <= FirstLine(d)
    BY <1>1, <1>2, FirstLineType
  <2>3. FirstLine(d) = l => c.id <= d.id
    BY <1>4, <1>5
  <2>4. FirstLine(c) < FirstLine(d) \/ (FirstLine(c) = FirstLine(d) /\ c.id < d.id)
    <3> DEFINE y == FirstLine(d)
    <3> HIDE DEF y
    <3>1. l < y \/ (l = y /\ c.id < d.id)
      BY <2>1, <2>2, <2>3 DEF y
    <3> QED BY <3>1, <1>5 DEF y
  <2> QED BY <2>4 DEF Precedes
<1> QED BY <1>6

\* o lists T in document order.
Lists(o, T) ==
  o \in [1 .. Cardinality(T) -> T] /\ \A m, n \in DOMAIN o : m < n => Precedes(o[m], o[n])

\* Every finite set of concepts with unique ids has such a list.
LEMMA OrderExists ==
  ASSUME NEW T \in SUBSET Found, IsFiniteSet(T), UniqueIds(T)
  PROVE  \E o : Lists(o, T)
<1> DEFINE S == {n \in Nat : \A U \in SUBSET Found :
                   IsFiniteSet(U) /\ UniqueIds(U) /\ Cardinality(U) = n => \E o : Lists(o, U)}
<1>1. 0 \in S
  <2> SUFFICES ASSUME NEW U \in SUBSET Found, Cardinality(U) = 0 PROVE \E o : Lists(o, U)
    OBVIOUS
  <2>1. Lists([n \in 1 .. 0 |-> 0], U)
    BY DEF Lists
  <2> QED BY <2>1
<1>2. ASSUME NEW n \in Nat, n \in S PROVE n + 1 \in S
  <2> SUFFICES ASSUME NEW U \in SUBSET Found, IsFiniteSet(U), UniqueIds(U), Cardinality(U) = n + 1
               PROVE  \E o : Lists(o, U)
    OBVIOUS
  <2>1. U # {}
    BY FS_EmptySet
  <2>2. PICK c \in U : \A d \in U \ {c} : Precedes(c, d)
    BY <2>1, FirstConcept
  <2> DEFINE V == U \ {c}
  <2>3. IsFiniteSet(V) /\ Cardinality(V) = n
    <3>1. IsFiniteSet(V) /\ Cardinality(V) = Cardinality(U) - 1
      BY FS_RemoveElement
    <3> QED BY <3>1
  <2>4. V \in SUBSET Found /\ UniqueIds(V)
    BY DEF UniqueIds
  <2>5. PICK p : Lists(p, V)
    BY <2>3, <2>4, <1>2
  <2>6. p \in [1 .. n -> V] /\ \A k, m \in 1 .. n : k < m => Precedes(p[k], p[m])
    BY <2>3, <2>5 DEF Lists
  <2> HIDE DEF V
  <2> DEFINE o == [k \in 1 .. n + 1 |-> IF k = 1 THEN c ELSE p[k - 1]]
  <2>7. \A k \in 1 .. n + 1 : o[k] = IF k = 1 THEN c ELSE p[k - 1]
    OBVIOUS
  <2>8. \A k \in 1 .. n + 1 : k # 1 => k - 1 \in 1 .. n /\ p[k - 1] \in V
    BY <2>6
  <2>9. o \in [1 .. n + 1 -> U]
    BY <2>7, <2>8 DEF V
  <2> HIDE DEF o
  <2>10. ASSUME NEW k \in 1 .. n + 1, NEW m \in 1 .. n + 1, k < m PROVE Precedes(o[k], o[m])
    <3>1. m # 1 /\ m - 1 \in 1 .. n /\ o[m] = p[m - 1] /\ p[m - 1] \in V
      BY <2>7, <2>8, <2>10
    <3>2. CASE k = 1
      BY <3>1, <3>2, <2>2, <2>7 DEF V
    <3>3. CASE k # 1
      <4>1. k - 1 \in 1 .. n /\ o[k] = p[k - 1] /\ k - 1 < m - 1
        BY <3>3, <2>7, <2>8, <2>10
      <4> QED BY <3>1, <4>1, <2>6
    <3> QED BY <3>2, <3>3
  <2>11. Lists(o, U)
    BY <2>9, <2>10 DEF Lists
  <2> QED BY <2>11
<1> HIDE DEF S
<1>3. \A n \in Nat : n \in S
  BY <1>1, <1>2, NatInSteps
<1>4. Cardinality(T) \in S
  BY <1>3, FS_CardinalityType
<1> QED BY <1>4 DEF S

\* The items of a sequence are finitely many.
LEMMA ItemsFinite ==
  ASSUME NEW X, NEW s \in Seq(X)
  PROVE  IsFiniteSet(ToSet(s)) /\ ToSet(s) \in SUBSET X /\ (s # <<>> => ToSet(s) # {})
<1>1. s \in Surjection(1 .. Len(s), ToSet(s))
  BY DEF Surjection, ToSet
<1>2. IsFiniteSet(1 .. Len(s))
  BY FS_Interval
<1>3. IsFiniteSet(ToSet(s))
  BY <1>1, <1>2, FS_Surjection
<1>4. ToSet(s) \in SUBSET X
  BY DEF ToSet
<1>5. s # <<>> => ToSet(s) # {}
  <2> SUFFICES ASSUME s # <<>> PROVE s[1] \in ToSet(s)
    OBVIOUS
  <2>1. 1 \in DOMAIN s
    OBVIOUS
  <2> QED BY <2>1 DEF ToSet
<1> QED BY <1>3, <1>4, <1>5

\* The document order of concepts lists each of them once, the earlier first.
LEMMA DocumentOrder ==
  ASSUME NEW T \in SUBSET Found, IsFiniteSet(T), UniqueIds(T)
  PROVE  LET o == InDocumentOrder(T)
         IN  /\ o \in Seq(T) /\ Len(o) = Cardinality(T) /\ Cardinality(T) \in Nat
             /\ \A m, n \in 1 .. Len(o) : m < n => Precedes(o[m], o[n])
             /\ \A c \in T : \E n \in 1 .. Len(o) : o[n] = c
<1> DEFINE N == Cardinality(T)
           Sorted(o) == \A m, n \in DOMAIN o : m < n => Precedes(o[m], o[n])
           o == InDocumentOrder(T)
<1>1. N \in Nat
  BY FS_CardinalityType
<1>2. \E p \in [1 .. N -> T] : Sorted(p)
  BY OrderExists DEF Lists
<1>3. o = CHOOSE p \in [1 .. N -> T] : Sorted(p)
  BY DEF InDocumentOrder
<1> HIDE DEF Sorted, o
<1>4. o \in [1 .. N -> T] /\ Sorted(o)
  BY <1>2, <1>3
<1>5. \A m, n \in 1 .. N : m < n => Precedes(o[m], o[n])
  BY <1>4 DEF Sorted
<1>6. \A m, n \in 1 .. N : o[m] = o[n] => m = n
  <2> SUFFICES ASSUME NEW m \in 1 .. N, NEW n \in 1 .. N, o[m] = o[n], m < n PROVE FALSE
    BY <1>1
  <2>1. Precedes(o[m], o[n]) /\ o[m] \in Found
    BY <1>4, <1>5
  <2> QED BY <2>1, PrecedesOrders
<1>7. o \in Injection(1 .. N, T)
  BY <1>4, <1>6 DEF Injection, IsInjective
<1>8. o \in Surjection(1 .. N, T)
  <2>1. Cardinality(1 .. N) = N
    BY <1>1, FS_Interval
  <2> QED BY <2>1, <1>7, FS_Injection
<1>9. o \in Seq(T) /\ Len(o) = N
  BY <1>1, <1>4
<1> QED BY <1>1, <1>5, <1>8, <1>9 DEF o, Surjection

---------------------------------------------------------------------------
\* Spine and InferEdges

\* An edge as the passes make it.
MadeEdge == [src : ConceptIds, type : EdgeTypes, dst : ConceptIds,
             provenance : {"spine", "inferred"}, cite : Files \cup {NoFile}]

\* The fields of a spine edge: it cites what its source cites first.
LEMMA SpineEdgeType ==
  ASSUME NEW c \in Found, NEW d \in Found
  PROVE  /\ FirstFile(c.refs) \in Files \cup {NoFile}
         /\ c.refs # <<>> => FirstFile(c.refs) \in Files
         /\ SpineEdge(c, d) \in MadeEdge
         /\ SpineEdge(c, d).src = c.id /\ SpineEdge(c, d).dst = d.id
         /\ SpineEdge(c, d).type = "prerequisite" /\ SpineEdge(c, d).provenance = "spine"
         /\ SpineEdge(c, d).cite = FirstFile(c.refs)
<1> DEFINE file == FirstFile(c.refs)
<1>1. c.refs # <<>> => file \in Files
  <2> SUFFICES ASSUME c.refs # <<>> PROVE file \in Files
    OBVIOUS
  <2>1. c.refs \in Seq(FileRef)
    BY DEF Found
  <2>2. c.refs[1] \in FileRef
    BY <2>1
  <2> QED BY <2>2 DEF FirstFile, FileRef
<1>2. c.refs = <<>> => file = NoFile
  BY DEF FirstFile
<1>3. SpineEdge(c, d) = [src |-> c.id, type |-> "prerequisite", dst |-> d.id, provenance |-> "spine", cite |-> file]
  BY DEF SpineEdge
<1> HIDE DEF file
<1>4. c.id \in ConceptIds /\ d.id \in ConceptIds
  BY DEF Found
<1>5. file \in Files \cup {NoFile}
  BY <1>1, <1>2
<1> QED BY <1>1, <1>3, <1>4, <1>5 DEF MadeEdge, EdgeTypes, file

\* The spine of a source chains its concepts in document order.
LEMMA SpineType ==
  ASSUME NEW concepts \in Seq(Found), concepts # <<>>, UniqueIds(ToSet(concepts))
  PROVE  LET o == InDocumentOrder(ToSet(concepts))
         IN  /\ Spine(concepts) \in Seq(MadeEdge)
             /\ \A e \in ToSet(Spine(concepts)) :
                   \E n \in 1 .. Len(o) - 1 : e = SpineEdge(o[n], o[n + 1])
             /\ \A n \in 1 .. Len(o) - 1 : SpineEdge(o[n], o[n + 1]) \in ToSet(Spine(concepts))
<1> DEFINE T == ToSet(concepts)
           o == InDocumentOrder(T)
           N == Len(o) - 1
           s == Spine(concepts)
<1>1. T \in SUBSET Found /\ IsFiniteSet(T) /\ T # {}
  BY ItemsFinite
<1>2. /\ o \in Seq(T) /\ Len(o) = Cardinality(T) /\ Cardinality(T) \in Nat
      /\ Cardinality(T) # 0
  BY <1>1, DocumentOrder, FS_EmptySet
<1>3. N \in Nat /\ \A n \in 1 .. N : n \in DOMAIN o /\ n + 1 \in DOMAIN o
  BY <1>2
<1>4. s = [n \in 1 .. N |-> SpineEdge(o[n], o[n + 1])]
  BY DEF Spine
<1>5. \A n \in DOMAIN o : o[n] \in Found
  BY <1>1, <1>2
<1> HIDE DEF o, N, s
<1>6. \A n \in 1 .. N : SpineEdge(o[n], o[n + 1]) \in MadeEdge
  BY <1>3, <1>5, SpineEdgeType
<1>7. s \in [1 .. N -> MadeEdge]
  BY <1>4, <1>6
<1>8. s \in Seq(MadeEdge)
  BY <1>3, <1>7
<1>9. ToSet(s) = {SpineEdge(o[n], o[n + 1]) : n \in 1 .. N}
  BY <1>4 DEF ToSet
<1> QED BY <1>8, <1>9 DEF o, N, s

\* A guess is well-formed, and never a prerequisite that the spine has.
LEMMA InferEdgesType ==
  ASSUME NEW spine, NEW proposals \in Seq(Proposal)
  PROVE  /\ InferEdges(spine, proposals) \in Seq(MadeEdge)
         /\ \A e \in ToSet(InferEdges(spine, proposals)) :
              /\ e.provenance = "inferred"
              /\ e.type = "prerequisite" =>
                   \A f \in ToSet(spine) : ~(f.src = e.src /\ f.dst = e.dst)
<1> DEFINE keys == {<<e.src, e.dst>> : e \in ToSet(spine)}
           heads == {k[1] : k \in keys} \ {k[2] : k \in keys}
           Shadows(p) == p.type = "prerequisite" /\ (<<p.src, p.dst>> \in keys \/ p.dst \in heads)
           P == {n \in DOMAIN proposals : WellFormed(proposals[n]) /\ ~Shadows(proposals[n])}
           Y == {p \in Proposal : WellFormed(p) /\ ~Shadows(p)}
           usable == Pick(proposals, P)
           s == InferEdges(spine, proposals)
<1>1. usable \in Seq(Y)
  <2>1. \A n \in DOMAIN proposals : n \in P <=> proposals[n] \in Y
    OBVIOUS
  <2> HIDE DEF P
  <2>2. Y \in SUBSET Proposal
    OBVIOUS
  <2> HIDE DEF Y
  <2> QED BY <2>1, <2>2, PickThose
<1>2. s = [n \in DOMAIN usable |-> Inferred(usable[n])]
  BY DEF InferEdges
<1> DEFINE Z == {e \in MadeEdge : e.provenance = "inferred"
                   /\ (e.type = "prerequisite" => \A f \in ToSet(spine) : ~(f.src = e.src /\ f.dst = e.dst))}
<1>3. \A p \in Y : Inferred(p) \in Z
  <2> TAKE p \in Y
  <2>1. p.src \in ConceptIds /\ p.dst \in ConceptIds /\ p.type \in EdgeTypes /\ p.cite \in Files \cup {NoFile}
    BY DEF Proposal, WellFormed
  <2>2. Inferred(p) \in MadeEdge /\ Inferred(p).provenance = "inferred" /\ Inferred(p).type = p.type
        /\ Inferred(p).src = p.src /\ Inferred(p).dst = p.dst
    BY <2>1 DEF Inferred, MadeEdge
  <2>3. p.type = "prerequisite" => <<p.src, p.dst>> \notin keys
    OBVIOUS
  <2>4. p.type = "prerequisite" => \A f \in ToSet(spine) : ~(f.src = p.src /\ f.dst = p.dst)
    BY <2>3
  <2> QED BY <2>2, <2>4
<1> HIDE DEF Y, Z, usable, s
<1>4. s \in Seq(Z)
  <2> DEFINE N == Len(usable)
  <2>1. N \in Nat /\ DOMAIN usable = 1 .. N /\ \A n \in 1 .. N : usable[n] \in Y
    BY <1>1
  <2> HIDE DEF N
  <2>2. s \in [1 .. N -> Z]
    BY <2>1, <1>2, <1>3
  <2> QED BY <2>1, <2>2
<1>5. ToSet(s) \in SUBSET Z /\ Z \subseteq MadeEdge
  BY <1>4, ItemsFinite DEF Z
<1>6. s \in Seq(MadeEdge)
  BY <1>4, <1>5, SeqOfItems
<1> QED BY <1>5, <1>6 DEF s, Z

---------------------------------------------------------------------------
\* Verify, and the passes together

\* The ids of a set of concepts.
Ids(concepts) == {c.id : c \in concepts}

\* What the gate leaves of concepts and edges.
LEMMA VerifyType ==
  ASSUME NEW concepts \in Seq(Found), NEW links \in Seq(MadeEdge), NEW files
  PROVE  LET set == Verify(concepts, links, files)
         IN  /\ set.concepts \in Seq(Found)
             /\ ToSet(set.concepts) = {c \in ToSet(concepts) : Grounded(c.refs, files)}
             /\ set.edges \in Seq(MadeEdge)
             /\ ToSet(set.edges) = {e \in ToSet(links) : e.cite \in files /\ {e.src, e.dst} \subseteq Ids(ToSet(set.concepts))}
<1> DEFINE P == {n \in DOMAIN concepts : Grounded(concepts[n].refs, files)}
           Y == {c \in Found : Grounded(c.refs, files)}
           kept == Pick(concepts, P)
           ids == {c.id : c \in ToSet(kept)}
           Q == {n \in DOMAIN links : {links[n].src, links[n].dst} \subseteq ids /\ links[n].cite \in files}
           Z == {e \in MadeEdge : {e.src, e.dst} \subseteq ids /\ e.cite \in files}
           good == Pick(links, Q)
<1>1. kept \in Seq(Y) /\ ToSet(kept) = ToSet(concepts) \cap Y
  <2>1. \A n \in DOMAIN concepts : n \in P <=> concepts[n] \in Y
    OBVIOUS
  <2>2. Y \in SUBSET Found
    OBVIOUS
  <2> HIDE DEF P, Y
  <2> QED BY <2>1, <2>2, PickThose
<1>2. good \in Seq(Z) /\ ToSet(good) = ToSet(links) \cap Z
  <2> HIDE DEF ids
  <2>1. \A n \in DOMAIN links : n \in Q <=> links[n] \in Z
    OBVIOUS
  <2>2. Z \in SUBSET MadeEdge
    OBVIOUS
  <2> HIDE DEF Q, Z
  <2> QED BY <2>1, <2>2, PickThose
<1>3. Verify(concepts, links, files) = [concepts |-> kept, edges |-> good]
  BY DEF Verify
<1> HIDE DEF kept, good
<1>4. kept \in Seq(Found) /\ ToSet(kept) = {c \in ToSet(concepts) : Grounded(c.refs, files)}
  <2>1. ToSet(kept) \in SUBSET Found /\ ToSet(concepts) \in SUBSET Found
    BY <1>1, ItemsFinite
  <2> QED BY <2>1, <1>1, SeqOfItems
<1>5. good \in Seq(MadeEdge) /\ ToSet(good) = {e \in ToSet(links) : e.cite \in files /\ {e.src, e.dst} \subseteq ids}
  <2>1. ToSet(good) \in SUBSET MadeEdge /\ ToSet(links) \in SUBSET MadeEdge
    BY <1>2, ItemsFinite
  <2> QED BY <2>1, <1>2, SeqOfItems
<1>6. /\ Verify(concepts, links, files).concepts = kept
      /\ Verify(concepts, links, files).edges = good
  BY <1>3
<1>7. ids = Ids(ToSet(kept))
  BY DEF Ids
<1> HIDE DEF ids
<1> QED BY <1>4, <1>5, <1>6, <1>7

EdgeKeyOf(e) == <<e.src, e.type, e.dst>>

\* What a source yields: grounded concepts, one per id, and grounded edges
\* between them. A trusted edge runs with the document, a guess never has the
\* key of a trusted edge, and the trusted edges chain the concepts but for
\* a first citation of another file and for the gaps.
Yields(set, file, spine, gaps) ==
  LET concepts == ToSet(set.concepts)
      links == ToSet(set.edges)
      ordered == InDocumentOrder(concepts)
  IN  /\ set.concepts \in Seq(Found) /\ set.edges \in Seq(MadeEdge) /\ gaps \subseteq ConceptIds
      /\ UniqueIds(concepts) /\ \A c \in concepts : Grounded(c.refs, {file})
      /\ \A e \in links : e.cite = file /\ {e.src, e.dst} \subseteq Ids(concepts)
      /\ \A e \in links : e.provenance = "spine" =>
           spine /\ e.type = "prerequisite" /\
           \E c, d \in concepts : e.src = c.id /\ e.dst = d.id /\ Precedes(c, d)
      /\ \A e, f \in links : e.provenance = "spine" /\ f.provenance = "inferred" => EdgeKeyOf(e) # EdgeKeyOf(f)
      /\ spine => \A n \in 1 .. Len(ordered) - 1 :
           \/ FirstFile(ordered[n].refs) # file
           \/ ordered[n].id \in gaps
           \/ SpineEdge(ordered[n], ordered[n + 1]) \in links

\* Survivors have an id each.
LEMMA UniqueIdsOf ==
  ASSUME NEW found \in Seq(Found), NEW t \in Survivors(found)
  PROVE  t \in Seq(Found) /\ UniqueIds(ToSet(t))
BY DEF Survivors, UniqueIds, ToSet

\* Two neighbours in the order of what is left were neighbours before, unless
\* what came between was taken out.
LEMMA NeighboursStay ==
  ASSUME NEW T \in SUBSET Found, IsFiniteSet(T), UniqueIds(T), NEW U \in SUBSET T,
         NEW n \in 1 .. Len(InDocumentOrder(U)) - 1
  PROVE  LET o == InDocumentOrder(T)
             q == InDocumentOrder(U)
         IN  \E m \in 1 .. Len(o) - 1 : o[m] = q[n] /\ (o[m + 1] \in U => o[m + 1] = q[n + 1])
<1> DEFINE o == InDocumentOrder(T)
           q == InDocumentOrder(U)
           N == Len(o)
           K == Len(q)
<1>1. /\ o \in Seq(T) /\ N \in Nat
      /\ \A k, m \in 1 .. N : k < m => Precedes(o[k], o[m])
      /\ \A c \in T : \E m \in 1 .. N : o[m] = c
  BY DocumentOrder
<1>2. U \in SUBSET Found /\ IsFiniteSet(U) /\ UniqueIds(U)
  BY FS_Subset DEF UniqueIds
<1>3. /\ q \in Seq(U) /\ K \in Nat
      /\ \A k, m \in 1 .. K : k < m => Precedes(q[k], q[m])
      /\ \A c \in U : \E m \in 1 .. K : q[m] = c
  BY <1>2, DocumentOrder
<1>4. n \in 1 .. K - 1
  OBVIOUS
<1>5. \A m \in 1 .. N : o[m] \in T
  BY <1>1
<1>6. \A m \in 1 .. K : q[m] \in U
  BY <1>3
<1> HIDE DEF o, q, N, K
<1>7. n \in 1 .. K /\ n + 1 \in 1 .. K /\ n < n + 1 /\ n \in Nat
  BY <1>3, <1>4
<1> DEFINE c == q[n]
           d == q[n + 1]
<1>8. c \in U /\ d \in U /\ Precedes(c, d)
  BY <1>3, <1>6, <1>7
<1>9. \A x \in U : ~(Precedes(c, x) /\ Precedes(x, d))
  <2> SUFFICES ASSUME NEW x \in U, Precedes(c, x), Precedes(x, d) PROVE FALSE
    OBVIOUS
  <2>1. PICK k \in 1 .. K : q[k] = x
    BY <1>3
  <2>2. k \in Nat
    BY <1>3
  <2>3. ~(k < n) /\ k # n
    BY <2>1, <1>2, <1>3, <1>7, <1>8, PrecedesOrders
  <2>4. ~(n + 1 < k) /\ k # n + 1
    BY <2>1, <1>2, <1>3, <1>7, <1>8, PrecedesOrders
  <2> QED BY <2>2, <2>3, <2>4, <1>7
<1> HIDE DEF c, d
<1>10. PICK m \in 1 .. N : o[m] = c
  BY <1>1, <1>8
<1>11. PICK k \in 1 .. N : o[k] = d
  BY <1>1, <1>8
<1>12. m < k
  <2>1. m \in Nat /\ k \in Nat
    BY <1>1
  <2>2. m # k /\ ~(k < m)
    BY <1>1, <1>2, <1>8, <1>10, <1>11, PrecedesOrders
  <2> QED BY <2>1, <2>2
<1>13. m \in 1 .. N - 1 /\ m + 1 \in 1 .. N /\ m < m + 1 /\ (m + 1 = k \/ m + 1 < k)
  BY <1>1, <1>12
<1>14. ASSUME o[m + 1] \in U PROVE o[m + 1] = d
  <2>1. Precedes(c, o[m + 1])
    BY <1>1, <1>10, <1>13
  <2>2. ~(m + 1 < k)
    BY <2>1, <1>1, <1>9, <1>11, <1>13, <1>14
  <2> QED BY <2>2, <1>11, <1>13
<1> QED BY <1>10, <1>13, <1>14 DEF o, q, N, c, d

\* What the passes make of any answer about a source.
LEMMA RunPassesYields ==
  ASSUME NEW items \in Seq(Item), NEW proposals \in Seq(Proposal), NEW file \in Files, NEW isSpine \in BOOLEAN
  PROVE  Yields(RunPasses(items, proposals, file, isSpine), file, isSpine, Gaps(items, file))
<1> DEFINE concepts == Dedupe(Extract(items))
           T == ToSet(concepts)
           spine == IF isSpine /\ concepts # <<>> THEN Spine(concepts) ELSE <<>>
           inferred == IF concepts = <<>> THEN <<>> ELSE InferEdges(spine, proposals)
           all == spine \o inferred
           set == RunPasses(items, proposals, file, isSpine)
           U == ToSet(set.concepts)
           o == InDocumentOrder(T)
           q == InDocumentOrder(U)
           gaps == Gaps(items, file)
<1>1. concepts \in Seq(Found) /\ UniqueIds(T)
  BY ExtractType, DedupeType, UniqueIdsOf
<1>2. T \in SUBSET Found /\ IsFiniteSet(T) /\ (concepts # <<>> => T # {}) /\ (T = {} => concepts = <<>>)
  BY <1>1, ItemsFinite
<1>3. set = Verify(concepts, all, {file})
  BY DEF RunPasses
<1>4. gaps = {o[n].id : n \in {m \in 1 .. Len(o) - 1 : ~Grounded(o[m + 1].refs, {file})}}
  BY DEF Gaps
<1> HIDE DEF concepts, o, set, gaps
<1>5. /\ o \in Seq(T) /\ Len(o) = Cardinality(T) /\ Len(o) \in Nat
      /\ \A m, n \in 1 .. Len(o) : m < n => Precedes(o[m], o[n])
  BY <1>1, <1>2, DocumentOrder DEF o
<1>6. /\ spine \in Seq(MadeEdge)
      /\ \A e \in ToSet(spine) : isSpine /\ \E n \in 1 .. Len(o) - 1 : e = SpineEdge(o[n], o[n + 1])
      /\ isSpine /\ concepts # <<>> => \A n \in 1 .. Len(o) - 1 : SpineEdge(o[n], o[n + 1]) \in ToSet(spine)
  <2>1. CASE isSpine /\ concepts # <<>>
    BY <2>1, <1>1, SpineType DEF o
  <2>2. CASE ~(isSpine /\ concepts # <<>>)
    BY <2>2 DEF ToSet
  <2> QED BY <2>1, <2>2
<1> HIDE DEF spine
<1>7. /\ inferred \in Seq(MadeEdge)
      /\ \A e \in ToSet(inferred) : e.provenance = "inferred" /\
           (e.type = "prerequisite" => \A f \in ToSet(spine) : ~(f.src = e.src /\ f.dst = e.dst))
  <2>1. CASE concepts = <<>>
    BY <2>1 DEF ToSet
  <2>2. CASE concepts # <<>>
    BY <2>2, InferEdgesType
  <2> QED BY <2>1, <2>2
<1> HIDE DEF inferred
<1>8. all \in Seq(MadeEdge) /\ ToSet(all) = ToSet(spine) \cup ToSet(inferred)
  <2>1. all \in Seq(MadeEdge)
    BY <1>6, <1>7
  <2>2. ToSet(all) = ToSet(spine) \cup ToSet(inferred)
    BY <1>6, <1>7, ConcatToSet
  <2> QED BY <2>1, <2>2
<1> HIDE DEF all
<1>9. /\ set.concepts \in Seq(Found)
      /\ U = {c \in T : Grounded(c.refs, {file})}
      /\ set.edges \in Seq(MadeEdge)
      /\ ToSet(set.edges) = {e \in ToSet(all) : e.cite \in {file} /\ {e.src, e.dst} \subseteq Ids(U)}
  <2> DEFINE files == {file}
  <2>1. set = Verify(concepts, all, files)
    BY <1>3
  <2> HIDE DEF files
  <2>2. /\ set.concepts \in Seq(Found)
        /\ U = {c \in T : Grounded(c.refs, files)}
        /\ set.edges \in Seq(MadeEdge)
        /\ ToSet(set.edges) = {e \in ToSet(all) : e.cite \in files /\ {e.src, e.dst} \subseteq Ids(U)}
    BY <1>1, <1>8, <2>1, VerifyType
  <2> QED BY <2>2 DEF files
<1> HIDE DEF U, T
<1>10. \A n \in 1 .. Len(o) - 1 : n \in 1 .. Len(o) /\ n + 1 \in 1 .. Len(o) /\ n < n + 1
  BY <1>5
<1>11. \A n \in 1 .. Len(o) : o[n] \in T /\ o[n] \in Found
  BY <1>2, <1>5
<1>12. UniqueIds(U) /\ \A c \in U : Grounded(c.refs, {file})
  BY <1>1, <1>9 DEF UniqueIds
<1>13. ASSUME NEW e \in ToSet(set.edges), e.provenance = "spine"
       PROVE  isSpine /\ e.type = "prerequisite" /\
              \E c, d \in U : e.src = c.id /\ e.dst = d.id /\ Precedes(c, d)
  <2>1. e \in ToSet(spine) /\ {e.src, e.dst} \subseteq Ids(U)
    BY <1>7, <1>8, <1>9, <1>13
  <2>2. PICK n \in 1 .. Len(o) - 1 : e = SpineEdge(o[n], o[n + 1])
    BY <2>1, <1>6
  <2>3. o[n] \in T /\ o[n] \in Found /\ o[n + 1] \in T /\ o[n + 1] \in Found /\ Precedes(o[n], o[n + 1])
    BY <1>5, <1>10, <1>11
  <2>4. e.src = o[n].id /\ e.dst = o[n + 1].id /\ e.type = "prerequisite"
    BY <2>2, <2>3, SpineEdgeType
  <2>5. \A c \in T : c.id \in Ids(U) => c \in U
    BY <1>1, <1>9 DEF UniqueIds, Ids
  <2>6. o[n] \in U /\ o[n + 1] \in U
    BY <2>1, <2>3, <2>4, <2>5
  <2> QED BY <2>1, <2>3, <2>4, <2>6, <1>6
<1>14. ASSUME NEW e \in ToSet(set.edges), NEW f \in ToSet(set.edges),
              e.provenance = "spine", f.provenance = "inferred"
       PROVE  EdgeKeyOf(e) # EdgeKeyOf(f)
  <2>1. \A g \in ToSet(spine) : g.provenance = "spine"
    BY <1>6, <1>10, <1>11, SpineEdgeType
  <2>2. e \in ToSet(spine) /\ f \in ToSet(inferred)
    BY <2>1, <1>7, <1>8, <1>9, <1>14
  <2>3. e.type = "prerequisite"
    BY <1>13, <1>14
  <2>4. f.type = "prerequisite" => ~(e.src = f.src /\ e.dst = f.dst)
    BY <2>2, <1>7
  <2> QED BY <2>3, <2>4 DEF EdgeKeyOf
<1>15. ASSUME isSpine, NEW n \in 1 .. Len(q) - 1
       PROVE  \/ FirstFile(q[n].refs) # file
              \/ q[n].id \in gaps
              \/ SpineEdge(q[n], q[n + 1]) \in ToSet(set.edges)
  <2>1. U \in SUBSET T
    BY <1>9
  <2>2. PICK m \in 1 .. Len(o) - 1 : o[m] = q[n] /\ (o[m + 1] \in U => o[m + 1] = q[n + 1])
    BY <2>1, <1>1, <1>2, NeighboursStay DEF o
  <2> SUFFICES ASSUME FirstFile(q[n].refs) = file, q[n].id \notin gaps
               PROVE  SpineEdge(q[n], q[n + 1]) \in ToSet(set.edges)
    OBVIOUS
  <2>3. q[n].id = o[m].id
    BY <2>2
  <2>4. Grounded(o[m + 1].refs, {file})
    BY <2>3, <1>4
  <2>5. o[m + 1] \in U /\ o[m + 1] = q[n + 1]
    BY <2>2, <2>4, <1>9, <1>10, <1>11
  <2>6. o[m] \in U
    <3>1. UniqueIds(U) /\ IsFiniteSet(U) /\ U \in SUBSET Found
      BY <2>1, <1>2, <1>12, FS_Subset
    <3>2. q \in Seq(U) /\ Len(q) \in Nat
      BY <3>1, DocumentOrder
    <3> HIDE DEF q
    <3>3. q[n] \in U
      BY <3>2
    <3> QED BY <3>3, <2>2
  <2>7. concepts # <<>>
    <3>1. o[m] \in T
      BY <1>10, <1>11
    <3>2. concepts = <<>> => T = {}
      BY DEF T, ToSet
    <3> QED BY <3>1, <3>2
  <2> DEFINE e == SpineEdge(o[m], o[m + 1])
  <2>8. e \in ToSet(spine)
    BY <2>7, <1>6, <1>15
  <2>9. e.src = o[m].id /\ e.dst = o[m + 1].id /\ e.cite = FirstFile(o[m].refs)
    BY <1>10, <1>11, SpineEdgeType
  <2>10. FirstFile(o[m].refs) = file
    BY <2>2
  <2> HIDE DEF e
  <2>11. e \in ToSet(set.edges)
    BY <2>5, <2>6, <2>8, <2>9, <2>10, <1>8, <1>9 DEF Ids
  <2> QED BY <2>2, <2>5, <2>11 DEF e
<1>16. gaps \subseteq ConceptIds
  BY <1>4, <1>10, <1>11 DEF Found
<1>17. \A e \in ToSet(set.edges) : e.cite = file /\ {e.src, e.dst} \subseteq Ids(U)
  BY <1>9
<1> QED
  BY <1>9, <1>12, <1>13, <1>14, <1>15, <1>16, <1>17 DEF Yields, U, gaps, set

---------------------------------------------------------------------------
\* Statements

Statement == [op : {"prose", "row", "vector"}, arg : Found] \cup [op : {"edge"}, arg : MadeEdge]

\* Prose, row and vector of a concept are written one after the other, and the
\* edges last.
Script(todo) ==
  /\ todo \in Seq(Statement)
  /\ \A m \in 1 .. Len(todo) :
       /\ todo[m].op = "prose" => m + 1 \in 1 .. Len(todo) /\ todo[m + 1] = [op |-> "row", arg |-> todo[m].arg]
       /\ todo[m].op = "row" => m + 1 \in 1 .. Len(todo) /\ todo[m + 1] = [op |-> "vector", arg |-> todo[m].arg]
       /\ todo[m].op = "vector" => (m + 1 \in 1 .. Len(todo) => todo[m + 1].op \in {"prose", "edge"})
       /\ todo[m].op = "edge" => \A n \in m + 1 .. Len(todo) : todo[n].op = "edge"

\* A script from its second statement on is one.
LEMMA ScriptTail ==
  ASSUME NEW todo, Script(todo), todo # <<>>
  PROVE  /\ Script(Tail(todo))
         /\ Head(todo) \in Statement /\ Head(todo) \in ToSet(todo)
         /\ ToSet(todo) = ToSet(Tail(todo)) \cup {Head(todo)}
         /\ Head(todo).op = "prose" => Tail(todo) # <<>> /\ Head(Tail(todo)) = [op |-> "row", arg |-> Head(todo).arg]
         /\ Head(todo).op = "row" => Tail(todo) # <<>> /\ Head(Tail(todo)) = [op |-> "vector", arg |-> Head(todo).arg]
         /\ Head(todo).op = "vector" => (Tail(todo) # <<>> => Head(Tail(todo)).op \in {"prose", "edge"})
         /\ Head(todo).op = "edge" => \A s \in ToSet(todo) : s.op = "edge"
<1> DEFINE t == Tail(todo)
           N == Len(todo)
           h == Head(todo)
<1>1. /\ todo \in Seq(Statement) /\ N \in Nat /\ N >= 1 /\ DOMAIN todo = 1 .. N
      /\ t \in Seq(Statement) /\ DOMAIN t = 1 .. N - 1 /\ Len(t) = N - 1
      /\ \A m \in 1 .. N - 1 : t[m] = todo[m + 1]
      /\ h = todo[1] /\ (t # <<>> => N - 1 >= 1 /\ Head(t) = todo[2])
      /\ (N - 1 >= 1 => t # <<>>)
  <2>1. todo \in Seq(Statement)
    BY DEF Script
  <2>2. N \in Nat /\ N >= 1 /\ DOMAIN todo = 1 .. N /\ h = todo[1]
    BY <2>1
  <2>3. t \in Seq(Statement) /\ Len(t) = N - 1
    BY <2>1
  <2>4. DOMAIN t = 1 .. N - 1
    BY <2>3
  <2>5. \A m \in 1 .. N - 1 : t[m] = todo[m + 1]
    BY <2>1
  <2>6. t # <<>> => N - 1 >= 1 /\ Head(t) = t[1]
    BY <2>2, <2>3
  <2>7. N - 1 >= 1 => t # <<>>
    <3> HIDE DEF t, N
    <3>1. t = <<>> => Len(t) = 0
      OBVIOUS
    <3> QED BY <3>1, <2>2, <2>3
  <2>8. N - 1 >= 1 => 1 \in 1 .. N - 1 /\ 1 + 1 = 2
    BY <2>2
  <2> QED BY <2>1, <2>2, <2>3, <2>4, <2>5, <2>6, <2>7, <2>8
<1>2. /\ \A m \in 1 .. N :
       /\ todo[m].op = "prose" => m + 1 \in 1 .. N /\ todo[m + 1] = [op |-> "row", arg |-> todo[m].arg]
       /\ todo[m].op = "row" => m + 1 \in 1 .. N /\ todo[m + 1] = [op |-> "vector", arg |-> todo[m].arg]
       /\ todo[m].op = "vector" => (m + 1 \in 1 .. N => todo[m + 1].op \in {"prose", "edge"})
       /\ todo[m].op = "edge" => \A n \in m + 1 .. N : todo[n].op = "edge"
  BY DEF Script
<1> HIDE DEF t, N, h
<1>3. \A m \in 1 .. N - 1 : m \in 1 .. N /\ m + 1 \in 1 .. N /\ (m + 1) + 1 = (m + 2) /\ m \in Nat
  BY <1>1
<1>4. ASSUME NEW m \in 1 .. N - 1
      PROVE  /\ t[m].op = "prose" => m + 1 \in 1 .. N - 1 /\ t[m + 1] = [op |-> "row", arg |-> t[m].arg]
             /\ t[m].op = "row" => m + 1 \in 1 .. N - 1 /\ t[m + 1] = [op |-> "vector", arg |-> t[m].arg]
             /\ t[m].op = "vector" => (m + 1 \in 1 .. N - 1 => t[m + 1].op \in {"prose", "edge"})
             /\ t[m].op = "edge" => \A n \in m + 1 .. N - 1 : t[n].op = "edge"
  <2>1. t[m] = todo[m + 1]
    BY <1>1
  <2>2. m + 2 \in 1 .. N => m + 1 \in 1 .. N - 1 /\ t[m + 1] = todo[m + 2]
    BY <1>1, <1>3
  <2>3. m + 1 \in 1 .. N - 1 => m + 2 \in 1 .. N
    BY <1>1, <1>3
  <2>4. t[m].op = "prose" => m + 1 \in 1 .. N - 1 /\ t[m + 1] = [op |-> "row", arg |-> t[m].arg]
    BY <1>2, <1>3, <2>1, <2>2
  <2>5. t[m].op = "row" => m + 1 \in 1 .. N - 1 /\ t[m + 1] = [op |-> "vector", arg |-> t[m].arg]
    BY <1>2, <1>3, <2>1, <2>2
  <2>6. t[m].op = "vector" => (m + 1 \in 1 .. N - 1 => t[m + 1].op \in {"prose", "edge"})
    BY <1>2, <1>3, <2>1, <2>2, <2>3
  <2>7. ASSUME t[m].op = "edge", NEW n \in m + 1 .. N - 1 PROVE t[n].op = "edge"
    <3>1. n \in 1 .. N - 1 /\ n + 1 \in (m + 1) + 1 .. N
      BY <1>1, <1>3
    <3>2. t[n] = todo[n + 1] /\ m + 1 \in 1 .. N /\ todo[m + 1].op = "edge"
      BY <3>1, <1>1, <1>3, <2>1, <2>7
    <3> QED BY <3>1, <3>2, <1>2
  <2> QED BY <2>4, <2>5, <2>6, <2>7
<1>5. Script(t)
  <2> DEFINE K == N - 1
  <2>1. t \in Seq(Statement) /\ Len(t) = K
    BY <1>1
  <2>2. \A m \in 1 .. K :
       /\ t[m].op = "prose" => m + 1 \in 1 .. K /\ t[m + 1] = [op |-> "row", arg |-> t[m].arg]
       /\ t[m].op = "row" => m + 1 \in 1 .. K /\ t[m + 1] = [op |-> "vector", arg |-> t[m].arg]
       /\ t[m].op = "vector" => (m + 1 \in 1 .. K => t[m + 1].op \in {"prose", "edge"})
       /\ t[m].op = "edge" => \A n \in m + 1 .. K : t[n].op = "edge"
    BY <1>4
  <2> HIDE DEF K
  <2> QED BY <2>1, <2>2 DEF Script
<1>6. h \in Statement /\ h \in ToSet(todo) /\ 1 \in 1 .. N
  BY <1>1 DEF ToSet
<1>7. ToSet(todo) = ToSet(t) \cup {h}
  <2>1. \A m \in 1 .. N : m = 1 \/ (m - 1 \in 1 .. N - 1 /\ (m - 1) + 1 = m)
    BY <1>1
  <2>2. \A m \in 1 .. N : todo[m] \in ToSet(t) \cup {h}
    <3> TAKE m \in 1 .. N
    <3>1. CASE m = 1
      BY <3>1, <1>1
    <3>2. CASE m # 1
      <4>1. m - 1 \in 1 .. N - 1 /\ t[m - 1] = todo[m]
        BY <3>2, <2>1, <1>1
      <4> QED BY <4>1, <1>1 DEF ToSet
    <3> QED BY <3>1, <3>2
  <2>3. \A m \in 1 .. N - 1 : t[m] \in ToSet(todo)
    BY <1>1, <1>3 DEF ToSet
  <2> QED BY <2>2, <2>3, <1>1, <1>6 DEF ToSet
<1>8. 1 + 1 = 2 /\ (2 \in 1 .. N <=> N - 1 >= 1)
  BY <1>1
<1>9. /\ h.op = "prose" => t # <<>> /\ Head(t) = [op |-> "row", arg |-> h.arg]
      /\ h.op = "row" => t # <<>> /\ Head(t) = [op |-> "vector", arg |-> h.arg]
  BY <1>1, <1>2, <1>6, <1>8
<1>10. h.op = "vector" => (t # <<>> => Head(t).op \in {"prose", "edge"})
  BY <1>1, <1>2, <1>6, <1>8
<1>11. h.op = "edge" => \A s \in ToSet(todo) : s.op = "edge"
  <2> SUFFICES ASSUME h.op = "edge", NEW m \in 1 .. N PROVE todo[m].op = "edge"
    BY <1>1 DEF ToSet
  <2>1. m = 1 \/ m \in 1 + 1 .. N
    BY <1>1
  <2> QED BY <2>1, <1>1, <1>2, <1>6
<1> QED BY <1>5, <1>6, <1>7, <1>9, <1>10, <1>11 DEF t, h

\* What persist() executes for a source.
LEMMA StatementsType ==
  ASSUME NEW set, set.concepts \in Seq(Found), set.edges \in Seq(MadeEdge)
  PROVE  LET todo == Statements(set)
         IN  /\ Script(todo)
             /\ todo # <<>> => Head(todo).op \in {"prose", "edge"}
             /\ \A s \in ToSet(todo) : IF s.op = "edge" THEN s.arg \in ToSet(set.edges)
                                                         ELSE s.arg \in ToSet(set.concepts)
             /\ \A c \in ToSet(set.concepts) : [op |-> "row", arg |-> c] \in ToSet(todo)
             /\ \A e \in ToSet(set.edges) : [op |-> "edge", arg |-> e] \in ToSet(todo)
<1> DEFINE todo == Statements(set)
           cs == set.concepts
           es == set.edges
           L == Len(cs)
           E == Len(es)
           S == 3 * L
           Op(n) == <<"prose", "row", "vector">>[1 + ((n - 1) % 3)]
           At(n) == 1 + ((n - 1) \div 3)
<1>1. L \in Nat /\ E \in Nat /\ S \in Nat /\ S = 3 * L /\ DOMAIN cs = 1 .. L /\ DOMAIN es = 1 .. E
      /\ (\A k \in 1 .. L : cs[k] \in Found) /\ (\A k \in 1 .. E : es[k] \in MadeEdge)
  OBVIOUS
<1>2. todo = [n \in 1 .. S + E |-> IF n <= S THEN [op |-> Op(n), arg |-> cs[At(n)]]
                                             ELSE [op |-> "edge", arg |-> es[n - S]]]
  BY Zenon DEF Statements
<1> HIDE DEF todo, cs, es, L, E, S
<1>3. ASSUME NEW k \in 1 .. L
      PROVE  /\ 3 * k \in 1 .. S /\ 3 * k - 1 \in 1 .. S /\ 3 * k - 2 \in 1 .. S
             /\ Op(3 * k - 2) = "prose" /\ Op(3 * k - 1) = "row" /\ Op(3 * k) = "vector"
             /\ At(3 * k - 2) = k /\ At(3 * k - 1) = k /\ At(3 * k) = k
  <2>1. k \in Nat /\ k >= 1 /\ k <= L
    BY <1>1
  <2>2. 3 * k \in 1 .. S /\ 3 * k - 1 \in 1 .. S /\ 3 * k - 2 \in 1 .. S
    BY <2>1, <1>1
  <2>3. /\ ((3 * k - 2) - 1) % 3 = 0 /\ ((3 * k - 1) - 1) % 3 = 1 /\ (3 * k - 1) % 3 = 2
    BY <2>1
  <2>4. /\ ((3 * k - 2) - 1) \div 3 = k - 1 /\ ((3 * k - 1) - 1) \div 3 = k - 1 /\ (3 * k - 1) \div 3 = k - 1
    BY <2>1
  <2>5. Op(3 * k - 2) = "prose" /\ Op(3 * k - 1) = "row" /\ Op(3 * k) = "vector"
    BY <2>3
  <2>6. At(3 * k - 2) = k /\ At(3 * k - 1) = k /\ At(3 * k) = k
    BY <2>1, <2>4
  <2> QED BY <2>2, <2>5, <2>6
<1>4. ASSUME NEW n \in 1 .. S
      PROVE  \E k \in 1 .. L : n = 3 * k - 2 \/ n = 3 * k - 1 \/ n = 3 * k
  <2>1. n \in Nat /\ n >= 1 /\ n <= 3 * L
    BY <1>1
  <2> DEFINE k == (n + 2) \div 3
  <2>2. k \in 1 .. L /\ (n = 3 * k - 2 \/ n = 3 * k - 1 \/ n = 3 * k)
    BY <2>1, <1>1
  <2> QED BY <2>2
<1> HIDE DEF Op, At
<1> DEFINE Is(n, op, x) == todo[n] = [op |-> op, arg |-> x] /\ todo[n].op = op /\ todo[n].arg = x
<1>5. ASSUME NEW k \in 1 .. L
      PROVE  /\ 3 * k - 2 \in 1 .. S + E /\ Is(3 * k - 2, "prose", cs[k])
             /\ 3 * k - 1 \in 1 .. S + E /\ Is(3 * k - 1, "row", cs[k])
             /\ 3 * k \in 1 .. S + E /\ Is(3 * k, "vector", cs[k])
  <2>1. \A n \in 1 .. S : n \in 1 .. S + E /\ n <= S
    BY <1>1
  <2>2. \A n \in 1 .. S : Is(n, Op(n), cs[At(n)])
    BY <2>1, <1>2
  <2> HIDE DEF Is
  <2> QED BY <2>1, <2>2, <1>3
<1>6. ASSUME NEW k \in 1 .. E PROVE S + k \in 1 .. S + E /\ Is(S + k, "edge", es[k])
  <2>1. S + k \in 1 .. S + E /\ ~(S + k <= S) /\ (S + k) - S = k
    BY <1>1
  <2> QED BY <2>1, <1>2
<1>7. ASSUME NEW n \in 1 .. S + E
      PROVE  \/ \E k \in 1 .. L : n = 3 * k - 2 \/ n = 3 * k - 1 \/ n = 3 * k
             \/ \E k \in 1 .. E : n = S + k
  <2>1. n \in 1 .. S \/ (n - S \in 1 .. E /\ n = S + (n - S))
    BY <1>1
  <2> QED BY <2>1, <1>4
<1>8. DOMAIN todo = 1 .. S + E /\ S + E \in Nat
  BY <1>1, <1>2
<1>9. ASSUME NEW n \in 1 .. S + E
      PROVE  \/ \E k \in 1 .. L, op \in {"prose", "row", "vector"} : Is(n, op, cs[k])
             \/ \E k \in 1 .. E : Is(n, "edge", es[k])
  <2>1. ASSUME NEW k \in 1 .. L, n = 3 * k - 2 \/ n = 3 * k - 1 \/ n = 3 * k
        PROVE  Is(n, "prose", cs[k]) \/ Is(n, "row", cs[k]) \/ Is(n, "vector", cs[k])
    <3> HIDE DEF Is
    <3> QED BY <2>1, <1>5
  <2>2. ASSUME NEW k \in 1 .. E, n = S + k PROVE Is(n, "edge", es[k])
    <3> HIDE DEF Is
    <3> QED BY <2>2, <1>6
  <2> HIDE DEF Is
  <2> QED BY <2>1, <2>2, <1>7
<1>10. todo \in Seq(Statement) /\ Len(todo) = S + E
  <2>1. \A n \in 1 .. S + E : todo[n] \in Statement
    <3>1. /\ \A op \in {"prose", "row", "vector"}, x \in Found : [op |-> op, arg |-> x] \in Statement
          /\ \A x \in MadeEdge : [op |-> "edge", arg |-> x] \in Statement
      BY DEF Statement
    <3>2. ASSUME NEW n \in 1 .. S + E PROVE todo[n] \in Statement
      BY <3>1, <1>1, <1>9
    <3> QED BY <3>2
  <2>2. todo \in [1 .. S + E -> Statement]
    BY <1>2, <2>1
  <2> QED BY <2>2, <1>8
<1>11. ASSUME NEW n \in 1 .. S + E
       PROVE  /\ todo[n].op = "prose" => n + 1 \in 1 .. S + E /\ todo[n + 1] = [op |-> "row", arg |-> todo[n].arg]
              /\ todo[n].op = "row" => n + 1 \in 1 .. S + E /\ todo[n + 1] = [op |-> "vector", arg |-> todo[n].arg]
              /\ todo[n].op = "vector" => (n + 1 \in 1 .. S + E => todo[n + 1].op \in {"prose", "edge"})
              /\ todo[n].op = "edge" => \A m \in n + 1 .. S + E : todo[m].op = "edge"
  <2>1. CASE \E k \in 1 .. L : n = 3 * k - 2 \/ n = 3 * k - 1 \/ n = 3 * k
    <3> PICK k \in 1 .. L : n = 3 * k - 2 \/ n = 3 * k - 1 \/ n = 3 * k
      BY <2>1
    <3>1. k \in Nat
      BY <1>1
    <3> HIDE DEF Is
    <3>2. /\ 3 * k - 1 \in 1 .. S + E /\ 3 * k \in 1 .. S + E
          /\ Is(3 * k - 2, "prose", cs[k]) /\ Is(3 * k - 1, "row", cs[k]) /\ Is(3 * k, "vector", cs[k])
      BY <1>5
    <3>3. CASE n = 3 * k - 2
      <4>1. n + 1 = 3 * k - 1
        BY <3>1, <3>3
      <4>2. n + 1 \in 1 .. S + E /\ Is(n, "prose", cs[k]) /\ Is(n + 1, "row", cs[k])
        BY <4>1, <3>3, <3>2
      <4> QED BY <4>2 DEF Is
    <3>4. CASE n = 3 * k - 1
      <4>1. n + 1 = 3 * k
        BY <3>1, <3>4
      <4>2. n + 1 \in 1 .. S + E /\ Is(n, "row", cs[k]) /\ Is(n + 1, "vector", cs[k])
        BY <4>1, <3>4, <3>2
      <4> QED BY <4>2 DEF Is
    <3> USE DEF Is
    <3>5. CASE n = 3 * k
      <4> SUFFICES ASSUME n + 1 \in 1 .. S + E PROVE todo[n + 1].op \in {"prose", "edge"}
        BY <3>5, <1>5
      <4>1. CASE k + 1 \in 1 .. L
        <5> DEFINE j == k + 1
        <5>1. n + 1 = 3 * j - 2 /\ j \in 1 .. L
          BY <3>1, <3>5, <4>1
        <5> HIDE DEF j
        <5>2. Is(3 * j - 2, "prose", cs[j])
          BY <5>1, <1>5
        <5>3. Is(n + 1, "prose", cs[j])
          BY <5>1, <5>2
        <5> QED BY <5>3
      <4>2. CASE k + 1 \notin 1 .. L
        <5>1. k = L /\ n + 1 = S + 1 /\ 1 \in 1 .. E
          BY <3>1, <3>5, <4>2, <1>1
        <5> QED BY <5>1, <1>6
      <4> QED BY <4>1, <4>2
    <3> QED BY <3>3, <3>4, <3>5
  <2>2. CASE \E k \in 1 .. E : n = S + k
    <3> PICK k \in 1 .. E : n = S + k
      BY <2>2
    <3>1. todo[n].op = "edge"
      BY <1>6
    <3>2. ASSUME NEW m \in n + 1 .. S + E PROVE todo[m].op = "edge"
      <4>1. m - S \in 1 .. E /\ m = S + (m - S)
        BY <1>1
      <4> QED BY <4>1, <1>6
    <3> QED BY <3>1, <3>2
  <2> QED BY <2>1, <2>2, <1>7
<1>12. Script(todo)
  BY <1>10, <1>11 DEF Script
<1>13. \A n \in 1 .. S + E : IF todo[n].op = "edge" THEN todo[n].arg \in ToSet(es) ELSE todo[n].arg \in ToSet(cs)
  BY <1>1, <1>9 DEF ToSet
<1>14. \A c \in ToSet(cs) : [op |-> "row", arg |-> c] \in ToSet(todo)
  <2> SUFFICES ASSUME NEW k \in 1 .. L PROVE [op |-> "row", arg |-> cs[k]] \in ToSet(todo)
    BY <1>1 DEF ToSet
  <2> DEFINE n == 3 * k - 1
  <2>1. n \in 1 .. S + E /\ todo[n] = [op |-> "row", arg |-> cs[k]]
    BY <1>5
  <2> HIDE DEF n
  <2> QED BY <2>1, <1>8 DEF ToSet
<1>15. \A e \in ToSet(es) : [op |-> "edge", arg |-> e] \in ToSet(todo)
  BY <1>1, <1>6, <1>8 DEF ToSet
<1>16. todo # <<>> => Head(todo).op \in {"prose", "edge"}
  <2> SUFFICES ASSUME todo # <<>> PROVE todo[1].op \in {"prose", "edge"}
    BY <1>10
  <2>1. 1 \in 1 .. S + E
    BY <1>10, <1>8
  <2>2. CASE L = 0
    <3>1. S = 0 /\ 1 \in 1 .. E /\ S + 1 = 1
      BY <2>1, <2>2, <1>1
    <3> QED BY <3>1, <1>6
  <2>3. CASE L # 0
    <3>1. 1 \in 1 .. L /\ 3 * 1 - 2 = 1
      BY <2>3, <1>1
    <3> QED BY <3>1, <1>5
  <2> QED BY <2>2, <2>3
<1>17. \A s \in ToSet(todo) : IF s.op = "edge" THEN s.arg \in ToSet(es) ELSE s.arg \in ToSet(cs)
  BY <1>8, <1>13 DEF ToSet
<1> QED BY <1>12, <1>14, <1>15, <1>16, <1>17 DEF todo, cs, es

---------------------------------------------------------------------------
\* The inductive invariant

Todo(i) == ToSet(work[i].todo)
Made(i) == ToSet(work[i].result)

Thread == [phase : {"waiting", "pending", "running", "failed"}, todo : Seq(Statement),
           result : Seq(Found), gaps : SUBSET ConceptIds]
Document == [look : Looks, refs : Seq(FileRef)]
Row == [refs : Seq(FileRef), hash : Document]

Typed ==
  /\ work \in [SourceIds -> Thread]
  /\ rows \in [DOMAIN rows -> Row] /\ DOMAIN rows \subseteq ConceptIds
  /\ vectors \in [DOMAIN vectors -> Looks] /\ DOMAIN vectors \subseteq DOMAIN rows
  /\ bundle \in [DOMAIN bundle -> Document]
  /\ edges \in [DOMAIN edges -> EdgeRow] /\ DOMAIN edges \subseteq EdgeKey
  /\ queue \subseteq MadeEdge
  /\ present \subseteq SourceIds
  /\ placed \subseteq ConceptIds \X SourceIds \X Nat
  /\ torn \cup again \cup misquoted \subseteq ConceptIds

\* Who has something to do in which stage.
Staged ==
  /\ stage \in {"idle", "ingest", "stitch", "link"}
  /\ stage \in {"idle", "link"} => work = Idle
  /\ stage \in {"idle", "ingest"} => queue = {}
  /\ stage = "stitch" => \A i \in SourceIds : Finished(i)
  /\ \A i \in SourceIds : work[i].phase # "running" => work[i].todo = <<>> /\ work[i].result = <<>>

\* What a thread has produced, and what it has still to write of it.
ThreadHolds(i) ==
  /\ Script(work[i].todo)
  /\ UniqueIds(Made(i))
  /\ \A c \in Made(i) :
       /\ Grounded(c.refs, {Sources[i].file})
       /\ FirstFile(c.refs) \in Inputs \/ c.id \in misquoted
       /\ <<c.id, i, FirstLine(c)>> \in placed
       /\ c.id \in DOMAIN rows \/ [op |-> "row", arg |-> c] \in Todo(i)
  /\ \A s \in Todo(i) :
       IF s.op = "edge" THEN s.arg.cite = Sources[i].file /\ {s.arg.src, s.arg.dst} \subseteq Ids(Made(i))
                        ELSE s.arg \in Made(i)

Threads == \A i \in SourceIds : ThreadHolds(i)

\* In the linker's stage, an edge it may write is none that it saw, and it saw
\* every trusted edge there is.
Spared ==
  stage = "link" =>
    /\ seen \subseteq DOMAIN edges
    /\ \A e \in queue : e.provenance = "inferred" /\ Key(e) \notin seen
    /\ \A k \in DOMAIN edges : edges[k].provenance = "spine" => k \in seen

\* A concept that is written half: what is written of it, unless it is torn.
HalfHolds(i) ==
  i \in Running =>
    LET s == Head(work[i].todo)
        c == s.arg
    IN /\ s.op = "row" => c.id \in DOMAIN bundle /\ (c.id \in torn \/ bundle[c.id] = Doc(c))
       /\ s.op = "vector" => /\ c.id \in DOMAIN rows
                             /\ c.id \in torn \/ (bundle[c.id] = Doc(c) /\ rows[c.id].hash = Doc(c))

Halves ==
  /\ \A i \in SourceIds : HalfHolds(i)
  /\ \A i, j \in SourceIds : i # j => Halfway(i) \cap Halfway(j) \subseteq torn

\* What is stored, or queued, between stored concepts cites an input, unless one
\* of them was produced with an invented citation.
RowCites ==
  \A c \in DOMAIN rows :
    /\ Grounded(rows[c].refs, Inputs)
    /\ FirstFile(rows[c].refs) \in Inputs \/ c \in misquoted

QueueCites ==
  \A e \in queue :
    /\ {e.src, e.dst} \subseteq DOMAIN rows
    /\ e.cite \in Inputs \/ {e.src, e.dst} \cap misquoted # {}
    /\ e.cite # NoFile

\* A trusted edge, stored or to be written, runs with the documents.
Follows(k) ==
  \E p, q \in placed :
    /\ p[1] = k[1] /\ q[1] = k[3]
    /\ Sources[p[2]].spine /\ Sources[q[2]].spine
    /\ \/ p[2] < q[2]
       \/ p[2] = q[2] /\ p[3] < q[3]
       \/ p[2] = q[2] /\ p[3] = q[3] /\ p[1] < q[1]

ToFollow ==
  /\ \A i \in SourceIds : \A s \in Todo(i) :
       s.op = "edge" /\ s.arg.provenance = "spine" => Follows(Key(s.arg))
  /\ \A e \in queue : e.provenance = "spine" => Follows(Key(e))

\* What could demote a trusted edge: a guess of another thread, or of a later
\* ingest, with its key.
Rivals ==
  /\ stage = "stitch" => \A e \in queue : e.provenance = "spine"
  /\ \A i, j \in SourceIds : i # j => Ids(Made(i)) \cap Ids(Made(j)) \subseteq again
  /\ \A i \in SourceIds : \A s \in Todo(i) : s.op = "edge" /\ s.arg.provenance = "inferred" =>
       /\ Key(s.arg) \in DOMAIN edges /\ edges[Key(s.arg)].provenance = "spine"
            => {s.arg.src, s.arg.dst} \subseteq again
       /\ \A r \in Todo(i) : r.op = "edge" /\ r.arg.provenance = "spine" => Key(r.arg) # Key(s.arg)

\* A trusted edge leads from c to d, or is not to be counted on.
Trusted(c, d) ==
  LET k == <<c.id, "prerequisite", d.id>>
  IN {c.id, d.id} \subseteq again \/ (k \in DOMAIN edges /\ edges[k].provenance = "spine")

\* The backbone is stored or on its way.
Backbone ==
  /\ \A i \in SpineRuns : \A n \in 1 .. Len(Ordered(i)) - 1 :
       \/ Trusted(Ordered(i)[n], Ordered(i)[n + 1])
       \/ FirstFile(Ordered(i)[n].refs) # Sources[i].file
       \/ Ordered(i)[n].id \in work[i].gaps
       \/ [op |-> "edge", arg |-> SpineEdge(Ordered(i)[n], Ordered(i)[n + 1])] \in Todo(i)
  /\ stage = "stitch" => \A p \in Neighbours :
       \/ Trusted(Last(Ordered(p[1])), Head(Ordered(p[2])))
       \/ SpineEdge(Last(Ordered(p[1])), Head(Ordered(p[2]))) \in queue

IInv ==
  /\ Typed /\ Staged /\ Threads
  /\ Spared
  /\ Halves /\ RowTellsContent
  /\ RowCites /\ QueueCites /\ NothingFabricated
  /\ ToFollow /\ SpineFollowsDocuments
  /\ Rivals
  /\ Backbone

---------------------------------------------------------------------------
\* Steps of the threads

\* The manifest numbers its sources, and each is a file.
LEMMA ManifestType ==
  /\ SourceIds \subseteq Nat
  /\ \A i \in SourceIds : Sources[i].file \in Inputs /\ Sources[i].file \in Files /\ Sources[i].spine \in BOOLEAN
  /\ Inputs \subseteq Files /\ NoFile \notin Inputs
<1> DEFINE Slot == [file : Files, spine : BOOLEAN, procure : BOOLEAN]
<1>1. Sources \in Seq(Slot)
  BY SourcesType
<1> HIDE DEF Slot
<1>2. SourceIds \subseteq Nat /\ \A i \in SourceIds : Sources[i] \in Slot
  BY <1>1 DEF SourceIds
<1>3. \A i \in SourceIds : Sources[i].file \in Files /\ Sources[i].spine \in BOOLEAN
  BY <1>2 DEF Slot
<1> QED BY <1>2, <1>3, NoFileIsNoFile DEF Inputs

\* Thread i gets set from the passes.
Taken(i, set, gaps) ==
  /\ Yields(set, Sources[i].file, Sources[i].spine, gaps)
  /\ work'[i] = [phase |-> "running", todo |-> Statements(set), result |-> set.concepts, gaps |-> gaps]
  /\ \A j \in SourceIds : j # i => work'[j] = work[j]
  /\ again' = again \cup {c.id : c \in {d \in ToSet(set.concepts) : d.id \in {p[1] : p \in placed}}}
  /\ placed' = placed \cup {<<c.id, i, FirstLine(c)>> : c \in ToSet(set.concepts)}
  /\ misquoted' = misquoted \cup {c.id : c \in {d \in ToSet(set.concepts) : FirstFile(d.refs) \notin Inputs}}

\* An ingest takes what the passes make of some answer.
LEMMA IngestTakes ==
  ASSUME Typed, NEW i \in SourceIds, Ingest(i)
  PROVE  \E set, gaps : Taken(i, set, gaps)
<1>0. /\ \A items \in Completions(Answers[i]) : items \in Seq(Item)
      /\ \A proposals \in Completions(Proposals[i]) : proposals \in Seq(Proposal)
  <2>1. Answers[i] \subseteq Seq(Item) /\ Proposals[i] \subseteq Seq(Proposal)
    BY AnswersType
  <2>2. <<>> \in Seq(Item) /\ <<>> \in Seq(Proposal)
    OBVIOUS
  <2> QED BY <2>1, <2>2 DEF Completions
<1> PICK items \in Completions(Answers[i]), proposals \in Completions(Proposals[i]) :
       LET set == RunPasses(items, proposals, Sources[i].file, Sources[i].spine)
           made == ToSet(set.concepts)
       IN /\ work' = [work EXCEPT ![i] = [phase |-> "running", todo |-> Statements(set), result |-> set.concepts,
                                          gaps |-> Gaps(items, Sources[i].file)]]
          /\ again' = again \cup {c.id : c \in {d \in made : d.id \in {p[1] : p \in placed}}}
          /\ placed' = placed \cup {<<c.id, i, FirstLine(c)>> : c \in made}
          /\ misquoted' = misquoted \cup {c.id : c \in {d \in made : FirstFile(d.refs) \notin Inputs}}
  BY DEF Ingest
<1> DEFINE set == RunPasses(items, proposals, Sources[i].file, Sources[i].spine)
           gaps == Gaps(items, Sources[i].file)
<1>1. items \in Seq(Item) /\ proposals \in Seq(Proposal)
  BY <1>0
<1>2. Yields(set, Sources[i].file, Sources[i].spine, gaps)
  BY <1>1, ManifestType, RunPassesYields
<1>3. work' = [work EXCEPT ![i] = [phase |-> "running", todo |-> Statements(set), result |-> set.concepts,
                                   gaps |-> gaps]]
  OBVIOUS
<1>4. /\ again' = again \cup {c.id : c \in {d \in ToSet(set.concepts) : d.id \in {p[1] : p \in placed}}}
      /\ placed' = placed \cup {<<c.id, i, FirstLine(c)>> : c \in ToSet(set.concepts)}
      /\ misquoted' = misquoted \cup {c.id : c \in {d \in ToSet(set.concepts) : FirstFile(d.refs) \notin Inputs}}
  OBVIOUS
<1>5. DOMAIN work = SourceIds
  BY DEF Typed
<1> HIDE DEF set, gaps
<1>6. Taken(i, set, gaps)
  BY <1>2, <1>3, <1>4, <1>5 DEF Taken
<1> QED BY <1>6

\* Thread i executes the first of its statements.
Advances(i) ==
  /\ stage = "ingest" /\ i \in Running
  /\ work'[i] = [work[i] EXCEPT !.todo = Tail(@)]
  /\ \A j \in SourceIds : j # i => work'[j] = work[j]

\* Its row or edge is then in the table.
Executed(i) ==
  /\ Advances(i)
  /\ Head(work[i].todo).op = "row" => Head(work[i].todo).arg.id \in DOMAIN rows'
  /\ Head(work[i].todo).op = "edge" => UpsertEdge(Head(work[i].todo).arg)

\* A thread has nothing to do.
Empty(t) == t \in Thread /\ t.phase # "running" /\ t.todo = <<>> /\ t.result = <<>> /\ t.gaps = {}

\* An executed statement is the thread's next one, and its concept one of the
\* thread's.
LEMMA Execution ==
  ASSUME Typed, Threads, NEW i \in SourceIds, NEW op \in {"prose", "row", "vector", "edge"}, NEW c, Executes(i, op, c)
  PROVE  /\ Advances(i) /\ UNCHANGED ghosts
         /\ Head(work[i].todo) = [op |-> op, arg |-> c]
         /\ [op |-> op, arg |-> c] \in Todo(i)
         /\ op # "edge" => c \in Made(i) /\ c \in Found /\ c.id \in ConceptIds /\ Doc(c) \in Document
         /\ op = "edge" => c \in MadeEdge /\ Key(c) \in EdgeKey /\ Fresh(c) \in EdgeRow
<1> DEFINE s == [op |-> op, arg |-> c]
           todo == work[i].todo
<1>1. DOMAIN work = SourceIds /\ work[i] \in Thread
  BY DEF Typed
<1>2. /\ stage = "ingest" /\ i \in Running /\ Head(todo) = s
      /\ work' = [work EXCEPT ![i].todo = Tail(@)] /\ UNCHANGED ghosts
  BY DEF Executes
<1>3. Script(todo) /\ todo # <<>>
  BY <1>2 DEF Running, Threads, ThreadHolds
<1>4. s.op = op /\ s.arg = c
  OBVIOUS
<1> HIDE DEF s, todo
<1>5. s \in Statement /\ s \in ToSet(todo)
  BY <1>2, <1>3, ScriptTail
<1>6. Advances(i)
  BY <1>1, <1>2 DEF Advances
<1>7. op # "edge" => c \in Found /\ c \in Made(i)
  <2>1. op # "edge" => c \in Found
    BY <1>4, <1>5 DEF Statement
  <2>2. op # "edge" => c \in Made(i)
    BY <1>4, <1>5 DEF Threads, ThreadHolds, Todo, todo
  <2> QED BY <2>1, <2>2
<1>8. c \in Found => c.id \in ConceptIds /\ Doc(c) \in Document
  BY DEF Found, Doc, Document
<1>9. op = "edge" => c \in MadeEdge
  BY <1>4, <1>5 DEF Statement
<1>10. c \in MadeEdge => Key(c) \in EdgeKey /\ Fresh(c) \in EdgeRow
  BY DEF MadeEdge, Key, EdgeKey, Fresh, EdgeRow
<1> QED BY <1>2, <1>5, <1>6, <1>7, <1>8, <1>9, <1>10 DEF s, todo, Todo

\* What a thread has of the passes.
LEMMA TakenThread ==
  ASSUME NEW i \in SourceIds, NEW set, NEW gaps, Taken(i, set, gaps)
  PROVE  /\ work'[i] \in Thread
         /\ i \in Running' => Head(work'[i].todo).op \in {"prose", "edge"}
         /\ Script(work'[i].todo)
         /\ work'[i].phase = "running" /\ work'[i].gaps = gaps /\ work'[i].result = set.concepts
         /\ \A s \in Todo(i)' : IF s.op = "edge" THEN s.arg \in ToSet(set.edges) ELSE s.arg \in Made(i)'
         /\ \A c \in Made(i)' : [op |-> "row", arg |-> c] \in Todo(i)'
         /\ \A e \in ToSet(set.edges) : [op |-> "edge", arg |-> e] \in Todo(i)'
         /\ Made(i)' = ToSet(set.concepts) /\ Made(i)' \in SUBSET Found
<1> DEFINE t == work'[i]
<1>1. t = [phase |-> "running", todo |-> Statements(set), result |-> set.concepts, gaps |-> gaps]
  BY DEF Taken
<1>2. /\ t.phase = "running" /\ t.todo = Statements(set) /\ t.result = set.concepts /\ t.gaps = gaps
  BY <1>1
<1>3. set.concepts \in Seq(Found) /\ set.edges \in Seq(MadeEdge) /\ gaps \subseteq ConceptIds
  BY DEF Taken, Yields
<1> HIDE DEF t
<1>4. /\ Script(t.todo)
      /\ t.todo # <<>> => Head(t.todo).op \in {"prose", "edge"}
      /\ \A s \in ToSet(t.todo) : IF s.op = "edge" THEN s.arg \in ToSet(set.edges)
                                                   ELSE s.arg \in ToSet(set.concepts)
      /\ \A c \in ToSet(set.concepts) : [op |-> "row", arg |-> c] \in ToSet(t.todo)
      /\ \A e \in ToSet(set.edges) : [op |-> "edge", arg |-> e] \in ToSet(t.todo)
  BY <1>2, <1>3, StatementsType
<1>5. t \in Thread
  BY <1>1, <1>2, <1>3, <1>4 DEF Thread, Script
<1>6. Made(i)' = ToSet(set.concepts) /\ ToSet(set.concepts) \in SUBSET Found
  BY <1>2, <1>3 DEF Made, ToSet, t
<1>7. Todo(i)' = ToSet(t.todo)
  BY DEF Todo, t
<1>8. i \in Running' => t.todo # <<>>
  BY DEF Running, t
<1> QED BY <1>2, <1>4, <1>5, <1>6, <1>7, <1>8 DEF t

\* A thread that has executed a statement has the others left.
LEMMA AdvancedThread ==
  ASSUME Typed, Threads, NEW i \in SourceIds, Advances(i)
  PROVE  /\ work'[i] \in Thread /\ Script(work'[i].todo)
         /\ work'[i].phase = "running" /\ work'[i].gaps = work[i].gaps /\ work'[i].result = work[i].result
         /\ work'[i].todo = Tail(work[i].todo)
         /\ Made(i)' = Made(i)
         /\ Todo(i) = Todo(i)' \cup {Head(work[i].todo)}
<1>1. work[i] \in Thread /\ work[i].phase = "running" /\ work[i].todo # <<>> /\ Script(work[i].todo)
  BY DEF Typed, Advances, Running, Threads, ThreadHolds
<1>2. work'[i] = [work[i] EXCEPT !.todo = Tail(@)]
  BY DEF Advances
<1>3. /\ Script(Tail(work[i].todo))
      /\ ToSet(work[i].todo) = ToSet(Tail(work[i].todo)) \cup {Head(work[i].todo)}
  BY <1>1, ScriptTail
<1>4. Tail(work[i].todo) \in Seq(Statement)
  BY <1>3 DEF Script
<1> DEFINE tail == Tail(work[i].todo)
<1> HIDE DEF tail
<1>5. work'[i] = [work[i] EXCEPT !.todo = tail] /\ tail \in Seq(Statement)
  BY <1>2, <1>4 DEF tail
<1>6. /\ work'[i] \in Thread /\ work'[i].todo = tail /\ work'[i].phase = "running"
      /\ work'[i].gaps = work[i].gaps /\ work'[i].result = work[i].result
  BY <1>1, <1>5 DEF Thread
<1> QED BY <1>3, <1>6 DEF Made, Todo, tail

\* The linker's isolated concepts are stored ones without any edge, and so are
\* those of each of its groups.
LEMMA GroupsAreIsolated ==
  /\ Isolated = {c \in DOMAIN rows : \A k \in DOMAIN edges : c \notin {k[1], k[3]}}
  /\ \A n \in DOMAIN Groups(Isolated) : Groups(Isolated)[n] \subseteq Isolated
<1> DEFINE I == Isolated
<1> HIDE DEF I
<1>1. \A n \in DOMAIN Groups(I) : Groups(I)[n] \subseteq I
  BY DEF Groups
<1> QED BY <1>1 DEF I, Isolated

\* An accepted edge ties a concept of the group to a stored one and cites what
\* that concept cites first.
LEMMA AcceptedEdges ==
  ASSUME Typed, NEW answer \in Completions(LinkAnswers), NEW group \in SUBSET DOMAIN rows, NEW e \in Accept(answer, group)
  PROVE  /\ e \in MadeEdge /\ e.provenance = "inferred" /\ {e.src, e.dst} \subseteq DOMAIN rows
         /\ \E c \in group : c \in {e.src, e.dst} /\ e.cite = FirstFile(rows[c].refs)
<1>1. answer \in Seq(Proposal)
  <2>1. LinkAnswers \subseteq Seq(Proposal) /\ <<>> \in Seq(Proposal)
    BY LinkAnswersType
  <2> QED BY <2>1 DEF Completions
<1>2. \A p \in ToSet(answer) : p \in Proposal
  BY <1>1 DEF ToSet
<1> DEFINE anchor(p) == IF p.src \in group THEN p.src ELSE p.dst
<1>3. PICK p \in ToSet(answer) :
        /\ e = [src |-> p.src, type |-> p.type, dst |-> p.dst, provenance |-> "inferred",
                cite |-> FirstFile(rows[anchor(p)].refs)]
        /\ WellFormed(p) /\ group \cap {p.src, p.dst} # {} /\ {p.src, p.dst} \subseteq DOMAIN rows
  BY DEF Accept
<1> DEFINE a == anchor(p)
           cite == FirstFile(rows[a].refs)
<1>4. a \in group /\ a \in {p.src, p.dst}
  BY <1>3
<1> HIDE DEF a, anchor
<1>5. rows[a].refs \in Seq(FileRef)
  <2>1. a \in DOMAIN rows
    BY <1>4
  <2> QED BY <2>1 DEF Typed, Row
<1>6. cite \in Files \cup {NoFile}
  <2> DEFINE refs == rows[a].refs
  <2> HIDE DEF refs
  <2>1. refs \in Seq(FileRef) => (refs = <<>> \/ refs[1] \in FileRef)
    OBVIOUS
  <2> QED BY <1>5, <2>1 DEF FirstFile, FileRef, refs
<1>7. e = [src |-> p.src, type |-> p.type, dst |-> p.dst, provenance |-> "inferred", cite |-> cite]
  BY <1>3 DEF a
<1> HIDE DEF cite
<1>8. p.type \in EdgeTypes /\ p.src \in ConceptIds /\ p.dst \in ConceptIds
  BY <1>2, <1>3 DEF WellFormed, Proposal
<1>9. e \in MadeEdge /\ e.src = p.src /\ e.dst = p.dst /\ e.provenance = "inferred" /\ e.cite = cite
  BY <1>6, <1>7, <1>8 DEF MadeEdge
<1> QED BY <1>3, <1>4, <1>9 DEF cite

\* What the linker queues: inferred edges between stored concepts, at least one
\* of which had no edge and is what the edge cites by.
LEMMA LinkQueue ==
  ASSUME Typed, LinkIsolated
  PROVE  \A e \in queue' :
           /\ e \in MadeEdge /\ e.provenance = "inferred" /\ {e.src, e.dst} \subseteq DOMAIN rows
           /\ \E c \in Isolated : c \in {e.src, e.dst} /\ e.cite = FirstFile(rows[c].refs)
<1> DEFINE groups == Groups(Isolated)
<1>1. PICK answers \in [DOMAIN groups -> Completions(LinkAnswers)] :
        queue' = UNION {{e \in Accept(answers[n], groups[n]) :
                           ~(\E m \in DOMAIN groups : m > n /\ \E f \in Accept(answers[m], groups[m]) : Key(f) = Key(e))}
                          : n \in DOMAIN groups}
  BY DEF LinkIsolated
<1>2. \A n \in DOMAIN groups : groups[n] \subseteq Isolated
  BY GroupsAreIsolated
<1>3. Isolated \subseteq DOMAIN rows
  BY GroupsAreIsolated
<1> HIDE DEF groups
<1> TAKE e \in queue'
<1>4. PICK n \in DOMAIN groups : e \in Accept(answers[n], groups[n])
  BY <1>1
<1>5. answers[n] \in Completions(LinkAnswers) /\ groups[n] \in SUBSET DOMAIN rows /\ groups[n] \subseteq Isolated
  BY <1>2, <1>3, <1>4
<1> QED BY <1>4, <1>5, AcceptedEdges

\* Last and first concept of a source that produced some.
LEMMA TailAndHead ==
  ASSUME Typed, Threads, NEW i \in SpineRuns
  PROVE  /\ i \in SourceIds /\ Sources[i].spine
         /\ Last(Ordered(i)) \in Made(i) /\ Head(Ordered(i)) \in Made(i)
         /\ \A n \in 1 .. Len(Ordered(i)) - 1 : Ordered(i)[n] \in Made(i) /\ Ordered(i)[n + 1] \in Made(i)
         /\ Made(i) \in SUBSET Found
<1>1. i \in SourceIds /\ Sources[i].spine /\ work[i].result # <<>> /\ work[i].result \in Seq(Found)
  BY DEF SpineRuns, Typed, Thread
<1> DEFINE T == Made(i)
           o == Ordered(i)
<1>2. T \in SUBSET Found /\ IsFiniteSet(T) /\ T # {} /\ UniqueIds(T)
  BY <1>1, ItemsFinite DEF Threads, ThreadHolds, Made
<1>3. o = InDocumentOrder(T)
  BY DEF Ordered, Made
<1> HIDE DEF T, o
<1>4. o \in Seq(T) /\ Len(o) \in Nat /\ \A c \in T : \E n \in 1 .. Len(o) : o[n] = c
  BY <1>2, <1>3, DocumentOrder
<1>5. Len(o) >= 1
  BY <1>2, <1>4
<1>6. o[Len(o)] \in T /\ Head(o) \in T
  <2>1. 1 \in 1 .. Len(o) /\ Len(o) \in 1 .. Len(o)
    BY <1>4, <1>5
  <2> QED BY <1>4, <2>1
<1>7. \A n \in 1 .. Len(o) - 1 : o[n] \in T /\ o[n + 1] \in T
  <2> TAKE n \in 1 .. Len(o) - 1
  <2>1. n \in 1 .. Len(o) /\ n + 1 \in 1 .. Len(o)
    BY <1>4
  <2> QED BY <1>4, <2>1
<1> QED BY <1>1, <1>2, <1>6, <1>7 DEF T, o, Last

\* A stitch leads from a concept of one spine source to one of a later one.
LEMMA StitchedEdges ==
  ASSUME Typed, Threads, NEW e \in Stitches
  PROVE  /\ e \in MadeEdge /\ e.provenance = "spine"
         /\ \E i, j \in SourceIds : \E c \in Made(i), d \in Made(j) :
              /\ i < j /\ Sources[i].spine /\ Sources[j].spine
              /\ e.src = c.id /\ e.dst = d.id /\ e.cite = FirstFile(c.refs)
<1>1. PICK p \in Neighbours : e = SpineEdge(Last(Ordered(p[1])), Head(Ordered(p[2])))
  BY DEF Stitches
<1>2. p[1] \in SpineRuns /\ p[2] \in SpineRuns /\ p[1] < p[2]
  BY DEF Neighbours
<1> DEFINE i == p[1]
           j == p[2]
           c == Last(Ordered(p[1]))
           d == Head(Ordered(p[2]))
<1>3. i \in SourceIds /\ Sources[i].spine /\ c \in Made(i) /\ c \in Found
  BY <1>2, TailAndHead
<1>4. j \in SourceIds /\ Sources[j].spine /\ d \in Made(j) /\ d \in Found
  BY <1>2, TailAndHead
<1> HIDE DEF c, d
<1>5. /\ SpineEdge(c, d) \in MadeEdge
      /\ SpineEdge(c, d).src = c.id /\ SpineEdge(c, d).dst = d.id
      /\ SpineEdge(c, d).provenance = "spine" /\ SpineEdge(c, d).cite = FirstFile(c.refs)
  BY <1>3, <1>4, SpineEdgeType
<1>6. e = SpineEdge(c, d)
  BY <1>1 DEF c, d
<1> QED BY <1>2, <1>3, <1>4, <1>5, <1>6

\* Whatever happens, a thread keeps what it has, is cleared, executes one
\* statement or takes what the passes return.
LEMMA ThreadsMove ==
  ASSUME Typed, Staged, Threads, [Next]_vars, NEW i \in SourceIds
  PROVE  \/ work'[i] = work[i]
         \/ Empty(work'[i])
         \/ Executed(i)
         \/ UNCHANGED edges /\ \E set, gaps : Taken(i, set, gaps)
<1>1. DOMAIN work = SourceIds
  BY DEF Typed
<1>2. <<>> \in Seq(Statement) /\ <<>> \in Seq(Found) /\ {} \in SUBSET ConceptIds
  OBVIOUS
<1>3. /\ Empty(NoThread)
      /\ \A phase \in {"waiting", "pending", "failed"} : Empty([NoThread EXCEPT !.phase = phase])
  BY <1>2 DEF Empty, NoThread, Thread
<1>4. Idle[i] = NoThread
  BY DEF Idle
<1>5. CASE StartBuild
  <2>1. work'[i] = [NoThread EXCEPT !.phase = IF Sources[i].procure /\ i \notin present THEN "pending" ELSE @]
    BY <1>5 DEF StartBuild
  <2>2. NoThread.phase = "waiting"
    BY DEF NoThread
  <2>3. work'[i] = [NoThread EXCEPT !.phase = "pending"] \/ work'[i] = [NoThread EXCEPT !.phase = "waiting"]
    BY <2>1, <2>2
  <2> QED BY <2>3, <1>3
<1>6. CASE Stitch \/ (\E e \in queue : UpsertQueued(e)) \/ (\E k \in Cited, skip \in {0, 1} : Cite(k, skip))
           \/ (\E j \in SourceIds : Procure(j)) \/ UNCHANGED vars
  BY <1>6 DEF Stitch, UpsertQueued, Cite, Procure, vars
<1>7. CASE LinkIsolated \/ EndCommand \/ Abort
  BY <1>3, <1>4, <1>7 DEF LinkIsolated, EndCommand, Abort
<1>8. ASSUME NEW j \in SourceIds, Ingest(j)
      PROVE  work'[i] = work[i] \/ (UNCHANGED edges /\ \E set, gaps : Taken(i, set, gaps))
  <2>1. UNCHANGED edges
    BY <1>8 DEF Ingest, store
  <2>2. PICK set, gaps : Taken(j, set, gaps)
    BY <1>8, IngestTakes
  <2>3. j # i => work'[i] = work[i]
    BY <2>2 DEF Taken
  <2> QED BY <2>1, <2>2, <2>3
<1>9. ASSUME NEW j \in SourceIds, SourceFails(j) PROVE work'[i] = work[i] \/ Empty(work'[i])
  BY <1>1, <1>3, <1>9 DEF SourceFails
<1>10. ASSUME NEW j \in SourceIds, WriteProse(j) \/ WriteRow(j) \/ WriteVector(j) \/ WriteEdge(j)
       PROVE  work'[i] = work[i] \/ Executed(i)
  <2>1. PICK op \in {"prose", "row", "vector", "edge"}, c \in Writes(j) :
          Executes(j, op, c) /\ (op = "row" => c.id \in DOMAIN rows') /\ (op = "edge" => UpsertEdge(c))
    <3>1. WriteRow(j) => \E c \in Writes(j) : Executes(j, "row", c) /\ c.id \in DOMAIN rows'
      BY DEF WriteRow, Upsert
    <3>2. /\ WriteProse(j) => \E c \in Writes(j) : Executes(j, "prose", c)
          /\ WriteVector(j) => \E c \in Writes(j) : Executes(j, "vector", c)
          /\ WriteEdge(j) => \E c \in Writes(j) : Executes(j, "edge", c) /\ UpsertEdge(c)
      BY DEF WriteProse, WriteVector, WriteEdge
    <3> QED BY <1>10, <3>1, <3>2
  <2>2. Advances(j) /\ Head(work[j].todo) = [op |-> op, arg |-> c]
    <3>1. Executes(j, op, c)
      BY <2>1
    <3> QED BY <3>1, Execution
  <2>3. Head(work[j].todo).op = op /\ Head(work[j].todo).arg = c
    BY <2>2
  <2>4. Executed(j)
    BY <2>1, <2>2, <2>3 DEF Executed
  <2> QED BY <2>2, <2>4 DEF Advances
<1> QED BY <1>5, <1>6, <1>7, <1>8, <1>9, <1>10 DEF Next

\* What the ghosts and the rows hold only grows.
LEMMA Growth ==
  ASSUME Typed, Staged, Threads, [Next]_vars
  PROVE  placed \subseteq placed' /\ again \subseteq again' /\ misquoted \subseteq misquoted' /\ DOMAIN rows \subseteq DOMAIN rows'
<1>1. CASE StartBuild \/ Stitch \/ LinkIsolated \/ EndCommand \/ Abort \/ UNCHANGED vars
           \/ (\E e \in queue : UpsertQueued(e)) \/ (\E k \in Cited, skip \in {0, 1} : Cite(k, skip))
           \/ (\E j \in SourceIds : Procure(j) \/ SourceFails(j) \/ WriteProse(j) \/ WriteVector(j) \/ WriteEdge(j))
  BY <1>1 DEF StartBuild, Stitch, LinkIsolated, EndCommand, Abort, UpsertQueued, Cite, Procure, SourceFails,
              WriteProse, WriteVector, WriteEdge, Executes, vars, store, ghosts
<1>2. ASSUME NEW i \in SourceIds, Ingest(i) PROVE UNCHANGED rows /\ \E set, gaps : Taken(i, set, gaps)
  BY <1>2, IngestTakes DEF Ingest, store
<1>3. ASSUME NEW i \in SourceIds, WriteRow(i) PROVE UNCHANGED ghosts /\ DOMAIN rows \subseteq DOMAIN rows'
  BY <1>3 DEF WriteRow, Executes, Upsert
<1> QED BY <1>1, <1>2, <1>3 DEF Next, Taken, ghosts

---------------------------------------------------------------------------
\* Types, stages and threads

\* A thread with no statements and no results.
LEMMA EmptyScript == Script(<<>>)
<1>1. <<>> \in Seq(Statement) /\ Len(<<>>) = 0 /\ 1 .. 0 = {}
  OBVIOUS
<1> QED BY <1>1 DEF Script

\* A command starts with empty tables and no work.
LEMMA TypedInit == Init => Typed /\ Staged /\ Threads
<1> SUFFICES ASSUME Init PROVE Typed /\ Staged /\ Threads
  OBVIOUS
<1>1. \A T : <<>> \in Seq(T) /\ DOMAIN <<>> = {} /\ <<>> \in [{} -> T] /\ ToSet(<<>>) = {}
  BY DEF ToSet
<1>2. NoThread \in Thread /\ Idle \in [SourceIds -> Thread]
  BY <1>1 DEF NoThread, Thread, Idle
<1>3. \A i \in SourceIds : work[i] = NoThread /\ work[i].todo = <<>> /\ work[i].result = <<>>
  BY DEF Init, Idle, NoThread
<1>4. Typed
  BY <1>1, <1>2 DEF Init, Typed
<1>5. Staged
  BY <1>3 DEF Init, Staged
<1>6. ASSUME NEW i \in SourceIds PROVE ThreadHolds(i)
  <2>1. Todo(i) = {} /\ Made(i) = {}
    BY <1>1, <1>3 DEF Todo, Made
  <2>2. Script(work[i].todo)
    BY <1>3, EmptyScript
  <2> QED BY <2>1, <2>2 DEF ThreadHolds, UniqueIds
<1> QED BY <1>4, <1>5, <1>6 DEF Threads

\* Threads stay of their type, and so do the ghosts of what they produce.
LEMMA WorkTyped ==
  ASSUME Typed, Staged, Threads, [Next]_vars
  PROVE  /\ work' \in [SourceIds -> Thread]
         /\ placed' \subseteq ConceptIds \X SourceIds \X Nat
         /\ again' \cup misquoted' \subseteq ConceptIds
<1>1. ASSUME NEW i \in SourceIds PROVE work'[i] \in Thread
  <2>1. work[i] \in Thread
    BY DEF Typed
  <2> QED BY <2>1, ThreadsMove, TakenThread, AdvancedThread DEF Empty, Executed
<1>2. \E f : work' = [i \in SourceIds |-> f[i]]
  <2>1. work = [i \in SourceIds |-> work[i]]
    BY DEF Typed
  <2>2. CASE UNCHANGED work
    BY <2>1, <2>2
  <2>3. CASE work' = Idle
    BY <2>3 DEF Idle
  <2>4. CASE StartBuild
    <3> DEFINE F(i) == [NoThread EXCEPT !.phase = IF Sources[i].procure /\ i \notin present THEN "pending" ELSE @]
    <3>1. work' = [i \in SourceIds |-> F(i)]
      BY <2>4 DEF StartBuild
    <3> HIDE DEF F
    <3>2. work' = [i \in SourceIds |-> work'[i]]
      BY <3>1
    <3> QED BY <3>2
  <2>5. ASSUME NEW i, NEW t, work' = [work EXCEPT ![i] = t] PROVE \E f : work' = [j \in SourceIds |-> f[j]]
    <3>1. work' = [j \in SourceIds |-> work'[j]]
      BY <2>1, <2>5
    <3> QED BY <3>1
  <2>6. ASSUME NEW i \in SourceIds, Ingest(i) PROVE \E t : work' = [work EXCEPT ![i] = t]
    BY <2>6, Zenon DEF Ingest
  <2>7. ASSUME NEW i \in SourceIds, SourceFails(i) PROVE \E t : work' = [work EXCEPT ![i] = t]
    BY <2>7, Zenon DEF SourceFails
  <2>8. ASSUME NEW i \in SourceIds, NEW op, NEW c, Executes(i, op, c) PROVE \E t : work' = [work EXCEPT ![i] = t]
    <3>1. work' = [work EXCEPT ![i] = [work[i] EXCEPT !.todo = Tail(work[i].todo)]]
      BY <2>8, <2>1 DEF Executes
    <3> QED BY <3>1
  <2>9. CASE Stitch \/ (\E e \in queue : UpsertQueued(e)) \/ (\E k \in Cited, skip \in {0, 1} : Cite(k, skip))
             \/ (\E j \in SourceIds : Procure(j)) \/ UNCHANGED vars
    BY <2>2, <2>9 DEF Stitch, UpsertQueued, Cite, Procure, vars
  <2>10. CASE LinkIsolated \/ EndCommand \/ Abort
    BY <2>3, <2>10 DEF LinkIsolated, EndCommand, Abort
  <2>11. ASSUME NEW i \in SourceIds, WriteProse(i) \/ WriteRow(i) \/ WriteVector(i) \/ WriteEdge(i)
         PROVE  \E f : work' = [j \in SourceIds |-> f[j]]
    BY <2>5, <2>8, <2>11 DEF WriteProse, WriteRow, WriteVector, WriteEdge
  <2> QED BY <2>4, <2>5, <2>6, <2>7, <2>9, <2>10, <2>11 DEF Next
<1>3. work' \in [SourceIds -> Thread]
  BY <1>1, <1>2
<1>4. UNCHANGED <<placed, again, misquoted>> \/ \E i \in SourceIds : Ingest(i)
  BY DEF Next, StartBuild, Stitch, LinkIsolated, EndCommand, Abort, UpsertQueued, Cite, Procure, SourceFails,
         WriteProse, WriteRow, WriteVector, WriteEdge, Executes, vars, ghosts
<1>5. ASSUME NEW i \in SourceIds, Ingest(i)
      PROVE  /\ placed' \subseteq ConceptIds \X SourceIds \X Nat
             /\ again' \cup misquoted' \subseteq ConceptIds
  <2>1. PICK set, gaps : Taken(i, set, gaps)
    BY <1>5, IngestTakes
  <2> DEFINE made == ToSet(set.concepts)
  <2>2. made \in SUBSET Found
    BY <2>1, TakenThread
  <2> HIDE DEF made
  <2>3. \A c \in made : c.id \in ConceptIds /\ FirstLine(c) \in Nat
    BY <2>2, FirstLineType DEF Found
  <2>4. /\ placed' = placed \cup {<<c.id, i, FirstLine(c)>> : c \in made}
        /\ \A x \in again' : x \in again \/ \E c \in made : x = c.id
        /\ \A x \in misquoted' : x \in misquoted \/ \E c \in made : x = c.id
    BY <2>1 DEF Taken, made
  <2> QED BY <2>3, <2>4 DEF Typed
<1> QED BY <1>3, <1>4, <1>5 DEF Typed

\* An upsert of one row.
LEMMA UpsertOne ==
  ASSUME NEW table, NEW x, NEW row
  PROVE  LET after == Upsert(table, [y \in {x} |-> row])
         IN  /\ DOMAIN after = DOMAIN table \cup {x}
             /\ after[x] = row
             /\ \A z \in DOMAIN table : z # x => after[z] = table[z]
             /\ after = [z \in DOMAIN after |-> after[z]]
BY DEF Upsert

\* Upserting an edge writes it, trusted or guessed, with its counters reset.
LEMMA UpsertedEdge ==
  ASSUME Typed, NEW e \in MadeEdge, UpsertEdge(e)
  PROVE  /\ DOMAIN edges' = DOMAIN edges \cup {Key(e)} /\ edges'[Key(e)] = Fresh(e)
         /\ \A k \in DOMAIN edges : k # Key(e) => edges'[k] = edges[k]
         /\ edges' \in [DOMAIN edges' -> EdgeRow] /\ DOMAIN edges' \subseteq EdgeKey
         /\ Fresh(e).provenance = e.provenance /\ Fresh(e).cite = e.cite /\ Fresh(e).exposures = 0
<1> DEFINE new == [k \in {Key(e)} |-> Fresh(e)]
<1>1. Key(e) \in EdgeKey /\ Fresh(e) \in EdgeRow
  BY DEF MadeEdge, Key, EdgeKey, Fresh, EdgeRow
<1>2. edges' = Upsert(edges, [k \in {Key(e)} |-> Fresh(e)])
  BY DEF UpsertEdge
<1>3. /\ DOMAIN edges' = DOMAIN edges \cup {Key(e)} /\ edges'[Key(e)] = Fresh(e)
      /\ \A k \in DOMAIN edges : k # Key(e) => edges'[k] = edges[k]
      /\ edges' = [k \in DOMAIN edges' |-> edges'[k]]
  BY <1>2 DEF Upsert
<1>4. \A k \in DOMAIN edges' : edges'[k] \in EdgeRow
  BY <1>1, <1>3 DEF Typed
<1> QED BY <1>1, <1>3, <1>4 DEF Typed, Fresh

\* A citation by the tutor counts on an edge and changes nothing else of it.
LEMMA CitedEdge ==
  ASSUME Typed, NEW k \in Cited, NEW skip \in {0, 1}, Cite(k, skip)
  PROVE  /\ UNCHANGED <<rows, vectors, bundle, torn, present, stage, work, queue, placed, again, misquoted, seen>>
         /\ DOMAIN edges' = DOMAIN edges \cup {k} /\ {k[1], k[3]} \subseteq DOMAIN rows
         /\ \A j \in DOMAIN edges : j # k => edges'[j] = edges[j]
         /\ k \in DOMAIN edges => /\ edges'[k].provenance = edges[k].provenance /\ edges'[k].cite = edges[k].cite
                                  /\ edges'[k].exposures = edges[k].exposures + 1
         /\ k \notin DOMAIN edges => /\ edges'[k].provenance = "inferred" /\ edges'[k].cite = NoFile
                                     /\ edges'[k].exposures = 1
         /\ edges' \in [DOMAIN edges' -> EdgeRow] /\ DOMAIN edges' \subseteq EdgeKey
<1> DEFINE blank == [provenance |-> "inferred", cite |-> NoFile, exposures |-> 0, skips |-> 0]
           row == RowOr(edges, k, blank)
           new == [row EXCEPT !.exposures = @ + 1, !.skips = @ + skip]
<1>1. k \in EdgeKey
  BY CitedType DEF EdgeKey
<1>2. blank \in EdgeRow /\ blank.provenance = "inferred" /\ blank.cite = NoFile /\ blank.exposures = 0
  BY DEF EdgeRow
<1>3. edges' = Upsert(edges, [x \in {k} |-> new])
  BY DEF Cite
<1> HIDE DEF blank
<1>4. row \in EdgeRow /\ (k \in DOMAIN edges => row = edges[k]) /\ (k \notin DOMAIN edges => row = blank)
  BY <1>2 DEF RowOr, Typed
<1> HIDE DEF row
<1>5. /\ new \in EdgeRow /\ new.provenance = row.provenance /\ new.cite = row.cite
      /\ new.exposures = row.exposures + 1
  <2> DEFINE shown == row.exposures + 1
             skipped == row.skips + skip
  <2>1. shown \in Nat /\ skipped \in Nat
    BY <1>4 DEF EdgeRow
  <2>2. new = [row EXCEPT !.exposures = shown, !.skips = skipped]
    BY <1>4 DEF EdgeRow
  <2> HIDE DEF shown, skipped, new
  <2>3. /\ new \in EdgeRow /\ new.provenance = row.provenance /\ new.cite = row.cite
        /\ new.exposures = shown
    BY <1>4, <2>1, <2>2 DEF EdgeRow
  <2> QED BY <2>3 DEF shown
<1> HIDE DEF new
<1>6. /\ DOMAIN edges' = DOMAIN edges \cup {k} /\ edges'[k] = new
      /\ \A j \in DOMAIN edges : j # k => edges'[j] = edges[j]
      /\ edges' = [j \in DOMAIN edges' |-> edges'[j]]
  BY <1>3 DEF Upsert
<1>7. \A j \in DOMAIN edges' : edges'[j] \in EdgeRow
  BY <1>5, <1>6 DEF Typed
<1>8. /\ UNCHANGED <<rows, vectors, bundle, torn, present, stage, work, queue, placed, again, misquoted, seen>>
      /\ {k[1], k[3]} \subseteq DOMAIN rows
  BY DEF Cite, ghosts
<1>9. edges' \in [DOMAIN edges' -> EdgeRow] /\ DOMAIN edges' \subseteq EdgeKey
  BY <1>1, <1>6, <1>7 DEF Typed
<1>10. 0 + 1 = 1
  OBVIOUS
<1> QED BY <1>2, <1>4, <1>5, <1>6, <1>8, <1>9, <1>10

\* Every step keeps the tables and the queue of their types.
LEMMA TypedStep ==
  ASSUME Typed, Staged, Threads, [Next]_vars
  PROVE  Typed'
<1>1. /\ work' \in [SourceIds -> Thread]
      /\ placed' \subseteq ConceptIds \X SourceIds \X Nat
      /\ again' \cup misquoted' \subseteq ConceptIds
  BY WorkTyped
<1> DEFINE Tables == /\ rows' \in [DOMAIN rows' -> Row] /\ DOMAIN rows' \subseteq ConceptIds
                     /\ vectors' \in [DOMAIN vectors' -> Looks] /\ DOMAIN vectors' \subseteq DOMAIN rows'
                     /\ bundle' \in [DOMAIN bundle' -> Document]
                     /\ edges' \in [DOMAIN edges' -> EdgeRow] /\ DOMAIN edges' \subseteq EdgeKey
           Rest == queue' \subseteq MadeEdge /\ present' \subseteq SourceIds /\ torn' \subseteq ConceptIds
<1>2. UNCHANGED <<rows, vectors, bundle, edges>> => Tables
  BY DEF Typed
<1>3. \A i \in SourceIds : Halfway(i) \subseteq ConceptIds
  <2> TAKE i \in SourceIds
  <2> DEFINE s == Head(work[i].todo)
  <2>1. Halfway(i) # {} => i \in Running /\ Halfway(i) = {s.arg.id} /\ s.op \in {"row", "vector"}
    BY DEF Halfway
  <2>2. i \in Running => s \in Statement
    BY ScriptTail DEF Running, Threads, ThreadHolds
  <2> HIDE DEF s
  <2>3. s \in Statement /\ s.op \in {"row", "vector"} => s.arg.id \in ConceptIds
    BY DEF Statement, Found
  <2> QED BY <2>1, <2>2, <2>3
<1>4. CASE StartBuild \/ EndCommand \/ UNCHANGED vars \/ \E i \in SourceIds : Ingest(i) \/ Procure(i)
  <2>1. UNCHANGED <<rows, vectors, bundle, edges, queue, torn>> /\ present' \subseteq SourceIds
    BY <1>4 DEF StartBuild, EndCommand, Ingest, Procure, vars, store, Typed
  <2> QED BY <2>1, <1>1, <1>2 DEF Typed
<1>5. CASE Stitch
  <2>1. queue' \subseteq MadeEdge
    BY <1>5, StitchedEdges DEF Stitch
  <2> QED BY <2>1, <1>1, <1>2, <1>5 DEF Typed, Stitch, store
<1>6. CASE LinkIsolated
  <2>1. queue' \subseteq MadeEdge
    BY <1>6, LinkQueue
  <2>2. UNCHANGED <<rows, vectors, bundle, edges, torn, present>>
    BY <1>6 DEF LinkIsolated, store
  <2> QED BY <2>1, <2>2, <1>1, <1>2 DEF Typed
<1>7. CASE Abort
  <2>1. UNCHANGED <<rows, vectors, bundle, edges, present>> /\ queue' = {} /\ torn' \subseteq ConceptIds
    BY <1>3, <1>7 DEF Abort, Typed
  <2> QED BY <2>1, <1>1, <1>2 DEF Typed
<1>8. ASSUME NEW i \in SourceIds, SourceFails(i) PROVE Typed'
  <2>1. UNCHANGED <<rows, vectors, bundle, edges, present, queue>> /\ torn' \subseteq ConceptIds
    BY <1>3, <1>8 DEF SourceFails, Typed
  <2> QED BY <2>1, <1>1, <1>2 DEF Typed
<1>9. ASSUME NEW i \in SourceIds, WriteProse(i) PROVE Typed'
  <2>1. PICK c : /\ Executes(i, "prose", c) /\ bundle' = Upsert(bundle, [x \in {c.id} |-> Doc(c)])
                 /\ torn' = IF c.id \in HalfwayBut(i) THEN torn \cup {c.id} ELSE torn \ {c.id}
                 /\ UNCHANGED <<rows, vectors, edges>>
    BY <1>9 DEF WriteProse
  <2>2. c.id \in ConceptIds /\ Doc(c) \in Document
    <3>1. Executes(i, "prose", c)
      BY <2>1
    <3> QED BY <3>1, Execution
  <2> DEFINE doc == Doc(c)
  <2> HIDE DEF doc
  <2>3. bundle' = Upsert(bundle, [x \in {c.id} |-> doc]) /\ doc \in Document
    BY <2>1, <2>2 DEF doc
  <2>4. bundle' \in [DOMAIN bundle' -> Document]
    BY <2>3 DEF Upsert, Typed
  <2>5. UNCHANGED <<present, queue>> /\ torn' \subseteq ConceptIds
    BY <2>1, <2>2 DEF Executes, Typed
  <2> QED BY <2>1, <2>4, <2>5, <1>1 DEF Typed
<1>10. ASSUME NEW i \in SourceIds, WriteRow(i) PROVE Typed'
  <2>1. PICK c : /\ Executes(i, "row", c) /\ rows' = Upsert(rows, [x \in {c.id} |-> [refs |-> c.refs, hash |-> Doc(c)]])
                 /\ UNCHANGED <<vectors, bundle, edges, torn>>
    BY <1>10 DEF WriteRow
  <2>2. c.id \in ConceptIds /\ Doc(c) \in Document /\ c.refs \in Seq(FileRef)
    <3>1. Executes(i, "row", c)
      BY <2>1
    <3>2. c \in Found /\ c.id \in ConceptIds /\ Doc(c) \in Document
      BY <3>1, Execution
    <3> QED BY <3>2 DEF Found
  <2> DEFINE row == [refs |-> c.refs, hash |-> Doc(c)]
  <2>3. row \in Row
    BY <2>2 DEF Row
  <2> HIDE DEF row
  <2>4. rows' = Upsert(rows, [x \in {c.id} |-> row])
    BY <2>1 DEF row
  <2>5. rows' \in [DOMAIN rows' -> Row] /\ DOMAIN rows' \subseteq ConceptIds /\ DOMAIN rows \subseteq DOMAIN rows'
    BY <2>2, <2>3, <2>4 DEF Upsert, Typed
  <2>6. UNCHANGED <<present, queue>>
    BY <2>1 DEF Executes
  <2> QED BY <2>1, <2>5, <2>6, <1>1 DEF Typed
<1>11. ASSUME NEW i \in SourceIds, WriteVector(i) PROVE Typed'
  <2>1. PICK c : /\ Executes(i, "vector", c) /\ vectors' = Upsert(vectors, [x \in {c.id} \cap DOMAIN rows |-> c.look])
                 /\ UNCHANGED <<rows, bundle, edges, torn>>
    BY <1>11 DEF WriteVector
  <2>2. c.look \in Looks
    <3>1. Executes(i, "vector", c)
      BY <2>1
    <3>2. c \in Found
      BY <3>1, Execution
    <3> QED BY <3>2 DEF Found
  <2>3. vectors' \in [DOMAIN vectors' -> Looks] /\ DOMAIN vectors' \subseteq DOMAIN rows
    BY <2>1, <2>2 DEF Upsert, Typed
  <2>4. UNCHANGED <<present, queue>>
    BY <2>1 DEF Executes
  <2> QED BY <2>1, <2>3, <2>4, <1>1 DEF Typed
<1>12. ASSUME NEW i \in SourceIds, WriteEdge(i) PROVE Typed'
  <2>1. PICK e : Executes(i, "edge", e) /\ UpsertEdge(e) /\ UNCHANGED <<rows, vectors, bundle, torn>>
    BY <1>12 DEF WriteEdge
  <2>2. edges' \in [DOMAIN edges' -> EdgeRow] /\ DOMAIN edges' \subseteq EdgeKey
    BY <2>1, Execution, UpsertedEdge
  <2>3. UNCHANGED <<present, queue>>
    BY <2>1 DEF Executes
  <2> QED BY <2>1, <2>2, <2>3, <1>1 DEF Typed
<1>13. ASSUME NEW e \in queue, UpsertQueued(e) PROVE Typed'
  <2>1. edges' \in [DOMAIN edges' -> EdgeRow] /\ DOMAIN edges' \subseteq EdgeKey
    BY <1>13, UpsertedEdge DEF UpsertQueued, Typed
  <2>2. UNCHANGED <<rows, vectors, bundle, torn, present>> /\ queue' \subseteq queue
    BY <1>13 DEF UpsertQueued
  <2> QED BY <2>1, <2>2, <1>1 DEF Typed
<1>14. ASSUME NEW k \in Cited, NEW skip \in {0, 1}, Cite(k, skip) PROVE Typed'
  <2>1. /\ UNCHANGED <<rows, vectors, bundle, torn, present, queue>>
        /\ edges' \in [DOMAIN edges' -> EdgeRow] /\ DOMAIN edges' \subseteq EdgeKey
    BY <1>14, CitedEdge
  <2> QED BY <2>1, <1>1 DEF Typed
<1> QED BY <1>4, <1>5, <1>6, <1>7, <1>8, <1>9, <1>10, <1>11, <1>12, <1>13, <1>14 DEF Next

\* Every step leaves each stage with the work that belongs to it.
LEMMA StagedStep ==
  ASSUME Typed, Staged, Threads, [Next]_vars
  PROVE  Staged'
<1> DEFINE Bare(t) == t.phase # "running" => t.todo = <<>> /\ t.result = <<>>
<1>1. \A i \in SourceIds : Bare(work[i])
  BY DEF Staged
<1>2. ASSUME NEW i \in SourceIds PROVE Bare(work'[i])
  <2>1. work'[i] = work[i] => Bare(work'[i])
    BY <1>1
  <2>2. Empty(work'[i]) => Bare(work'[i])
    BY DEF Empty
  <2>3. Advances(i) => Bare(work'[i])
    <3>1. Advances(i) => work'[i].phase = "running"
      BY AdvancedThread
    <3> QED BY <3>1
  <2>4. ASSUME NEW set, NEW gaps, Taken(i, set, gaps) PROVE Bare(work'[i])
    <3>1. work'[i].phase = "running"
      BY <2>4, TakenThread
    <3> QED BY <3>1
  <2> HIDE DEF Bare
  <2> QED BY <2>1, <2>2, <2>3, <2>4, ThreadsMove DEF Executed
<1> DEFINE Rest == /\ stage' \in {"idle", "ingest", "stitch", "link"}
                   /\ stage' \in {"idle", "link"} => work' = Idle
                   /\ stage' \in {"idle", "ingest"} => queue' = {}
                   /\ stage' = "stitch" => \A i \in SourceIds : Finished(i)'
<1>3. Rest => Staged'
  BY <1>2 DEF Staged
<1>4. UNCHANGED work => \A i \in SourceIds : Finished(i)' <=> Finished(i)
  BY DEF Finished
<1>5. CASE StartBuild
  BY <1>3, <1>5 DEF StartBuild, Staged
<1>6. CASE Stitch
  BY <1>3, <1>4, <1>6 DEF Stitch, Staged
<1>7. CASE LinkIsolated \/ EndCommand \/ Abort
  BY <1>3, <1>7 DEF LinkIsolated, EndCommand, Abort, Staged
<1>8. ASSUME NEW i \in SourceIds, Ingest(i) \/ SourceFails(i) PROVE Staged'
  BY <1>3, <1>8 DEF Ingest, SourceFails, Staged
<1>9. ASSUME NEW i \in SourceIds, WriteProse(i) \/ WriteRow(i) \/ WriteVector(i) \/ WriteEdge(i) PROVE Staged'
  BY <1>3, <1>9 DEF WriteProse, WriteRow, WriteVector, WriteEdge, Executes, Staged
<1>10. ASSUME NEW e \in queue, UpsertQueued(e) PROVE Staged'
  BY <1>3, <1>4, <1>10 DEF UpsertQueued, Staged
<1>11. CASE UNCHANGED vars \/ (\E i \in SourceIds : Procure(i)) \/ (\E k \in Cited, skip \in {0, 1} : Cite(k, skip))
  <2>1. UNCHANGED <<stage, work, queue>>
    BY <1>11 DEF vars, Procure, Cite
  <2> QED BY <1>3, <1>4, <2>1 DEF Staged
<1> QED BY <1>5, <1>6, <1>7, <1>8, <1>9, <1>10, <1>11 DEF Next

\* Every step leaves every thread with the statements that its results need.
LEMMA ThreadsStep ==
  ASSUME Typed, Staged, Threads, [Next]_vars
  PROVE  Threads'
<1>1. /\ placed \subseteq placed' /\ misquoted \subseteq misquoted' /\ DOMAIN rows \subseteq DOMAIN rows'
  BY Growth
<1>2. ASSUME NEW i \in SourceIds PROVE ThreadHolds(i)'
  <2>1. ThreadHolds(i)
    BY DEF Threads
  <2>2. CASE work'[i] = work[i]
    BY <1>1, <2>1, <2>2 DEF ThreadHolds, Todo, Made
  <2>3. CASE Empty(work'[i])
    <3>1. Todo(i)' = {} /\ Made(i)' = {}
      <4>1. ToSet(<<>>) = {}
        BY DEF ToSet
      <4> QED BY <4>1, <2>3 DEF Empty, Todo, Made
    <3> QED BY <2>3, <3>1, EmptyScript DEF ThreadHolds, UniqueIds, Empty
  <2>4. CASE Executed(i)
    <3>1. /\ Script(work'[i].todo) /\ Made(i)' = Made(i)
          /\ Todo(i) = Todo(i)' \cup {Head(work[i].todo)}
      BY <2>4, AdvancedThread DEF Executed
    <3>2. \A c \in Made(i) : [op |-> "row", arg |-> c] = Head(work[i].todo) => c.id \in DOMAIN rows'
      <4> SUFFICES ASSUME NEW c \in Made(i), [op |-> "row", arg |-> c] = Head(work[i].todo) PROVE c.id \in DOMAIN rows'
        OBVIOUS
      <4>1. Head(work[i].todo).op = "row" /\ Head(work[i].todo).arg = c
        OBVIOUS
      <4> QED BY <4>1, <2>4 DEF Executed
    <3>3. ThreadHolds(i)'
      <4>1. UniqueIds(Made(i)') /\ Script(work'[i].todo)
        BY <2>1, <3>1 DEF ThreadHolds
      <4>2. \A c \in Made(i)' : /\ Grounded(c.refs, {Sources[i].file})
                                /\ FirstFile(c.refs) \in Inputs \/ c.id \in misquoted'
                                /\ <<c.id, i, FirstLine(c)>> \in placed'
        BY <1>1, <2>1, <3>1 DEF ThreadHolds
      <4>3. \A c \in Made(i)' : c.id \in DOMAIN rows' \/ [op |-> "row", arg |-> c] \in Todo(i)'
        BY <1>1, <2>1, <3>1, <3>2 DEF ThreadHolds
      <4>4. \A s \in Todo(i)' :
              IF s.op = "edge" THEN s.arg.cite = Sources[i].file /\ {s.arg.src, s.arg.dst} \subseteq Ids(Made(i)')
                               ELSE s.arg \in Made(i)'
        BY <2>1, <3>1 DEF ThreadHolds
      <4> QED BY <4>1, <4>2, <4>3, <4>4 DEF ThreadHolds, UniqueIds, Ids
    <3> QED BY <3>3
  <2>5. ASSUME NEW set, NEW gaps, Taken(i, set, gaps) PROVE ThreadHolds(i)'
    <3> DEFINE made == ToSet(set.concepts)
               es == ToSet(set.edges)
               file == Sources[i].file
    <3>1. /\ Script(work'[i].todo) /\ Made(i)' = made /\ made \in SUBSET Found
          /\ \A s \in Todo(i)' : IF s.op = "edge" THEN s.arg \in es ELSE s.arg \in Made(i)'
          /\ \A c \in Made(i)' : [op |-> "row", arg |-> c] \in Todo(i)'
      BY <2>5, TakenThread
    <3>2. /\ UniqueIds(made) /\ \A c \in made : Grounded(c.refs, {file})
          /\ \A e \in es : e.cite = file /\ {e.src, e.dst} \subseteq Ids(made)
      BY <2>5 DEF Taken, Yields
    <3>3. \A c \in made : <<c.id, i, FirstLine(c)>> \in placed' /\ (FirstFile(c.refs) \in Inputs \/ c.id \in misquoted')
      BY <2>5 DEF Taken
    <3> HIDE DEF made, es, file
    <3>4. \A c \in Made(i)' : /\ Grounded(c.refs, {file})
                              /\ FirstFile(c.refs) \in Inputs \/ c.id \in misquoted'
                              /\ <<c.id, i, FirstLine(c)>> \in placed'
                              /\ c.id \in DOMAIN rows' \/ [op |-> "row", arg |-> c] \in Todo(i)'
      BY <3>1, <3>2, <3>3
    <3>5. \A s \in Todo(i)' : IF s.op = "edge" THEN s.arg.cite = file /\ {s.arg.src, s.arg.dst} \subseteq Ids(Made(i)')
                                               ELSE s.arg \in Made(i)'
      BY <3>1, <3>2
    <3> QED BY <3>1, <3>2, <3>4, <3>5 DEF ThreadHolds, UniqueIds, Ids, file
  <2> QED BY <2>2, <2>3, <2>4, <2>5, ThreadsMove
<1> QED BY <1>2 DEF Threads

---------------------------------------------------------------------------
\* The linker

\* What the linker may write stays apart from what it saw.
LEMMA SparedStep ==
  ASSUME Typed, Staged, Threads, Spared, [Next]_vars
  PROVE  Spared'
<1> DEFINE Holds == /\ seen \subseteq DOMAIN edges
                    /\ \A e \in queue : e.provenance = "inferred" /\ Key(e) \notin seen
                    /\ \A k \in DOMAIN edges : edges[k].provenance = "spine" => k \in seen
<1>1. Spared <=> (stage = "link" => Holds)
  BY DEF Spared
<1>2. Spared' <=> (stage' = "link" => Holds')
  BY DEF Spared
<1>3. CASE LinkIsolated
  <2>1. UNCHANGED edges /\ seen' = DOMAIN edges
    BY <1>3 DEF LinkIsolated, store
  <2>2. ASSUME NEW e \in queue' PROVE e.provenance = "inferred" /\ Key(e) \notin DOMAIN edges
    <3>1. e.provenance = "inferred" /\ \E c \in Isolated : c \in {e.src, e.dst}
      BY <1>3, LinkQueue
    <3>2. Key(e)[1] = e.src /\ Key(e)[3] = e.dst
      BY DEF Key
    <3> QED BY <3>1, <3>2, GroupsAreIsolated
  <2> QED BY <1>2, <2>1, <2>2
<1>4. CASE StartBuild \/ Stitch \/ EndCommand \/ Abort \/ \E i \in SourceIds : Ingest(i) \/ SourceFails(i)
  BY <1>2, <1>4 DEF StartBuild, Stitch, EndCommand, Abort, Ingest, SourceFails
<1>5. CASE \E i \in SourceIds : WriteProse(i) \/ WriteRow(i) \/ WriteVector(i) \/ WriteEdge(i)
  BY <1>2, <1>5 DEF WriteProse, WriteRow, WriteVector, WriteEdge, Executes
<1>6. ASSUME NEW e \in queue, UpsertQueued(e), stage' = "link" PROVE Holds'
  <2>1. UNCHANGED seen /\ queue' \subseteq queue /\ stage = "link" /\ UpsertEdge(e)
    BY <1>6 DEF UpsertQueued, ghosts
  <2>2. e \in MadeEdge /\ Holds
    BY <1>1, <2>1 DEF Typed
  <2>3. /\ DOMAIN edges' = DOMAIN edges \cup {Key(e)} /\ edges'[Key(e)].provenance = e.provenance
        /\ \A k \in DOMAIN edges : k # Key(e) => edges'[k] = edges[k]
    BY <2>1, <2>2, UpsertedEdge
  <2>4. e.provenance = "inferred"
    BY <2>2
  <2> QED BY <2>1, <2>2, <2>3, <2>4
<1>7. ASSUME NEW k \in Cited, NEW skip \in {0, 1}, Cite(k, skip), stage' = "link" PROVE Holds'
  <2>1. UNCHANGED <<seen, queue, stage>>
    BY <1>7, CitedEdge
  <2>2. Holds
    BY <1>1, <1>7, <2>1
  <2>3. /\ DOMAIN edges' = DOMAIN edges \cup {k}
        /\ \A j \in DOMAIN edges : j # k => edges'[j] = edges[j]
        /\ k \in DOMAIN edges => edges'[k].provenance = edges[k].provenance
        /\ k \notin DOMAIN edges => edges'[k].provenance = "inferred"
    BY <1>7, CitedEdge
  <2> QED BY <2>1, <2>2, <2>3
<1>8. CASE UNCHANGED vars \/ \E i \in SourceIds : Procure(i)
  <2>1. UNCHANGED <<stage, edges, queue, seen>>
    BY <1>8 DEF vars, Procure, store, ghosts
  <2> QED BY <2>1 DEF Spared
<1> QED BY <1>2, <1>3, <1>4, <1>5, <1>6, <1>7, <1>8 DEF Next

\* In the linker's stage no step changes an edge that it saw but to count an
\* exposure on it.
LEMMA LinkAdds ==
  ASSUME Typed, Staged, Threads, Spared, [Next]_vars
  PROVE  [stage = "link" =>
            \A k \in seen :
              /\ edges'[k].provenance = edges[k].provenance /\ edges'[k].cite = edges[k].cite
              /\ edges'[k].exposures >= edges[k].exposures]_vars
<1> SUFFICES ASSUME stage = "link", NEW k \in seen
             PROVE  /\ edges'[k].provenance = edges[k].provenance /\ edges'[k].cite = edges[k].cite
                    /\ edges'[k].exposures >= edges[k].exposures
  OBVIOUS
<1>1. k \in DOMAIN edges /\ edges[k] \in EdgeRow /\ \A e \in queue : Key(e) # k
  BY DEF Spared, Typed
<1>2. edges[k].exposures \in Nat
  BY <1>1 DEF EdgeRow
<1>3. edges'[k] = edges[k] => edges'[k].exposures >= edges[k].exposures
  BY <1>2
<1>4. ASSUME NEW e \in queue, UpsertQueued(e) PROVE edges'[k] = edges[k]
  <2>1. UpsertEdge(e) /\ e \in MadeEdge
    BY <1>4 DEF UpsertQueued, Typed
  <2> QED BY <2>1, <1>1, UpsertedEdge
<1>5. ASSUME NEW j \in Cited, NEW skip \in {0, 1}, Cite(j, skip), edges'[k] # edges[k]
      PROVE  /\ edges'[k].provenance = edges[k].provenance /\ edges'[k].cite = edges[k].cite
             /\ edges'[k].exposures = edges[k].exposures + 1
  <2>1. j = k
    BY <1>1, <1>5, CitedEdge
  <2> QED BY <1>1, <1>5, <2>1, CitedEdge
<1>6. CASE UNCHANGED edges
  BY <1>3, <1>6
<1>7. UNCHANGED edges \/ (\E e \in queue : UpsertQueued(e)) \/ \E j \in Cited, skip \in {0, 1} : Cite(j, skip)
  BY DEF Next, StartBuild, Stitch, LinkIsolated, EndCommand, Abort, Procure, Ingest, SourceFails,
         WriteProse, WriteRow, WriteVector, WriteEdge, Executes, vars, store
<1> QED BY <1>2, <1>3, <1>4, <1>5, <1>6, <1>7

---------------------------------------------------------------------------
\* Rows, documents and vectors

\* What a thread has written half, by its next statement.
LEMMA HalfwayIs ==
  ASSUME Typed, Threads, NEW i \in SourceIds
  PROVE  /\ i \in Running => work[i].todo # <<>> /\ Head(work[i].todo) \in Statement
         /\ i \notin Running => Halfway(i) = {}
         /\ i \in Running => Halfway(i) = IF Head(work[i].todo).op \in {"row", "vector"}
                                          THEN {Head(work[i].todo).arg.id} ELSE {}
BY ScriptTail DEF Threads, ThreadHolds, Running, Halfway

\* A thread that goes on to its next statement: the row comes after the prose,
\* and the vector after the row.
LEMMA NextStatement ==
  ASSUME Typed, Threads, NEW i \in SourceIds, Advances(i)
  PROVE  /\ Head(work[i].todo).op = "prose" =>
              i \in Running' /\ Head(work'[i].todo) = [op |-> "row", arg |-> Head(work[i].todo).arg]
         /\ Head(work[i].todo).op = "row" =>
              i \in Running' /\ Head(work'[i].todo) = [op |-> "vector", arg |-> Head(work[i].todo).arg]
         /\ Head(work[i].todo).op \in {"vector", "edge"} =>
              (i \in Running' => Head(work'[i].todo).op \in {"prose", "edge"})
<1>1. /\ work'[i].phase = "running" /\ work'[i].todo = Tail(work[i].todo)
      /\ Script(work[i].todo) /\ work[i].todo # <<>>
  BY AdvancedThread DEF Threads, ThreadHolds, Advances, Running
<1>2. i \in Running' <=> work'[i].todo # <<>>
  BY <1>1 DEF Running
<1> DEFINE h == Head(work[i].todo)
           t == Tail(work[i].todo)
<1>3. /\ h.op = "prose" => t # <<>> /\ Head(t) = [op |-> "row", arg |-> h.arg]
      /\ h.op = "row" => t # <<>> /\ Head(t) = [op |-> "vector", arg |-> h.arg]
      /\ h.op = "vector" => (t # <<>> => Head(t).op \in {"prose", "edge"})
      /\ h.op = "edge" => \A s \in ToSet(work[i].todo) : s.op = "edge"
      /\ Script(t) /\ ToSet(work[i].todo) = ToSet(t) \cup {h}
  BY <1>1, ScriptTail
<1>4. t # <<>> => Head(t) \in ToSet(t)
  BY <1>3, ScriptTail
<1>5. h.op = "edge" /\ t # <<>> => Head(t).op = "edge"
  BY <1>3, <1>4
<1> HIDE DEF h, t
<1>6. work'[i].todo = t
  BY <1>1 DEF t
<1> QED BY <1>2, <1>3, <1>5, <1>6 DEF h

\* A thread that keeps its statements is half way where it was.
LEMMA SameHalfway ==
  ASSUME NEW i \in SourceIds, work'[i] = work[i]
  PROVE  /\ i \in Running' <=> i \in Running
         /\ Halfway(i)' = Halfway(i)
<1>1. i \in Running' <=> i \in Running
  BY DEF Running
<1> QED BY <1>1 DEF Halfway

\* A step that writes nothing keeps what is known of half-written concepts, if
\* the threads that lose their statements leave what they wrote half as torn.
LEMMA QuietHalves ==
  ASSUME Typed, Threads, Halves, RowTellsContent,
         UNCHANGED <<rows, vectors, bundle>>, torn \subseteq torn',
         \A i \in SourceIds :
           \/ work'[i] = work[i]
           \/ Halfway(i) \subseteq torn' /\ (i \in Running' => Head(work'[i].todo).op \in {"prose", "edge"})
  PROVE  Halves' /\ RowTellsContent'
<1>1. ASSUME NEW i \in SourceIds
      PROVE  HalfHolds(i)' /\ Halfway(i)' \subseteq Halfway(i) /\ Halfway(i) \subseteq Halfway(i)' \cup torn'
  <2>1. CASE work'[i] = work[i]
    <3>1. HalfHolds(i)
      BY DEF Halves
    <3>2. (i \in Running' <=> i \in Running) /\ Halfway(i)' = Halfway(i)
      BY <2>1, SameHalfway
    <3> QED BY <2>1, <3>1, <3>2 DEF HalfHolds
  <2>2. CASE Halfway(i) \subseteq torn' /\ (i \in Running' => Head(work'[i].todo).op \in {"prose", "edge"})
    <3>1. Halfway(i)' = {}
      BY <2>2 DEF Halfway
    <3>2. HalfHolds(i)'
      BY <2>2 DEF HalfHolds
    <3> QED BY <2>2, <3>1, <3>2
  <2> QED BY <2>1, <2>2
<1>2. \A i, j \in SourceIds : i # j => Halfway(i)' \cap Halfway(j)' \subseteq torn'
  BY <1>1 DEF Halves
<1>3. torn \cup UNION {Halfway(i) : i \in SourceIds} \subseteq torn' \cup UNION {Halfway(i)' : i \in SourceIds}
  BY <1>1
<1>4. RowTellsContent'
  BY <1>3 DEF RowTellsContent
<1> QED BY <1>1, <1>2, <1>4 DEF Halves

\* The statements of one thread that write prose, row or vector.
LEMMA WrittenHalves ==
  ASSUME Typed, Staged, Threads, Halves, RowTellsContent, NEW i \in SourceIds,
         WriteProse(i) \/ WriteRow(i) \/ WriteVector(i)
  PROVE  Halves' /\ RowTellsContent'
<1> DEFINE s == Head(work[i].todo)
           c == s.arg
           x == c.id
           All == UNION {Halfway(j) : j \in SourceIds}
<1>1. PICK op \in {"prose", "row", "vector"} :
        /\ Advances(i) /\ s.op = op /\ i \in Running
        /\ op = "prose" => /\ bundle' = Upsert(bundle, [y \in {x} |-> Doc(c)]) /\ UNCHANGED <<rows, vectors>>
                           /\ torn' = IF x \in HalfwayBut(i) THEN torn \cup {x} ELSE torn \ {x}
        /\ op = "row" => /\ rows' = Upsert(rows, [y \in {x} |-> [refs |-> c.refs, hash |-> Doc(c)]])
                         /\ UNCHANGED <<bundle, vectors, torn>>
        /\ op = "vector" => /\ vectors' = Upsert(vectors, [y \in {x} \cap DOMAIN rows |-> c.look])
                            /\ UNCHANGED <<rows, bundle, torn>>
  <2>1. ASSUME NEW op \in {"prose", "row", "vector", "edge"}, NEW d, Executes(i, op, d)
        PROVE  Advances(i) /\ s.op = op /\ c = d /\ i \in Running
    <3>1. Advances(i) /\ Head(work[i].todo) = [op |-> op, arg |-> d]
      BY <2>1, Execution
    <3> QED BY <3>1 DEF Advances
  <2>2. CASE WriteProse(i)
    BY <2>1, <2>2 DEF WriteProse
  <2>3. CASE WriteRow(i)
    BY <2>1, <2>3 DEF WriteRow
  <2>4. CASE WriteVector(i)
    BY <2>1, <2>4 DEF WriteVector
  <2> QED BY <2>2, <2>3, <2>4
<1>2. /\ op = "prose" => i \in Running' /\ Head(work'[i].todo) = [op |-> "row", arg |-> c]
      /\ op = "row" => i \in Running' /\ Head(work'[i].todo) = [op |-> "vector", arg |-> c]
      /\ op = "vector" => (i \in Running' => Head(work'[i].todo).op \in {"prose", "edge"})
  BY <1>1, NextStatement
<1>3. Halfway(i) = IF op = "prose" THEN {} ELSE {x}
  BY <1>1, HalfwayIs
<1>4. \A y : [op |-> y, arg |-> c].op = y /\ [op |-> y, arg |-> c].arg = c
  OBVIOUS
<1>5. Halfway(i)' = IF op = "vector" THEN {} ELSE {x}
  BY <1>1, <1>2, <1>4 DEF Halfway
<1>6. \A j \in SourceIds : j # i => /\ work'[j] = work[j] /\ (j \in Running' <=> j \in Running)
                                    /\ Halfway(j)' = Halfway(j)
  BY <1>1, SameHalfway DEF Advances
<1>7. HalfHolds(i) /\ \A j \in SourceIds : HalfHolds(j)
  BY DEF Halves
<1>8. \A j \in SourceIds : j # i /\ x \in Halfway(j) => x \in torn'
  <2> SUFFICES ASSUME NEW j \in SourceIds, j # i, x \in Halfway(j) PROVE x \in torn'
    OBVIOUS
  <2>1. CASE op = "prose"
    <3>1. x \in HalfwayBut(i)
      BY DEF HalfwayBut
    <3> QED BY <1>1, <2>1, <3>1
  <2>2. CASE op # "prose"
    <3>1. x \in torn
      BY <1>3, <2>2 DEF Halves
    <3> QED BY <1>1, <2>2, <3>1
  <2> QED BY <2>1, <2>2
<1>9. \A y : y # x => (y \in torn' <=> y \in torn)
  BY <1>1
<1>10. /\ DOMAIN bundle \subseteq DOMAIN bundle' /\ DOMAIN rows \subseteq DOMAIN rows' /\ DOMAIN vectors \subseteq DOMAIN vectors'
       /\ \A y : y # x => /\ y \in DOMAIN bundle => bundle'[y] = bundle[y]
                          /\ (y \in DOMAIN rows' <=> y \in DOMAIN rows) /\ (y \in DOMAIN rows => rows'[y] = rows[y])
                          /\ y \in DOMAIN vectors => vectors'[y] = vectors[y]
  <2>1. CASE op = "prose"
    BY <1>1, <2>1 DEF Upsert
  <2>2. CASE op = "row"
    BY <1>1, <2>2 DEF Upsert
  <2>3. CASE op = "vector"
    BY <1>1, <2>3 DEF Upsert
  <2> QED BY <1>1, <2>1, <2>2, <2>3
<1>11. op = "row" => x \in DOMAIN bundle /\ (x \in torn \/ bundle[x] = Doc(c))
  BY <1>1, <1>7 DEF HalfHolds
<1>12. op = "vector" => x \in DOMAIN rows /\ (x \in torn \/ (bundle[x] = Doc(c) /\ rows[x].hash = Doc(c)))
  BY <1>1, <1>7 DEF HalfHolds
<1>13. op = "prose" => x \in DOMAIN bundle' /\ bundle'[x] = Doc(c)
  BY <1>1 DEF Upsert
<1>14. op = "row" => x \in DOMAIN rows' /\ rows'[x].hash = Doc(c) /\ UNCHANGED <<bundle, torn>>
  BY <1>1 DEF Upsert
<1>15. op = "vector" => x \in DOMAIN vectors' /\ vectors'[x] = c.look /\ UNCHANGED <<bundle, rows, torn>>
  <2> SUFFICES ASSUME op = "vector"
               PROVE  x \in DOMAIN vectors' /\ vectors'[x] = c.look /\ UNCHANGED <<bundle, rows, torn>>
    OBVIOUS
  <2>1. vectors' = Upsert(vectors, [y \in {x} \cap DOMAIN rows |-> c.look]) /\ UNCHANGED <<bundle, rows, torn>>
    BY <1>1
  <2>2. x \in {x} \cap DOMAIN rows
    BY <1>12
  <2> HIDE DEF x
  <2> QED BY <2>1, <2>2 DEF Upsert
<1>16. HalfHolds(i)'
  BY <1>1, <1>2, <1>4, <1>11, <1>13, <1>14 DEF HalfHolds
<1>17. ASSUME NEW j \in SourceIds, j # i PROVE HalfHolds(j)'
  <2> SUFFICES ASSUME j \in Running PROVE HalfHolds(j)'
    BY <1>6, <1>17 DEF HalfHolds
  <2> DEFINE r == Head(work[j].todo)
             y == r.arg.id
  <2>1. /\ r.op = "row" => y \in DOMAIN bundle /\ (y \in torn \/ bundle[y] = Doc(r.arg))
        /\ r.op = "vector" => y \in DOMAIN rows /\ (y \in torn \/ (bundle[y] = Doc(r.arg) /\ rows[y].hash = Doc(r.arg)))
    BY <1>7 DEF HalfHolds
  <2>2. r.op \in {"row", "vector"} => y \in Halfway(j)
    BY HalfwayIs
  <2>3. r.op = "vector" => y \in DOMAIN bundle
    BY <2>1 DEF RowTellsContent
  <2> HIDE DEF x, y
  <2>4. r.op \in {"row", "vector"} /\ y = x => y \in torn'
    BY <1>8, <1>17, <2>2
  <2>5. Head(work'[j].todo) = r
    BY <1>6, <1>17
  <2>6. /\ r.op = "row" => y \in DOMAIN bundle' /\ (y \in torn' \/ bundle'[y] = Doc(r.arg))
        /\ r.op = "vector" => y \in DOMAIN rows' /\ (y \in torn' \/ (bundle'[y] = Doc(r.arg) /\ rows'[y].hash = Doc(r.arg)))
    BY <1>9, <1>10, <2>1, <2>3, <2>4
  <2> QED BY <2>5, <2>6 DEF HalfHolds, y
<1>18. \A j, k \in SourceIds : j # k => Halfway(j)' \cap Halfway(k)' \subseteq torn'
  <2> SUFFICES ASSUME NEW j \in SourceIds, NEW k \in SourceIds, j # k, NEW y \in Halfway(j)' \cap Halfway(k)' PROVE y \in torn'
    OBVIOUS
  <2>1. CASE j = i \/ k = i
    BY <1>5, <1>6, <1>8, <2>1
  <2>2. CASE j # i /\ k # i
    <3>1. y \in torn /\ y \in Halfway(j)
      BY <1>6, <2>2 DEF Halves
    <3> QED BY <1>8, <1>9, <2>2, <3>1
  <2> QED BY <2>1, <2>2
<1>19. DOMAIN rows' \subseteq DOMAIN bundle'
  <2>1. ASSUME NEW y \in DOMAIN rows', y # x PROVE y \in DOMAIN bundle'
    BY <1>10, <2>1 DEF RowTellsContent
  <2>2. op = "prose" => x \in DOMAIN bundle'
    BY <1>13
  <2>3. op = "row" => x \in DOMAIN bundle'
    BY <1>10, <1>11
  <2>4. op = "vector" => x \in DOMAIN bundle'
    BY <1>10, <1>12 DEF RowTellsContent
  <2> HIDE DEF x
  <2> QED BY <2>1, <2>2, <2>3, <2>4
<1>20. ASSUME NEW y \in DOMAIN rows', y \notin torn', \A j \in SourceIds : y \notin Halfway(j)'
       PROVE  rows'[y].hash = bundle'[y] /\ y \in DOMAIN vectors' /\ vectors'[y] = bundle'[y].look
  <2>1. CASE y = x
    <3>1. op = "vector"
      BY <1>1, <1>5, <1>20, <2>1
    <3>2. Doc(c).look = c.look
      BY DEF Doc
    <3> QED BY <1>12, <1>15, <1>20, <2>1, <3>1, <3>2
  <2>2. CASE y # x
    <3>1. y \in DOMAIN rows /\ y \notin torn /\ y \in DOMAIN bundle
      BY <1>9, <1>10, <1>20, <2>2 DEF RowTellsContent
    <3>2. \A j \in SourceIds : y \notin Halfway(j)
      BY <1>3, <1>6, <1>20, <2>2
    <3>3. y \notin torn \cup All
      BY <3>1, <3>2
    <3>4. rows[y].hash = bundle[y] /\ y \in DOMAIN vectors /\ vectors[y] = bundle[y].look
      BY <3>1, <3>3 DEF RowTellsContent
    <3> QED BY <1>10, <2>2, <3>1, <3>4
  <2> QED BY <2>1, <2>2
<1>21. RowTellsContent'
  BY <1>19, <1>20 DEF RowTellsContent
<1> QED BY <1>16, <1>17, <1>18, <1>21 DEF Halves

\* Every step keeps rows, documents and vectors together.
LEMMA HalvesStep ==
  ASSUME Typed, Staged, Threads, Halves, RowTellsContent, [Next]_vars
  PROVE  Halves' /\ RowTellsContent'
<1> DEFINE Goes(i) == /\ Halfway(i) \subseteq torn'
                      /\ i \in Running' => Head(work'[i].todo).op \in {"prose", "edge"}
<1>1. \A i \in SourceIds : Empty(work'[i]) => i \notin Running'
  BY DEF Empty, Running
<1>2. \A i \in SourceIds : Empty(work[i]) => Halfway(i) = {}
  BY DEF Empty, Running, Halfway
<1>3. Empty(NoThread) /\ \A i \in SourceIds : Idle[i] = NoThread
  <2>1. <<>> \in Seq(Statement) /\ <<>> \in Seq(Found) /\ {} \in SUBSET ConceptIds
    OBVIOUS
  <2> QED BY <2>1 DEF Empty, NoThread, Thread, Idle
<1>4. stage \in {"idle", "link"} => \A i \in SourceIds : Halfway(i) = {}
  BY <1>2, <1>3 DEF Staged
<1>5. stage = "stitch" => \A i \in SourceIds : Halfway(i) = {}
  BY DEF Staged, Finished, Halfway, Running
<1>6. CASE StartBuild
  <2>1. UNCHANGED <<rows, vectors, bundle, torn>> /\ stage = "idle" /\ \A i \in SourceIds : work'[i].todo = <<>>
    BY <1>6 DEF StartBuild, store, NoThread
  <2>2. \A i \in SourceIds : Goes(i)
    BY <1>4, <2>1 DEF Running
  <2> QED BY <2>1, <2>2, QuietHalves
<1>7. CASE LinkIsolated \/ EndCommand
  <2>1. /\ UNCHANGED <<rows, vectors, bundle, torn>> /\ stage \in {"idle", "stitch", "link"}
        /\ \A i \in SourceIds : Empty(work'[i])
    BY <1>3, <1>7 DEF LinkIsolated, EndCommand, store
  <2>2. \A i \in SourceIds : Goes(i)
    BY <1>1, <1>4, <1>5, <2>1
  <2> QED BY <2>1, <2>2, QuietHalves
<1>8. CASE Abort
  <2>1. /\ UNCHANGED <<rows, vectors, bundle>> /\ torn' = torn \cup UNION {Halfway(i) : i \in SourceIds}
        /\ \A i \in SourceIds : Empty(work'[i])
    BY <1>3, <1>8 DEF Abort
  <2>2. \A i \in SourceIds : Goes(i)
    BY <1>1, <2>1
  <2> QED BY <2>1, <2>2, QuietHalves
<1>9. CASE Stitch \/ (\E e \in queue : UpsertQueued(e)) \/ (\E k \in Cited, skip \in {0, 1} : Cite(k, skip))
           \/ (\E i \in SourceIds : Procure(i)) \/ UNCHANGED vars
  <2>1. UNCHANGED <<rows, vectors, bundle, torn, work>>
    BY <1>9 DEF Stitch, UpsertQueued, Cite, Procure, vars, store
  <2> QED BY <2>1, QuietHalves
<1>10. ASSUME NEW i \in SourceIds, Ingest(i) PROVE Halves' /\ RowTellsContent'
  <2>1. PICK set, gaps : Taken(i, set, gaps)
    BY <1>10, IngestTakes
  <2>2. UNCHANGED <<rows, vectors, bundle, torn>> /\ Halfway(i) = {}
    BY <1>10 DEF Ingest, store, Halfway, Running
  <2>3. Goes(i)
    BY <2>1, <2>2, TakenThread
  <2>4. \A j \in SourceIds : j # i => work'[j] = work[j]
    BY <2>1 DEF Taken
  <2> QED BY <2>2, <2>3, <2>4, QuietHalves
<1>11. ASSUME NEW i \in SourceIds, SourceFails(i) PROVE Halves' /\ RowTellsContent'
  <2>1. UNCHANGED <<rows, vectors, bundle>> /\ torn' = torn \cup Halfway(i)
    BY <1>11 DEF SourceFails
  <2>2. work'[i] = [NoThread EXCEPT !.phase = "failed"] /\ \A j \in SourceIds : j # i => work'[j] = work[j]
    BY <1>11 DEF SourceFails, Typed
  <2>3. Goes(i)
    BY <2>1, <2>2 DEF Running, NoThread
  <2> QED BY <2>1, <2>2, <2>3, QuietHalves
<1>12. ASSUME NEW i \in SourceIds, WriteEdge(i) PROVE Halves' /\ RowTellsContent'
  <2>1. PICK e : Executes(i, "edge", e)
    BY <1>12 DEF WriteEdge
  <2>2. Advances(i) /\ Head(work[i].todo) = [op |-> "edge", arg |-> e]
    BY <2>1, Execution
  <2>3. Head(work[i].todo).op = "edge"
    BY <2>2
  <2>4. Halfway(i) = {} /\ (i \in Running' => Head(work'[i].todo).op \in {"prose", "edge"})
    BY <2>2, <2>3, HalfwayIs, NextStatement
  <2>5. UNCHANGED <<rows, vectors, bundle, torn>> /\ \A j \in SourceIds : j # i => work'[j] = work[j]
    BY <1>12, <2>2 DEF WriteEdge, Advances
  <2> QED BY <2>4, <2>5, QuietHalves
<1> QED BY <1>6, <1>7, <1>8, <1>9, <1>10, <1>11, <1>12, WrittenHalves DEF Next

---------------------------------------------------------------------------
\* Citations

\* What is grounded cites a file first.
LEMMA GroundedCites ==
  ASSUME NEW refs \in Seq(FileRef), NEW files, Grounded(refs, files)
  PROVE  FirstFile(refs) \in Files /\ FirstFile(refs) # NoFile
<1>1. refs # <<>>
  <2>1. refs = <<>> => ToSet(refs) = {}
    BY DEF ToSet
  <2> QED BY <2>1 DEF Grounded
<1>2. refs[1] \in FileRef
  BY <1>1
<1> QED BY <1>1, <1>2, NoFileIsNoFile DEF FirstFile, FileRef

\* Every step keeps the rows grounded.
LEMMA RowCitesStep ==
  ASSUME Typed, Staged, Threads, RowCites, [Next]_vars
  PROVE  RowCites'
<1>1. misquoted \subseteq misquoted'
  BY Growth
<1>2. CASE UNCHANGED rows
  BY <1>1, <1>2 DEF RowCites
<1>3. ASSUME NEW i \in SourceIds, WriteRow(i) PROVE RowCites'
  <2>1. PICK c : /\ Executes(i, "row", c)
                 /\ rows' = Upsert(rows, [x \in {c.id} |-> [refs |-> c.refs, hash |-> Doc(c)]])
    BY <1>3 DEF WriteRow
  <2>2. c \in Made(i)
    <3>1. Executes(i, "row", c)
      BY <2>1
    <3> QED BY <3>1, Execution
  <2>3. Grounded(c.refs, {Sources[i].file}) /\ (FirstFile(c.refs) \in Inputs \/ c.id \in misquoted)
    BY <2>2 DEF Threads, ThreadHolds
  <2>4. Grounded(c.refs, Inputs)
    BY <2>3, ManifestType DEF Grounded
  <2>5. /\ DOMAIN rows' = DOMAIN rows \cup {c.id} /\ rows'[c.id].refs = c.refs
        /\ \A x \in DOMAIN rows : x # c.id => rows'[x] = rows[x]
    BY <2>1 DEF Upsert
  <2>6. ASSUME NEW x \in DOMAIN rows'
        PROVE  Grounded(rows'[x].refs, Inputs) /\ (FirstFile(rows'[x].refs) \in Inputs \/ x \in misquoted')
    <3>1. CASE x = c.id
      BY <1>1, <2>3, <2>4, <2>5, <3>1
    <3>2. CASE x # c.id
      BY <1>1, <2>5, <3>2 DEF RowCites
    <3> QED BY <3>1, <3>2
  <2> QED BY <2>6 DEF RowCites
<1>4. UNCHANGED rows \/ \E i \in SourceIds : WriteRow(i)
  BY DEF Next, StartBuild, Stitch, LinkIsolated, EndCommand, Abort, UpsertQueued, Cite, Procure, Ingest, SourceFails,
         WriteProse, WriteVector, WriteEdge, vars, store
<1> QED BY <1>2, <1>3, <1>4

\* Every step keeps the queue between stored concepts, and its citations
\* accounted for.
LEMMA QueueCitesStep ==
  ASSUME Typed, Staged, Threads, RowCites, QueueCites, [Next]_vars
  PROVE  QueueCites'
<1>1. misquoted \subseteq misquoted' /\ DOMAIN rows \subseteq DOMAIN rows'
  BY Growth
<1> DEFINE Holds(e) == /\ {e.src, e.dst} \subseteq DOMAIN rows
                       /\ e.cite \in Inputs \/ {e.src, e.dst} \cap misquoted # {}
                       /\ e.cite # NoFile
<1>2. (\A e \in queue' : Holds(e)) => QueueCites'
  BY <1>1 DEF QueueCites
<1>3. \A e \in queue : Holds(e)
  BY DEF QueueCites
<1>4. CASE queue' \subseteq queue
  BY <1>2, <1>3, <1>4
<1>5. CASE Stitch
  <2>1. \A i \in SourceIds : Todo(i) = {}
    <3>1. ToSet(<<>>) = {}
      BY DEF ToSet
    <3>2. \A i \in SourceIds : work[i].todo = <<>>
      BY <1>5 DEF Stitch, Finished, Staged
    <3> QED BY <3>1, <3>2 DEF Todo
  <2>2. ASSUME NEW e \in Stitches PROVE Holds(e)
    <3>1. PICK i \in SourceIds, j \in SourceIds : \E c \in Made(i), d \in Made(j) :
             e.src = c.id /\ e.dst = d.id /\ e.cite = FirstFile(c.refs)
      BY StitchedEdges
    <3>2. PICK c \in Made(i), d \in Made(j) : e.src = c.id /\ e.dst = d.id /\ e.cite = FirstFile(c.refs)
      BY <3>1
    <3>3. c.id \in DOMAIN rows /\ d.id \in DOMAIN rows
      BY <2>1 DEF Threads, ThreadHolds
    <3>4. Grounded(c.refs, {Sources[i].file}) /\ (FirstFile(c.refs) \in Inputs \/ c.id \in misquoted)
      BY DEF Threads, ThreadHolds
    <3>5. c \in Found
      <4>1. work[i].result \in Seq(Found)
        BY DEF Typed, Thread
      <4> QED BY <4>1 DEF Made, ToSet
    <3>6. FirstFile(c.refs) # NoFile
      BY <3>4, <3>5, GroundedCites DEF Found
    <3> QED BY <3>2, <3>3, <3>4, <3>6
  <2>3. queue' = Stitches
    BY <1>5 DEF Stitch
  <2> QED BY <1>2, <2>2, <2>3
<1>6. CASE LinkIsolated
  <2>1. ASSUME NEW e \in queue' PROVE Holds(e)
    <3>1. {e.src, e.dst} \subseteq DOMAIN rows /\ \E c \in Isolated : c \in {e.src, e.dst} /\ e.cite = FirstFile(rows[c].refs)
      BY <1>6, LinkQueue
    <3>2. PICK c \in DOMAIN rows : c \in {e.src, e.dst} /\ e.cite = FirstFile(rows[c].refs)
      BY <3>1, GroupsAreIsolated
    <3>3. Grounded(rows[c].refs, Inputs) /\ (e.cite \in Inputs \/ c \in misquoted)
      BY <3>2 DEF RowCites
    <3>4. rows[c].refs \in Seq(FileRef)
      BY DEF Typed, Row
    <3>5. e.cite # NoFile
      BY <3>2, <3>3, <3>4, GroundedCites
    <3> QED BY <3>1, <3>2, <3>3, <3>5
  <2> QED BY <1>2, <2>1
<1>7. queue' \subseteq queue \/ Stitch \/ LinkIsolated
  BY DEF Next, StartBuild, EndCommand, Abort, UpsertQueued, Cite, Procure, Ingest, SourceFails,
         WriteProse, WriteRow, WriteVector, WriteEdge, Executes, vars
<1> QED BY <1>4, <1>5, <1>6, <1>7

\* When an edge of a thread is due, its concepts are stored.
LEMMA EdgesComeLast ==
  ASSUME Typed, Threads, NEW i \in SourceIds, NEW e, Executes(i, "edge", e)
  PROVE  /\ e \in MadeEdge /\ [op |-> "edge", arg |-> e] \in Todo(i)
         /\ e.cite = Sources[i].file /\ {e.src, e.dst} \subseteq Ids(Made(i))
         /\ \A c \in Made(i) : c.id \in DOMAIN rows
<1> DEFINE s == [op |-> "edge", arg |-> e]
<1>1. /\ Advances(i) /\ Head(work[i].todo) = s /\ s \in Todo(i) /\ e \in MadeEdge
  BY Execution
<1>2. s.op = "edge" /\ s.arg = e
  OBVIOUS
<1> HIDE DEF s
<1>3. \A r \in Todo(i) : r.op = "edge"
  <2>1. Script(work[i].todo) /\ work[i].todo # <<>>
    BY <1>1 DEF Threads, ThreadHolds, Advances, Running
  <2> QED BY <1>1, <1>2, <2>1, ScriptTail DEF Todo
<1>4. \A c \in Made(i) : c.id \in DOMAIN rows
  <2> TAKE c \in Made(i)
  <2>1. c.id \in DOMAIN rows \/ [op |-> "row", arg |-> c] \in Todo(i)
    BY DEF Threads, ThreadHolds
  <2>2. [op |-> "row", arg |-> c].op = "row"
    OBVIOUS
  <2> QED BY <1>3, <2>1, <2>2
<1>5. e.cite = Sources[i].file /\ {e.src, e.dst} \subseteq Ids(Made(i))
  BY <1>1, <1>2 DEF Threads, ThreadHolds
<1> QED BY <1>1, <1>4, <1>5 DEF s

\* Every step keeps everything stored traceable.
LEMMA FabricatedStep ==
  ASSUME Typed, Staged, Threads, RowCites, QueueCites, NothingFabricated, [Next]_vars
  PROVE  NothingFabricated'
<1>1. misquoted \subseteq misquoted' /\ DOMAIN rows \subseteq DOMAIN rows'
  BY Growth
<1>2. \A c \in DOMAIN rows' : Grounded(rows'[c].refs, Inputs)
  BY RowCitesStep DEF RowCites
<1> DEFINE Holds(k, edge) == /\ {k[1], k[3]} \subseteq DOMAIN rows
                             /\ edge.cite \in Inputs \cup {NoFile} \/ {k[1], k[3]} \cap misquoted # {}
                             /\ edge.cite = NoFile => edge.exposures > 0
<1>3. \A k \in DOMAIN edges : Holds(k, edges[k])
  BY DEF NothingFabricated
<1>4. (\A k \in DOMAIN edges' : Holds(k, edges'[k])) => NothingFabricated'
  BY <1>1, <1>2 DEF NothingFabricated
<1>5. ASSUME NEW e \in MadeEdge, UpsertEdge(e), {e.src, e.dst} \subseteq DOMAIN rows, e.cite # NoFile,
             e.cite \in Inputs \/ {e.src, e.dst} \cap misquoted # {}
      PROVE  NothingFabricated'
  <2>1. /\ DOMAIN edges' = DOMAIN edges \cup {Key(e)} /\ edges'[Key(e)].cite = e.cite
        /\ \A k \in DOMAIN edges : k # Key(e) => edges'[k] = edges[k]
    BY <1>5, UpsertedEdge
  <2>2. Key(e)[1] = e.src /\ Key(e)[3] = e.dst
    BY DEF Key
  <2>3. Holds(Key(e), edges'[Key(e)])
    BY <1>5, <2>1, <2>2
  <2> QED BY <1>3, <1>4, <2>1, <2>3
<1>6. ASSUME NEW i \in SourceIds, WriteEdge(i) PROVE NothingFabricated'
  <2>1. PICK e : Executes(i, "edge", e) /\ UpsertEdge(e)
    BY <1>6 DEF WriteEdge
  <2>2. /\ e \in MadeEdge /\ e.cite = Sources[i].file /\ {e.src, e.dst} \subseteq Ids(Made(i))
        /\ \A c \in Made(i) : c.id \in DOMAIN rows
    BY <2>1, EdgesComeLast
  <2>3. {e.src, e.dst} \subseteq DOMAIN rows /\ e.cite \in Inputs /\ e.cite # NoFile
    BY <2>2, ManifestType DEF Ids
  <2> QED BY <1>5, <2>1, <2>2, <2>3
<1>7. ASSUME NEW e \in queue, UpsertQueued(e) PROVE NothingFabricated'
  BY <1>5, <1>7 DEF UpsertQueued, QueueCites, Typed
<1>8. ASSUME NEW k \in Cited, NEW skip \in {0, 1}, Cite(k, skip) PROVE NothingFabricated'
  <2>1. /\ DOMAIN edges' = DOMAIN edges \cup {k} /\ {k[1], k[3]} \subseteq DOMAIN rows
        /\ \A j \in DOMAIN edges : j # k => edges'[j] = edges[j]
        /\ k \in DOMAIN edges => edges'[k].cite = edges[k].cite /\ edges'[k].exposures = edges[k].exposures + 1
        /\ k \notin DOMAIN edges => edges'[k].cite = NoFile /\ edges'[k].exposures = 1
    BY <1>8, CitedEdge
  <2>2. k \in DOMAIN edges => edges[k].exposures \in Nat
    BY DEF Typed, EdgeRow
  <2>3. edges'[k].exposures > 0
    BY <2>1, <2>2
  <2>4. Holds(k, edges'[k])
    BY <1>3, <2>1, <2>3
  <2> QED BY <1>3, <1>4, <2>1, <2>4
<1>9. CASE UNCHANGED edges
  BY <1>3, <1>4, <1>9
<1>10. UNCHANGED edges \/ (\E i \in SourceIds : WriteEdge(i)) \/ (\E e \in queue : UpsertQueued(e))
         \/ \E k \in Cited, skip \in {0, 1} : Cite(k, skip)
  BY DEF Next, StartBuild, Stitch, LinkIsolated, EndCommand, Abort, Procure, Ingest, SourceFails,
         WriteProse, WriteRow, WriteVector, vars, store
<1> QED BY <1>6, <1>7, <1>8, <1>9, <1>10

---------------------------------------------------------------------------
\* The backbone

\* What changes the edges: a thread's statement, the queue, or the tutor.
LEMMA EdgesMove ==
  ASSUME Typed, Staged, Threads, [Next]_vars
  PROVE  \/ UNCHANGED edges
         \/ \E i \in SourceIds, e \in MadeEdge : Executes(i, "edge", e) /\ UpsertEdge(e)
         \/ \E e \in queue : UpsertQueued(e) /\ UpsertEdge(e) /\ e \in MadeEdge
         \/ \E k \in Cited, skip \in {0, 1} : Cite(k, skip)
<1>1. ASSUME NEW i \in SourceIds, WriteEdge(i) PROVE \E e \in MadeEdge : Executes(i, "edge", e) /\ UpsertEdge(e)
  <2>1. PICK e : Executes(i, "edge", e) /\ UpsertEdge(e)
    BY <1>1 DEF WriteEdge
  <2>2. e \in MadeEdge
    BY <2>1, EdgesComeLast
  <2> QED BY <2>1, <2>2
<1>2. ASSUME NEW e \in queue, UpsertQueued(e) PROVE UpsertEdge(e) /\ e \in MadeEdge
  BY <1>2 DEF UpsertQueued, Typed
<1>3. UNCHANGED edges \/ (\E i \in SourceIds : WriteEdge(i)) \/ (\E e \in queue : UpsertQueued(e))
        \/ \E k \in Cited, skip \in {0, 1} : Cite(k, skip)
  BY DEF Next, StartBuild, Stitch, LinkIsolated, EndCommand, Abort, Procure, Ingest, SourceFails,
         WriteProse, WriteRow, WriteVector, vars, store
<1> QED BY <1>1, <1>2, <1>3

\* A trusted edge was there before, or is one that a thread or the queue had.
LEMMA NewSpine ==
  ASSUME Typed, Staged, Threads, [Next]_vars, NEW k \in DOMAIN edges', edges'[k].provenance = "spine"
  PROVE  \/ k \in DOMAIN edges /\ edges[k].provenance = "spine"
         \/ \E i \in SourceIds, e \in MadeEdge : Executes(i, "edge", e) /\ e.provenance = "spine" /\ Key(e) = k
         \/ \E e \in queue : UpsertQueued(e) /\ e.provenance = "spine" /\ Key(e) = k
<1>1. ASSUME NEW e \in MadeEdge, UpsertEdge(e), k \notin DOMAIN edges \/ edges[k].provenance # "spine"
      PROVE  e.provenance = "spine" /\ Key(e) = k
  <2>1. k = Key(e)
    BY <1>1, UpsertedEdge
  <2> QED BY <1>1, <2>1, UpsertedEdge
<1>2. ASSUME NEW j \in Cited, NEW skip \in {0, 1}, Cite(j, skip) PROVE k \in DOMAIN edges /\ edges[k].provenance = "spine"
  <2>1. /\ DOMAIN edges' = DOMAIN edges \cup {j}
        /\ \A m \in DOMAIN edges : m # j => edges'[m] = edges[m]
        /\ j \in DOMAIN edges => edges'[j].provenance = edges[j].provenance
        /\ j \notin DOMAIN edges => edges'[j].provenance = "inferred"
    BY <1>2, CitedEdge
  <2> QED BY <2>1
<1> QED BY <1>1, <1>2, EdgesMove

\* No step demotes a trusted edge, but between two concepts that were produced
\* more than once.
LEMMA SpineStays ==
  ASSUME Typed, Staged, Threads, Spared, Rivals, [Next]_vars,
         NEW k \in DOMAIN edges, edges[k].provenance = "spine", ~({k[1], k[3]} \subseteq again)
  PROVE  k \in DOMAIN edges' /\ edges'[k].provenance = "spine"
<1>1. ASSUME NEW e \in MadeEdge, UpsertEdge(e), Key(e) = k => e.provenance = "spine"
      PROVE  k \in DOMAIN edges' /\ edges'[k].provenance = "spine"
  <2>1. CASE Key(e) = k
    BY <1>1, <2>1, UpsertedEdge
  <2>2. CASE Key(e) # k
    BY <1>1, <2>2, UpsertedEdge
  <2> QED BY <2>1, <2>2
<1>2. ASSUME NEW i \in SourceIds, NEW e \in MadeEdge, Executes(i, "edge", e), Key(e) = k PROVE e.provenance = "spine"
  <2>1. [op |-> "edge", arg |-> e] \in Todo(i)
    BY <1>2, EdgesComeLast
  <2>2. e.provenance \in {"spine", "inferred"}
    BY DEF MadeEdge
  <2>3. k[1] = e.src /\ k[3] = e.dst
    BY <1>2 DEF Key
  <2>4. e.provenance = "inferred" => {e.src, e.dst} \subseteq again
    <3> DEFINE s == [op |-> "edge", arg |-> e]
    <3>1. s \in Todo(i) /\ s.op = "edge" /\ s.arg = e
      BY <2>1
    <3> HIDE DEF s
    <3> QED BY <1>2, <3>1 DEF Rivals
  <2> QED BY <2>2, <2>3, <2>4
<1>3. ASSUME NEW e \in queue, UpsertQueued(e), Key(e) = k PROVE e.provenance = "spine"
  <2>1. stage = "stitch" => e.provenance = "spine"
    BY DEF Rivals
  <2>2. stage # "link"
    BY <1>3 DEF Spared
  <2> QED BY <1>3, <2>1, <2>2 DEF UpsertQueued
<1>4. ASSUME NEW j \in Cited, NEW skip \in {0, 1}, Cite(j, skip) PROVE k \in DOMAIN edges' /\ edges'[k].provenance = "spine"
  BY <1>4, CitedEdge
<1>5. CASE UNCHANGED edges
  BY <1>5
<1> QED BY <1>1, <1>2, <1>3, <1>4, <1>5, EdgesMove

\* What follows the documents goes on to do so.
LEMMA FollowsStays ==
  ASSUME Typed, Staged, Threads, [Next]_vars, NEW k, Follows(k)
  PROVE  Follows(k)'
<1>1. placed \subseteq placed'
  BY Growth
<1> QED BY <1>1 DEF Follows

\* Every step keeps the trusted edges that are to be written running with the
\* documents.
LEMMA ToFollowStep ==
  ASSUME Typed, Staged, Threads, ToFollow, [Next]_vars
  PROVE  ToFollow'
<1>1. ASSUME NEW i \in SourceIds, NEW s \in Todo(i)', s.op = "edge", s.arg.provenance = "spine"
      PROVE  Follows(Key(s.arg))'
  <2>1. CASE s \in Todo(i)
    <3>1. Follows(Key(s.arg))
      BY <1>1, <2>1 DEF ToFollow
    <3> DEFINE k == Key(s.arg)
    <3> HIDE DEF k
    <3>2. Follows(k)'
      BY <3>1, FollowsStays DEF k
    <3> QED BY <3>2 DEF k, Key
  <2>2. work'[i] = work[i] => s \in Todo(i)
    BY DEF Todo
  <2>3. ~Empty(work'[i])
    <3>1. ToSet(<<>>) = {}
      BY DEF ToSet
    <3> QED BY <3>1 DEF Empty, Todo
  <2>4. Advances(i) => s \in Todo(i)
    BY AdvancedThread
  <2>5. ASSUME NEW set, NEW gaps, Taken(i, set, gaps) PROVE Follows(Key(s.arg))'
    <3> DEFINE e == s.arg
               made == ToSet(set.concepts)
    <3>1. e \in ToSet(set.edges) /\ made \in SUBSET Found
      BY <1>1, <2>5, TakenThread
    <3>2. Sources[i].spine /\ \E c, d \in made : e.src = c.id /\ e.dst = d.id /\ Precedes(c, d)
      BY <1>1, <2>5, <3>1 DEF Taken, Yields
    <3>3. PICK c \in made, d \in made : e.src = c.id /\ e.dst = d.id /\ Precedes(c, d)
      BY <3>2
    <3> DEFINE p == <<c.id, i, FirstLine(c)>>
               q == <<d.id, i, FirstLine(d)>>
    <3>4. p \in placed' /\ q \in placed'
      BY <2>5 DEF Taken
    <3>5. /\ p[1] = c.id /\ p[2] = i /\ p[3] = FirstLine(c)
          /\ q[1] = d.id /\ q[2] = i /\ q[3] = FirstLine(d)
      OBVIOUS
    <3>6. Key(e)[1] = c.id /\ Key(e)[3] = d.id
      BY <3>3 DEF Key
    <3> HIDE DEF p, q
    <3>7. p[3] < q[3] \/ (p[3] = q[3] /\ p[1] < q[1])
      BY <3>3, <3>5 DEF Precedes
    <3> DEFINE k == Key(e)
    <3> HIDE DEF k
    <3>8. Follows(k)'
      BY <3>2, <3>4, <3>5, <3>6, <3>7 DEF Follows, k
    <3> QED BY <3>8 DEF k, Key
  <2> QED BY <2>1, <2>2, <2>3, <2>4, <2>5, ThreadsMove DEF Executed
<1>2. ASSUME NEW e \in queue', e.provenance = "spine" PROVE Follows(Key(e))'
  <2> DEFINE k == Key(e)
  <2>1. CASE e \in queue
    <3>1. Follows(k)
      BY <1>2, <2>1 DEF ToFollow
    <3> HIDE DEF k
    <3>2. Follows(k)'
      BY <3>1, FollowsStays
    <3> QED BY <3>2 DEF k, Key
  <2>2. CASE Stitch
    <3>1. e \in Stitches
      BY <2>2 DEF Stitch
    <3>2. PICK i \in SourceIds, j \in SourceIds : \E c \in Made(i), d \in Made(j) :
            i < j /\ Sources[i].spine /\ Sources[j].spine /\ e.src = c.id /\ e.dst = d.id
      BY <3>1, StitchedEdges
    <3>3. PICK c \in Made(i), d \in Made(j) : i < j /\ Sources[i].spine /\ Sources[j].spine /\ e.src = c.id /\ e.dst = d.id
      BY <3>2
    <3> DEFINE p == <<c.id, i, FirstLine(c)>>
               q == <<d.id, j, FirstLine(d)>>
    <3>4. p \in placed /\ q \in placed
      BY DEF Threads, ThreadHolds
    <3>5. p[1] = c.id /\ p[2] = i /\ q[1] = d.id /\ q[2] = j
      OBVIOUS
    <3>6. k[1] = c.id /\ k[3] = d.id
      BY <3>3 DEF Key
    <3> HIDE DEF p, q, k
    <3>7. Follows(k)
      BY <3>3, <3>4, <3>5, <3>6 DEF Follows
    <3>8. Follows(k)'
      BY <3>7, FollowsStays
    <3> QED BY <3>8 DEF k, Key
  <2>3. ~LinkIsolated
    BY <1>2, LinkQueue
  <2>4. queue' \subseteq queue \/ Stitch \/ LinkIsolated
    BY DEF Next, StartBuild, EndCommand, Abort, UpsertQueued, Cite, Procure, Ingest, SourceFails,
           WriteProse, WriteRow, WriteVector, WriteEdge, Executes, vars
  <2> QED BY <2>1, <2>2, <2>3, <2>4
<1> QED BY <1>1, <1>2 DEF ToFollow

\* Every step keeps the trusted edges of the table running with the documents.
LEMMA SpineFollowsStep ==
  ASSUME Typed, Staged, Threads, ToFollow, SpineFollowsDocuments, [Next]_vars
  PROVE  SpineFollowsDocuments'
<1>1. (\A k \in DOMAIN edges' : edges'[k].provenance = "spine" => Follows(k)') => SpineFollowsDocuments'
  BY DEF SpineFollowsDocuments, Follows
<1>2. ASSUME NEW k \in DOMAIN edges', edges'[k].provenance = "spine" PROVE Follows(k)'
  <2>1. CASE k \in DOMAIN edges /\ edges[k].provenance = "spine"
    <3>1. Follows(k)
      BY <2>1 DEF SpineFollowsDocuments, Follows
    <3> QED BY <3>1, FollowsStays
  <2>2. ASSUME NEW i \in SourceIds, NEW e \in MadeEdge, Executes(i, "edge", e), e.provenance = "spine", Key(e) = k
        PROVE  Follows(k)'
    <3> DEFINE s == [op |-> "edge", arg |-> e]
    <3>1. s \in Todo(i) /\ s.op = "edge" /\ s.arg = e
      BY <2>2, EdgesComeLast
    <3> HIDE DEF s
    <3>2. Follows(k)
      BY <2>2, <3>1 DEF ToFollow
    <3> QED BY <3>2, FollowsStays
  <2>3. ASSUME NEW e \in queue, e.provenance = "spine", Key(e) = k PROVE Follows(k)'
    <3>1. Follows(k)
      BY <2>3 DEF ToFollow
    <3> QED BY <3>1, FollowsStays
  <2> QED BY <1>2, <2>1, <2>2, <2>3, NewSpine
<1> QED BY <1>1, <1>2

\* Whatever a thread goes on to have was in what it had, unless it starts.
LEMMA TodoShrinks ==
  ASSUME Typed, Staged, Threads, [Next]_vars, NEW i \in SourceIds
  PROVE  \/ Todo(i)' \subseteq Todo(i) /\ Made(i)' \subseteq Made(i)
         \/ UNCHANGED edges /\ \E set, gaps : Taken(i, set, gaps)
<1>1. work'[i] = work[i] => Todo(i)' \subseteq Todo(i) /\ Made(i)' \subseteq Made(i)
  BY DEF Todo, Made
<1>2. Empty(work'[i]) => Todo(i)' = {} /\ Made(i)' = {}
  <2>1. ToSet(<<>>) = {}
    BY DEF ToSet
  <2> QED BY <2>1 DEF Empty, Todo, Made
<1>3. Executed(i) => Todo(i)' \subseteq Todo(i) /\ Made(i)' \subseteq Made(i)
  BY AdvancedThread DEF Executed
<1> QED BY <1>1, <1>2, <1>3, ThreadsMove

\* Where nothing is running, nothing is to be written by a thread.
LEMMA NothingToDo ==
  ASSUME Typed, Staged, stage # "ingest", NEW i \in SourceIds
  PROVE  Todo(i) = {}
<1>1. work[i].todo = <<>>
  BY DEF Staged, Finished, Idle, NoThread
<1>2. ToSet(<<>>) = {}
  BY DEF ToSet
<1> QED BY <1>1, <1>2 DEF Todo

\* Every step leaves trusted edges without rivals, but between concepts that
\* were produced more than once.
LEMMA RivalsStep ==
  ASSUME Typed, Staged, Threads, SpineFollowsDocuments, Rivals, [Next]_vars
  PROVE  Rivals'
<1>1. again \subseteq again'
  BY Growth
<1>2. ASSUME stage' = "stitch", NEW e \in queue' PROVE e.provenance = "spine"
  <2>1. CASE Stitch
    BY <1>2, <2>1, StitchedEdges DEF Stitch
  <2>2. Stitch \/ (stage = "stitch" /\ queue' \subseteq queue)
    BY <1>2 DEF Next, StartBuild, LinkIsolated, EndCommand, Abort, UpsertQueued, Cite, Procure, Ingest, SourceFails,
           WriteProse, WriteRow, WriteVector, WriteEdge, Executes, vars
  <2> QED BY <1>2, <2>1, <2>2 DEF Rivals
<1>3. ASSUME NEW i \in SourceIds, NEW set, NEW gaps, Taken(i, set, gaps), NEW x \in Ids(ToSet(set.concepts)),
             NEW p \in placed, p[1] = x
      PROVE  x \in again'
  <2>1. x \in {q[1] : q \in placed}
    BY <1>3
  <2>2. PICK c \in ToSet(set.concepts) : x = c.id
    BY DEF Ids
  <2>3. again' = again \cup {e.id : e \in {d \in ToSet(set.concepts) : d.id \in {q[1] : q \in placed}}}
    BY <1>3 DEF Taken
  <2> QED BY <2>1, <2>2, <2>3
<1>4. ASSUME NEW i \in SourceIds, NEW j \in SourceIds, i # j, NEW x \in Ids(Made(i)') \cap Ids(Made(j)')
      PROVE  x \in again'
  <2>1. ASSUME NEW k \in SourceIds, NEW l \in SourceIds, k # l, NEW set, NEW gaps, Taken(k, set, gaps),
               x \in Ids(Made(k)') \cap Ids(Made(l)')
        PROVE  x \in again'
    <3>1. Made(k)' = ToSet(set.concepts) /\ work'[l] = work[l]
      BY <2>1, TakenThread DEF Taken
    <3>2. Made(l)' = Made(l)
      BY <3>1 DEF Made
    <3>3. PICK d \in Made(l) : x = d.id
      BY <2>1, <3>2 DEF Ids
    <3>4. <<d.id, l, FirstLine(d)>> \in placed
      BY DEF Threads, ThreadHolds
    <3>5. <<d.id, l, FirstLine(d)>>[1] = x
      BY <3>3
    <3> QED BY <1>3, <2>1, <3>1, <3>4, <3>5
  <2>2. CASE Made(i)' \subseteq Made(i) /\ Made(j)' \subseteq Made(j)
    <3>1. x \in Ids(Made(i)) \cap Ids(Made(j))
      BY <1>4, <2>2 DEF Ids
    <3> QED BY <1>1, <1>4, <3>1 DEF Rivals
  <2> QED BY <1>4, <2>1, <2>2, TodoShrinks
<1>5. ASSUME NEW i \in SourceIds, NEW s \in Todo(i)', s.op = "edge", s.arg.provenance = "inferred",
             Key(s.arg) \in DOMAIN edges', edges'[Key(s.arg)].provenance = "spine"
      PROVE  {s.arg.src, s.arg.dst} \subseteq again'
  <2> DEFINE k == Key(s.arg)
  <2>1. k[1] = s.arg.src /\ k[3] = s.arg.dst
    BY DEF Key
  <2>2. CASE s \in Todo(i)
    <3>1. CASE k \in DOMAIN edges /\ edges[k].provenance = "spine"
      BY <1>1, <1>5, <2>2, <3>1 DEF Rivals
    <3>2. ASSUME NEW j \in SourceIds, NEW e \in MadeEdge, Executes(j, "edge", e), e.provenance = "spine", Key(e) = k
          PROVE  {s.arg.src, s.arg.dst} \subseteq again'
      <4> DEFINE r == [op |-> "edge", arg |-> e]
      <4>1. r \in Todo(j) /\ r.op = "edge" /\ r.arg = e /\ {e.src, e.dst} \subseteq Ids(Made(j))
        BY <3>2, EdgesComeLast
      <4> HIDE DEF r
      <4>2. j # i
        BY <1>5, <2>2, <3>2, <4>1 DEF Rivals
      <4>3. {s.arg.src, s.arg.dst} \subseteq Ids(Made(i))
        BY <1>5, <2>2 DEF Threads, ThreadHolds
      <4>4. e.src = s.arg.src /\ e.dst = s.arg.dst
        BY <3>2 DEF Key
      <4> QED BY <1>1, <4>1, <4>2, <4>3, <4>4 DEF Rivals
    <3>3. ~\E e \in queue : UpsertQueued(e)
      BY <2>2, NothingToDo DEF UpsertQueued
    <3> HIDE DEF k
    <3>4. k \in DOMAIN edges' /\ edges'[k].provenance = "spine"
      BY <1>5 DEF k
    <3> QED BY <3>1, <3>2, <3>3, <3>4, NewSpine
  <2>3. ASSUME UNCHANGED edges, NEW set, NEW gaps, Taken(i, set, gaps) PROVE {s.arg.src, s.arg.dst} \subseteq again'
    <3>1. PICK p \in placed, q \in placed : p[1] = k[1] /\ q[1] = k[3]
      BY <1>5, <2>3 DEF SpineFollowsDocuments
    <3>2. {s.arg.src, s.arg.dst} \subseteq Ids(ToSet(set.concepts))
      <4>1. s.arg \in ToSet(set.edges)
        BY <1>5, <2>3, TakenThread
      <4> QED BY <2>3, <4>1 DEF Taken, Yields
    <3> QED BY <1>3, <2>1, <2>3, <3>1, <3>2
  <2> QED BY <2>2, <2>3, TodoShrinks
<1>6. ASSUME NEW i \in SourceIds, NEW s \in Todo(i)', s.op = "edge", s.arg.provenance = "inferred",
             NEW r \in Todo(i)', r.op = "edge", r.arg.provenance = "spine"
      PROVE  Key(r.arg) # Key(s.arg)
  <2>1. CASE s \in Todo(i) /\ r \in Todo(i)
    BY <1>6, <2>1 DEF Rivals
  <2>2. ASSUME NEW set, NEW gaps, Taken(i, set, gaps) PROVE Key(r.arg) # Key(s.arg)
    <3>1. s.arg \in ToSet(set.edges) /\ r.arg \in ToSet(set.edges)
      BY <1>6, <2>2, TakenThread
    <3>2. EdgeKeyOf(r.arg) # EdgeKeyOf(s.arg)
      BY <1>6, <2>2, <3>1 DEF Taken, Yields
    <3> QED BY <3>2 DEF EdgeKeyOf, Key
  <2> QED BY <2>1, <2>2, TodoShrinks
<1> QED BY <1>2, <1>4, <1>5, <1>6 DEF Rivals, Ids, Key

\* What can be counted on goes on to be.
LEMMA TrustedStays ==
  ASSUME Typed, Staged, Threads, Spared, Rivals, [Next]_vars, NEW c, NEW d, Trusted(c, d)
  PROVE  Trusted(c, d)'
<1> DEFINE k == <<c.id, "prerequisite", d.id>>
<1>1. again \subseteq again' /\ k[1] = c.id /\ k[3] = d.id
  BY Growth
<1>2. {c.id, d.id} \subseteq again \/ (k \in DOMAIN edges /\ edges[k].provenance = "spine")
  BY DEF Trusted
<1> HIDE DEF k
<1>3. {c.id, d.id} \subseteq again' \/ (k \in DOMAIN edges' /\ edges'[k].provenance = "spine")
  BY <1>1, <1>2, SpineStays
<1> QED BY <1>3 DEF Trusted, k

\* A spine edge that is written can be counted on.
LEMMA WrittenSpine ==
  ASSUME Typed, NEW c \in Found, NEW d \in Found, UpsertEdge(SpineEdge(c, d))
  PROVE  Trusted(c, d)'
<1> DEFINE e == SpineEdge(c, d)
           k == <<c.id, "prerequisite", d.id>>
<1>1. e \in MadeEdge /\ e.src = c.id /\ e.dst = d.id /\ e.type = "prerequisite" /\ e.provenance = "spine"
  BY SpineEdgeType
<1> HIDE DEF e
<1>2. Key(e) = k
  BY <1>1 DEF Key
<1>3. k \in DOMAIN edges' /\ edges'[k].provenance = "spine"
  BY <1>1, <1>2, UpsertedEdge DEF e
<1> QED BY <1>3 DEF Trusted

\* Every step keeps the backbone stored or on its way.
LEMMA BackboneStep ==
  ASSUME Typed, Staged, Threads, Spared, Rivals, Backbone, [Next]_vars
  PROVE  Backbone'
<1> DEFINE Link(i, n) == \/ Trusted(Ordered(i)[n], Ordered(i)[n + 1])
                         \/ FirstFile(Ordered(i)[n].refs) # Sources[i].file
                         \/ Ordered(i)[n].id \in work[i].gaps
                         \/ [op |-> "edge", arg |-> SpineEdge(Ordered(i)[n], Ordered(i)[n + 1])] \in Todo(i)
           Stitched(p) == \/ Trusted(Last(Ordered(p[1])), Head(Ordered(p[2])))
                          \/ SpineEdge(Last(Ordered(p[1])), Head(Ordered(p[2]))) \in queue
<1>1. ASSUME NEW i \in SpineRuns', NEW n \in 1 .. Len(Ordered(i)') - 1
      PROVE  Link(i, n)'
  <2>1. i \in SourceIds /\ Sources[i].spine /\ work'[i].result # <<>>
    BY <1>1 DEF SpineRuns
  <2>2. ASSUME work'[i].result = work[i].result, work'[i].gaps = work[i].gaps
        PROVE  /\ i \in SpineRuns /\ Made(i)' = Made(i) /\ Ordered(i)' = Ordered(i) /\ n \in 1 .. Len(Ordered(i)) - 1
               /\ Ordered(i)[n] \in Found /\ Ordered(i)[n + 1] \in Found
    <3>1. i \in SpineRuns /\ Made(i)' = Made(i) /\ Ordered(i)' = Ordered(i)
      BY <2>1, <2>2 DEF SpineRuns, Made, Ordered
    <3>2. n \in 1 .. Len(Ordered(i)) - 1
      BY <1>1, <3>1
    <3>3. Ordered(i)[n] \in Found /\ Ordered(i)[n + 1] \in Found
      BY <3>1, <3>2, TailAndHead
    <3> QED BY <3>1, <3>2, <3>3
  <2>3. ASSUME work'[i].result = work[i].result, work'[i].gaps = work[i].gaps,
               [op |-> "edge", arg |-> SpineEdge(Ordered(i)[n], Ordered(i)[n + 1])] \in Todo(i) =>
                 \/ [op |-> "edge", arg |-> SpineEdge(Ordered(i)[n], Ordered(i)[n + 1])] \in Todo(i)'
                 \/ UpsertEdge(SpineEdge(Ordered(i)[n], Ordered(i)[n + 1]))
        PROVE  Link(i, n)'
    <3>1. /\ i \in SpineRuns /\ Ordered(i)' = Ordered(i) /\ n \in 1 .. Len(Ordered(i)) - 1
          /\ Ordered(i)[n] \in Found /\ Ordered(i)[n + 1] \in Found
      BY <2>2, <2>3
    <3>2. PICK c \in Found, d \in Found : /\ c = Ordered(i)[n] /\ d = Ordered(i)[n + 1]
                                         /\ c = Ordered(i)'[n] /\ d = Ordered(i)'[n + 1]
      BY <3>1
    <3> DEFINE s == [op |-> "edge", arg |-> SpineEdge(c, d)]
    <3>3. Trusted(c, d) \/ FirstFile(c.refs) # Sources[i].file \/ c.id \in work[i].gaps \/ s \in Todo(i)
      BY <3>1, <3>2 DEF Backbone
    <3>4. Trusted(c, d) => Trusted(c, d)'
      BY TrustedStays
    <3>5. UpsertEdge(SpineEdge(c, d)) => Trusted(c, d)'
      BY WrittenSpine
    <3>6. s \in Todo(i) => s \in Todo(i)' \/ UpsertEdge(SpineEdge(c, d))
      BY <2>3, <3>2
    <3>7. Trusted(c, d)' \/ FirstFile(c.refs) # Sources[i].file \/ c.id \in work'[i].gaps \/ s \in Todo(i)'
      BY <2>3, <3>3, <3>4, <3>5, <3>6
    <3> QED BY <3>2, <3>7 DEF Trusted
  <2>4. CASE work'[i] = work[i]
    <3>1. Todo(i)' = Todo(i)
      BY <2>4 DEF Todo
    <3> QED BY <2>3, <2>4, <3>1
  <2>5. CASE Executed(i)
    <3>1. /\ work'[i].gaps = work[i].gaps /\ work'[i].result = work[i].result
          /\ Todo(i) = Todo(i)' \cup {Head(work[i].todo)}
      BY <2>1, <2>5, AdvancedThread DEF Executed
    <3> DEFINE e == SpineEdge(Ordered(i)[n], Ordered(i)[n + 1])
               s == [op |-> "edge", arg |-> e]
    <3>2. s.op = "edge" /\ s.arg = e
      OBVIOUS
    <3>3. s = Head(work[i].todo) => UpsertEdge(e)
      BY <2>5, <3>2 DEF Executed
    <3>4. s \in Todo(i) => s \in Todo(i)' \/ UpsertEdge(e)
      BY <3>1, <3>3
    <3> QED BY <2>3, <3>1, <3>4
  <2>6. ASSUME NEW set, NEW gaps, Taken(i, set, gaps) PROVE Link(i, n)'
    <3> DEFINE o == InDocumentOrder(ToSet(set.concepts))
    <3>1. /\ Made(i)' = ToSet(set.concepts) /\ work'[i].gaps = gaps /\ work'[i].result = set.concepts
          /\ \A e \in ToSet(set.edges) : [op |-> "edge", arg |-> e] \in Todo(i)'
      BY <2>1, <2>6, TakenThread
    <3>2. Ordered(i)' = o
      BY <3>1 DEF Ordered
    <3>3. /\ \A m \in 1 .. Len(o) - 1 :
               \/ FirstFile(o[m].refs) # Sources[i].file
               \/ o[m].id \in gaps
               \/ SpineEdge(o[m], o[m + 1]) \in ToSet(set.edges)
      BY <2>1, <2>6 DEF Taken, Yields
    <3> HIDE DEF o
    <3>4. n \in 1 .. Len(o) - 1
      BY <1>1, <3>2
    <3>5. \/ FirstFile(o[n].refs) # Sources[i].file
          \/ o[n].id \in work'[i].gaps
          \/ [op |-> "edge", arg |-> SpineEdge(o[n], o[n + 1])] \in Todo(i)'
      BY <3>1, <3>3, <3>4
    <3> QED BY <3>2, <3>5
  <2>7. ~Empty(work'[i])
    BY <2>1 DEF Empty
  <2> QED BY <2>1, <2>4, <2>5, <2>6, <2>7, ThreadsMove
<1>2. ASSUME stage' = "stitch", NEW p \in Neighbours'
      PROVE  Stitched(p)'
  <2>1. UNCHANGED work /\ (Stitch \/ (stage = "stitch" /\ queue' \subseteq queue))
    BY <1>2 DEF Next, StartBuild, Stitch, LinkIsolated, EndCommand, Abort, UpsertQueued, Cite, Procure, Ingest,
                SourceFails, WriteProse, WriteRow, WriteVector, WriteEdge, Executes, vars
  <2>2. /\ p \in Neighbours /\ p[1] \in SpineRuns /\ p[2] \in SpineRuns
        /\ \A i : Ordered(i)' = Ordered(i)
    BY <1>2, <2>1 DEF Neighbours, SpineRuns, Ordered
  <2>3. PICK c \in Found, d \in Found : /\ c = Last(Ordered(p[1])) /\ d = Head(Ordered(p[2]))
                                       /\ c = Last(Ordered(p[1])') /\ d = Head(Ordered(p[2])')
    <3>1. Last(Ordered(p[1])) \in Found /\ Head(Ordered(p[2])) \in Found
      BY <2>2, TailAndHead
    <3> QED BY <2>2, <3>1
  <2>4. CASE Stitch
    <3>1. SpineEdge(c, d) \in Stitches
      BY <2>2, <2>3 DEF Stitches
    <3>2. SpineEdge(c, d) \in queue'
      BY <2>4, <3>1 DEF Stitch
    <3> QED BY <2>3, <3>2
  <2>5. CASE stage = "stitch" /\ queue' \subseteq queue
    <3>1. Trusted(c, d) \/ SpineEdge(c, d) \in queue
      BY <2>2, <2>3, <2>5 DEF Backbone
    <3>2. Trusted(c, d) => Trusted(c, d)'
      BY TrustedStays
    <3>3. SpineEdge(c, d) \in queue => SpineEdge(c, d) \in queue' \/ UpsertEdge(SpineEdge(c, d))
      BY <1>2, <2>5 DEF Next, StartBuild, Stitch, LinkIsolated, EndCommand, Abort, UpsertQueued, Cite, Procure, Ingest,
                  SourceFails, WriteProse, WriteRow, WriteVector, WriteEdge, Executes, vars
    <3>4. Trusted(c, d)' \/ SpineEdge(c, d) \in queue'
      BY <3>1, <3>2, <3>3, WrittenSpine
    <3> QED BY <2>3, <3>4 DEF Trusted
  <2> QED BY <2>1, <2>4, <2>5
<1> QED BY <1>1, <1>2 DEF Backbone

---------------------------------------------------------------------------
\* The invariant is inductive, and what follows from it

\* A command line that starts holds the invariant.
LEMMA Initial == Init => IInv
<1> SUFFICES ASSUME Init PROVE IInv
  OBVIOUS
<1>1. Typed /\ Staged /\ Threads
  BY TypedInit
<1>2. \A i \in SourceIds : work[i] = NoThread /\ work[i].todo = <<>> /\ work[i].result = <<>> /\ i \notin Running
  BY DEF Init, Idle, NoThread, Running
<1>3. \A i \in SourceIds : Todo(i) = {} /\ Made(i) = {} /\ Halfway(i) = {} /\ i \notin SpineRuns
  <2>1. ToSet(<<>>) = {}
    BY DEF ToSet
  <2> QED BY <1>2, <2>1 DEF Todo, Made, Halfway, SpineRuns
<1>4. SpineRuns = {}
  BY <1>3 DEF SpineRuns
<1>5. /\ DOMAIN rows = {} /\ DOMAIN vectors = {} /\ DOMAIN bundle = {} /\ DOMAIN edges = {} /\ queue = {}
      /\ stage = "idle"
  BY DEF Init
<1>6. Spared /\ RowCites /\ QueueCites /\ NothingFabricated /\ SpineFollowsDocuments
  BY <1>5 DEF Spared, RowCites, QueueCites, NothingFabricated, SpineFollowsDocuments
<1>7. Halves /\ RowTellsContent
  BY <1>2, <1>3, <1>5 DEF Halves, HalfHolds, RowTellsContent
<1>8. ToFollow /\ Rivals
  BY <1>3, <1>5 DEF ToFollow, Rivals, Ids
<1>9. Backbone
  BY <1>4, <1>5 DEF Backbone
<1> QED BY <1>1, <1>6, <1>7, <1>8, <1>9 DEF IInv

\* Every step keeps the invariant.
LEMMA Inductive == IInv /\ [Next]_vars => IInv'
<1> SUFFICES ASSUME IInv, [Next]_vars PROVE IInv'
  OBVIOUS
<1>1. /\ Typed /\ Staged /\ Threads /\ Spared /\ Halves /\ RowTellsContent /\ RowCites /\ QueueCites
      /\ NothingFabricated /\ ToFollow /\ SpineFollowsDocuments /\ Rivals /\ Backbone
  BY DEF IInv
<1>2. Typed' /\ Staged' /\ Threads'
  BY <1>1, TypedStep, StagedStep, ThreadsStep
<1>3. Spared'
  BY <1>1, SparedStep
<1>4. Halves' /\ RowTellsContent'
  BY <1>1, HalvesStep
<1>5. RowCites' /\ QueueCites' /\ NothingFabricated'
  BY <1>1, RowCitesStep, QueueCitesStep, FabricatedStep
<1>6. ToFollow' /\ SpineFollowsDocuments'
  BY <1>1, ToFollowStep, SpineFollowsStep
<1>7. Rivals' /\ Backbone'
  BY <1>1, RivalsStep, BackboneStep
<1> QED BY <1>2, <1>3, <1>4, <1>5, <1>6, <1>7 DEF IInv

\* The tables, the queue and the threads have values of their types in every
\* reachable state of every build.
THEOREM TypeCorrect == Spec => []TypeOK
<1>1. IInv => TypeOK
  <2> SUFFICES ASSUME Typed, Staged PROVE TypeOK
    BY DEF IInv
  <2>1. ASSUME NEW c \in DOMAIN rows PROVE rows[c].refs \in Seq(Ref)
    <3>1. rows[c].refs \in Seq(FileRef)
      BY DEF Typed, Row
    <3>2. FileRef \subseteq Ref
      BY DEF FileRef, Ref
    <3> QED BY <3>1, <3>2
  <2>2. (\A c \in DOMAIN vectors : vectors[c] \in Looks) /\ (\A k \in DOMAIN edges : edges[k] \in EdgeRow)
    BY DEF Typed
  <2> QED BY <2>1, <2>2 DEF TypeOK, Typed, Staged
<1> QED BY <1>1, Initial, Inductive, PTL DEF Spec

\* However threads, failures and later runs interleave, a row that none of them
\* tore tells of the document and of the vector under its id (pipeline.py:75-117).
THEOREM RowsAlwaysTellContent == Spec => []RowTellsContent
<1>1. IInv => RowTellsContent
  BY DEF IInv
<1> QED BY <1>1, Initial, Inductive, PTL DEF Spec

\* Whatever the models answer and the tutor cites, every row cites an input, and
\* every edge of a build does, but for one whose concept was produced with an
\* invented first citation (passes.py:22-28, embedding_linker.py:150-201).
THEOREM NothingIsEverFabricated == Spec => []NothingFabricated
<1>1. IInv => NothingFabricated
  BY DEF IInv
<1> QED BY <1>1, Initial, Inductive, PTL DEF Spec

\* Whatever fails, is pending or is built again, a stored spine edge runs with
\* the documents (build.py:379-435, passes.py:551-625).
THEOREM SpineAlwaysFollowsDocuments == Spec => []SpineFollowsDocuments
<1>1. IInv => SpineFollowsDocuments
  BY DEF IInv
<1> QED BY <1>1, Initial, Inductive, PTL DEF Spec

\* Once the stitches of a build are in, its backbone has no link missing that
\* the gates did not take out (build.py:379-435, passes.py:565-608).
THEOREM SpineIsAlwaysUnbroken == Spec => []SpineUnbroken
<1>1. IInv => SpineUnbroken
  <2> SUFFICES ASSUME Typed, Staged, Threads, Backbone, stage = "stitch", queue = {} PROVE SpineUnbroken
    BY DEF IInv, SpineUnbroken
  <2>1. \A i \in SpineRuns : Todo(i) = {}
    BY NothingToDo DEF SpineRuns
  <2>2. \A i \in SpineRuns : \A n \in 1 .. Len(Ordered(i)) - 1 :
          \/ Trusted(Ordered(i)[n], Ordered(i)[n + 1])
          \/ FirstFile(Ordered(i)[n].refs) # Sources[i].file
          \/ Ordered(i)[n].id \in work[i].gaps
    BY <2>1 DEF Backbone
  <2>3. \A p \in Neighbours : Trusted(Last(Ordered(p[1])), Head(Ordered(p[2])))
    BY DEF Backbone
  <2> QED BY <2>2, <2>3 DEF SpineUnbroken, Trusted
<1> QED BY <1>1, Initial, Inductive, PTL DEF Spec

\* No step of any build, of the linker or of the tutor demotes a trusted edge to
\* a guess, unless both its ends were produced more than once (passes.py:630-640).
THEOREM BackboneIsKept == Spec => BackboneKept
<1>1. IInv /\ [Next]_vars => [\A k \in DOMAIN edges :
        edges[k].provenance = "spine" /\ ~({k[1], k[3]} \subseteq again') => edges'[k].provenance = "spine"]_vars
  <2> SUFFICES ASSUME Typed, Staged, Threads, Spared, Rivals, [Next]_vars, NEW k \in DOMAIN edges,
                      edges[k].provenance = "spine", ~({k[1], k[3]} \subseteq again')
               PROVE  edges'[k].provenance = "spine"
    BY DEF IInv
  <2>1. again \subseteq again'
    BY Growth
  <2> QED BY <2>1, SpineStays
<1> QED BY <1>1, Initial, Inductive, PTL DEF Spec, BackboneKept

\* The linker never overwrites an edge that existed when it looked
\* (embedding_linker.py:150-201).
THEOREM LinkerOnlyAdds == Spec => LinkOnlyAdds
<1>1. IInv /\ [Next]_vars =>
        [stage = "link" =>
            \A k \in seen :
              /\ edges'[k].provenance = edges[k].provenance /\ edges'[k].cite = edges[k].cite
              /\ edges'[k].exposures >= edges[k].exposures]_vars
  BY LinkAdds DEF IInv
<1> QED BY <1>1, Initial, Inductive, PTL DEF Spec, LinkOnlyAdds
=============================================================================

--------------------------- MODULE LearnerDeskProofs ---------------------------
(***************************************************************************)
(* Proofs about LearnerDesk: for any concepts, documents, handlers and any   *)
(* number of calls, what is read from the bundle is what was put, the index  *)
(* is its projection, reconcile() keeps what it does not own, the numbers of  *)
(* the check-ins add up, and both families of adapters answer alike.         *)
(***************************************************************************)
EXTENDS LearnerDesk, FiniteSetTheorems, SequenceTheorems, WellFoundedInduction, TLAPS

---------------------------------------------------------------------------
\* The format: a document reads back as it was composed

\* What Append adds at the end, Front takes away.
LEMMA FrontOfAppend ==
  ASSUME NEW X, NEW s \in Seq(X), NEW x \in X
  PROVE  Front(Append(s, x)) = s
<1> DEFINE t == Append(s, x)
<1>1. t \in Seq(X) /\ Len(t) = Len(s) + 1 /\ Len(s) \in Nat
  BY AppendProperties, LenProperties
<1>2. \A n \in 1 .. Len(s) : t[n] = s[n]
  BY AppendProperties
<1> HIDE DEF t
<1>3. SubSeq(t, 1, Len(s)) \in Seq(X) /\ Len(SubSeq(t, 1, Len(s))) = Len(s)
      /\ \A n \in 1 .. Len(s) : SubSeq(t, 1, Len(s))[n] = t[n]
  BY <1>1
<1>4. SubSeq(t, 1, Len(s)) = s
  BY <1>1, <1>2, <1>3, SeqEqual
<1>5. Len(t) - 1 = Len(s)
  BY <1>1
<1> QED BY <1>4, <1>5 DEF Front, t

\* A reference reads back, but for a path without a line that ends in a number.
LEMMA RefReadsBack ==
  ASSUME NEW r \in Ref, ~(r.line = NoLine /\ r.file.numbers # <<>>)
  PROVE  RenderRef(r) \in Path /\ ParseRef(RenderRef(r)) = r
<1>1. r = [file |-> r.file, line |-> r.line] /\ r.file \in Path /\ r.line \in Nat
  BY DEF Ref
<1>2. r.file = [path |-> r.file.path, numbers |-> r.file.numbers]
      /\ r.file.path \in STRING /\ r.file.numbers \in Seq(Nat)
  BY <1>1 DEF Path
<1>3. CASE r.line = NoLine
  <2>1. RenderRef(r) = r.file
    BY <1>3 DEF RenderRef
  <2>2. r.file.numbers = <<>>
    BY <1>3
  <2> QED BY <1>1, <1>3, <2>1, <2>2 DEF ParseRef
<1>4. CASE r.line # NoLine
  <2> DEFINE long == Append(r.file.numbers, r.line)
  <2>1. long \in Seq(Nat) /\ long # <<>> /\ Len(long) = Len(r.file.numbers) + 1 /\ Len(r.file.numbers) \in Nat
    BY <1>1, <1>2
  <2>2. Last(long) = r.line
    BY <1>1, <1>2, <2>1 DEF Last
  <2>3. Front(long) = r.file.numbers
    BY <1>1, <1>2, <2>1, FrontOfAppend
  <2>4. RenderRef(r) = [r.file EXCEPT !.numbers = long]
    BY <1>4 DEF RenderRef
  <2> HIDE DEF long
  <2>5. RenderRef(r) = [path |-> r.file.path, numbers |-> long]
    BY <1>2, <2>4
  <2>6. [RenderRef(r) EXCEPT !.numbers = Front(@)] = r.file
    BY <1>2, <2>3, <2>5
  <2>7. ParseRef(RenderRef(r)) = [file |-> r.file, line |-> r.line]
    BY <2>1, <2>2, <2>5, <2>6 DEF ParseRef
  <2> QED BY <1>1, <1>2, <2>1, <2>5, <2>7 DEF Path
<1> QED BY <1>3, <1>4

\* One list of citations, flattened, is that list.
LEMMA FlattenOne ==
  ASSUME NEW s
  PROVE  FlattenSeq([m \in 1 .. 1 |-> s]) = s
<1> DEFINE one == [m \in 1 .. 1 |-> s]
           Flat(f) == f = [i \in 1 .. 1 |-> IF i = 1 THEN one[i] ELSE f[i - 1] \o one[i]]
           flatten == CHOOSE f : Flat(f)
<1>1. one \in Seq({s}) /\ Len(one) = 1 /\ one[1] = s
  OBVIOUS
<1>2. FlattenSeq(one) = flatten[Len(one)]
  <2>1. FlattenSeq(one) = (CHOOSE f : f = [i \in 1 .. Len(one) |-> IF i = 1 THEN one[i] ELSE f[i - 1] \o one[i]])[Len(one)]
    <3>1. Len(one) # 0
      BY <1>1
    <3> HIDE DEF one
    <3> QED BY <3>1, Zenon DEF FlattenSeq
  <2> HIDE DEF one
  <2> QED BY <1>1, <2>1
<1> HIDE DEF one
<1>3. Flat([i \in 1 .. 1 |-> one[i]])
  <2> DEFINE g == [i \in 1 .. 1 |-> one[i]]
  <2>1. \A i \in 1 .. 1 : i = 1
    OBVIOUS
  <2>2. g = [i \in 1 .. 1 |-> IF i = 1 THEN one[i] ELSE g[i - 1] \o one[i]]
    <3> HIDE DEF g
    <3>1. [i \in 1 .. 1 |-> one[i]] = [i \in 1 .. 1 |-> IF i = 1 THEN one[i] ELSE g[i - 1] \o one[i]]
      BY <2>1
    <3> QED BY <3>1 DEF g
  <2> QED BY <2>2
<1> HIDE DEF Flat
<1>4. Flat(flatten)
  BY <1>3
<1> HIDE DEF flatten
<1>5. flatten[1] = one[1]
  BY <1>4 DEF Flat
<1> QED BY <1>1, <1>2, <1>5 DEF one

\* A block that is read.
Lf(b) == [b EXCEPT !.cr = FALSE]

\* Reading goes block by block.
LEMMA ReadTextMaps ==
  ASSUME NEW X, NEW s \in Seq(X)
  PROVE  /\ ReadText(s) \in Seq({Lf(x) : x \in X}) /\ Len(ReadText(s)) = Len(s)
         /\ \A n \in 1 .. Len(s) : ReadText(s)[n] = Lf(s[n])
<1> DEFINE N == Len(s)
           Y == {Lf(x) : x \in X}
           g == [n \in 1 .. N |-> Lf(s[n])]
<1>1. N \in Nat /\ DOMAIN s = 1 .. N /\ \A n \in 1 .. N : s[n] \in X
  OBVIOUS
<1>2. ReadText(s) = g
  BY <1>1 DEF ReadText, Lf
<1>3. \A n \in 1 .. N : Lf(s[n]) \in Y
  BY <1>1
<1> HIDE DEF N, Y
<1>4. g \in [1 .. N -> Y] /\ \A n \in 1 .. N : g[n] = Lf(s[n])
  BY <1>3
<1> HIDE DEF g
<1>5. g \in Seq(Y) /\ Len(g) = N
  BY <1>1, <1>4
<1> QED BY <1>2, <1>4, <1>5 DEF N, Y

LEMMA ReadTextConcat ==
  ASSUME NEW X, NEW s \in Seq(X), NEW t \in Seq(X)
  PROVE  ReadText(s \o t) = ReadText(s) \o ReadText(t)
<1> DEFINE Y == {Lf(x) : x \in X}
           u == s \o t
           a == ReadText(s)
           b == ReadText(t)
<1>1. /\ u \in Seq(X) /\ Len(u) = Len(s) + Len(t)
      /\ \A i \in 1 .. Len(s) + Len(t) : u[i] = IF i <= Len(s) THEN s[i] ELSE t[i - Len(s)]
  BY ConcatProperties
<1>2. a \in Seq(Y) /\ Len(a) = Len(s) /\ \A n \in 1 .. Len(s) : a[n] = Lf(s[n])
  BY ReadTextMaps
<1>3. b \in Seq(Y) /\ Len(b) = Len(t) /\ \A n \in 1 .. Len(t) : b[n] = Lf(t[n])
  BY ReadTextMaps
<1> HIDE DEF a, b, u
<1>4. ReadText(u) \in Seq(Y) /\ Len(ReadText(u)) = Len(u) /\ \A n \in 1 .. Len(u) : ReadText(u)[n] = Lf(u[n])
  BY <1>1, ReadTextMaps
<1> HIDE DEF Y
<1>5. /\ a \o b \in Seq(Y) /\ Len(a \o b) = Len(a) + Len(b)
      /\ \A i \in 1 .. Len(a) + Len(b) : (a \o b)[i] = IF i <= Len(a) THEN a[i] ELSE b[i - Len(a)]
  <2>1. a \in Seq(Y) /\ b \in Seq(Y)
    BY <1>2, <1>3
  <2> QED BY <2>1, ConcatProperties
<1>6. Len(s) \in Nat /\ Len(t) \in Nat
  OBVIOUS
<1>7. ASSUME NEW i \in 1 .. Len(s) + Len(t)
      PROVE  ReadText(u)[i] = (a \o b)[i]
  <2>1. CASE i <= Len(s)
    BY <1>1, <1>2, <1>3, <1>4, <1>5, <1>6, <2>1
  <2>2. CASE ~(i <= Len(s))
    <3> DEFINE j == i - Len(s)
    <3>1. j \in 1 .. Len(t) /\ u[i] = t[j] /\ (a \o b)[i] = b[j]
      BY <1>1, <1>2, <1>3, <1>5, <1>6, <2>2
    <3> HIDE DEF j
    <3> QED BY <1>1, <1>3, <1>4, <3>1
  <2> QED BY <2>1, <2>2
<1>8. Len(ReadText(u)) = Len(a \o b) /\ Len(a \o b) = Len(s) + Len(t)
  BY <1>1, <1>2, <1>3, <1>4, <1>5
<1> DEFINE v == ReadText(u)
           w == a \o b
<1>9. v \in Seq(Y) /\ w \in Seq(Y) /\ Len(v) = Len(w) /\ \A i \in 1 .. Len(v) : v[i] = w[i]
  BY <1>4, <1>5, <1>7, <1>8
<1> HIDE DEF v, w
<1>10. v = w
  BY <1>9, SeqEqual
<1> QED BY <1>10 DEF v, w, u, a, b

\* A document is read as a document of as many blocks.
LEMMA ReadTextOfDocument ==
  ASSUME NEW d \in Seq(Block)
  PROVE  ReadText(d) \in Seq(Block) /\ Len(ReadText(d)) = Len(d) /\ (ReadText(d) = <<>> <=> d = <<>>)
<1> DEFINE Y == {Lf(x) : x \in Block}
<1>1. ReadText(d) \in Seq(Y) /\ Len(ReadText(d)) = Len(d)
  BY ReadTextMaps
<1>2. Y \subseteq Block
  <2> SUFFICES ASSUME NEW x \in Block PROVE Lf(x) \in Block
    OBVIOUS
  <2> QED BY DEF Lf, Block
<1> HIDE DEF Y
<1>3. ReadText(d) \in Seq(Block)
  BY <1>1, <1>2, SeqMonotonic
<1> DEFINE e == ReadText(d)
<1> HIDE DEF e
<1>4. e \in Seq(Block) /\ Len(e) = Len(d)
  BY <1>1, <1>3 DEF e
<1>5. e = <<>> <=> d = <<>>
  BY <1>4, EmptySeq
<1> QED BY <1>4, <1>5 DEF e

\* What the code itself writes has no carriage return.
LEMMA LfOfOurs ==
  ASSUME NEW t, NEW l
  PROVE  Lf([text |-> t, cr |-> FALSE, cites |-> l]) = [text |-> t, cr |-> FALSE, cites |-> l]
<1> DEFINE r == [text |-> t, cr |-> FALSE, cites |-> l]
<1>1. r \in [text : {t}, cr : BOOLEAN, cites : {l}] /\ r.cr = FALSE
  OBVIOUS
<1> HIDE DEF r
<1>2. r = [text |-> r.text, cr |-> r.cr, cites |-> r.cites]
  BY <1>1
<1>3. [r EXCEPT !.cr = FALSE] = [text |-> r.text, cr |-> FALSE, cites |-> r.cites]
  BY <1>1
<1>4. [r EXCEPT !.cr = FALSE] = r
  BY <1>1, <1>2, <1>3
<1> QED BY <1>4 DEF Lf, r

LEMMA ReadTextOfOne ==
  ASSUME NEW b, Lf(b) = b
  PROVE  ReadText(<<b>>) = <<b>>
<1>1. DOMAIN <<b>> = 1 .. 1 /\ \A n \in 1 .. 1 : <<b>>[n] = b
  OBVIOUS
<1>2. ReadText(<<b>>) = [n \in 1 .. 1 |-> b]
  BY <1>1 DEF ReadText, Lf
<1> QED BY <1>2

\* Of texts without carriage returns, one that is not ambiguous reads back.
LEMMA TextReadsBack ==
  ASSUME NEW content \in [body : Document, refs : Seq(Ref)],
         ~(content.refs = <<>> /\ Fences(content.body) # {}),
         ~\E cited \in ToSet(content.refs) : cited.line = NoLine /\ cited.file.numbers # <<>>
  PROVE  SplitCitations(ComposeConcept(content)) = content
<1> DEFINE body == content.body
           refs == content.refs
           cites == [n \in DOMAIN refs |-> RenderRef(refs[n])]
           tail == <<Fence, List(cites)>>
           file == body \o tail
           K == Len(body)
<1>1. /\ content = [body |-> body, refs |-> refs] /\ body \in Seq(Block) /\ body # <<>> /\ refs \in Seq(Ref)
      /\ K \in Nat /\ K >= 1
  BY DEF Document
<1>2. CASE refs = <<>>
  <2>1. ComposeConcept(content) = body
    BY <1>2 DEF ComposeConcept
  <2>2. Fences(body) = {}
    BY <1>2
  <2> QED BY <1>1, <1>2, <2>1, <2>2 DEF SplitCitations
<1>3. CASE refs # <<>>
  <2>1. ASSUME NEW n \in DOMAIN refs PROVE refs[n] \in Ref /\ RenderRef(refs[n]) \in Path /\ ParseRef(RenderRef(refs[n])) = refs[n]
    <3>1. refs[n] \in ToSet(content.refs) /\ refs[n] \in Ref
      BY <1>1 DEF ToSet
    <3>2. ~(refs[n].line = NoLine /\ refs[n].file.numbers # <<>>)
      BY <3>1
    <3> QED BY <3>1, <3>2, RefReadsBack
  <2>2. cites \in Seq(Path) /\ DOMAIN cites = DOMAIN refs
    <3>1. DOMAIN refs = 1 .. Len(refs) /\ Len(refs) \in Nat
      BY <1>1
    <3>2. cites \in [1 .. Len(refs) -> Path]
      BY <2>1, <3>1
    <3> QED BY <3>1, <3>2
  <2>3. ComposeConcept(content) = file
    BY <1>3 DEF ComposeConcept
  <2> HIDE DEF cites
  <2> DEFINE X == Block \cup {tail[1], tail[2]}
  <2>4. tail \in Seq(X) /\ Len(tail) = 2 /\ tail[1] = Fence /\ tail[2].cites = cites /\ body \in Seq(X)
    <3> DEFINE b == List(cites)
    <3>1. b.cites = cites
      BY DEF List
    <3> HIDE DEF b
    <3>2. tail = <<Fence, b>>
      BY DEF b
    <3> HIDE DEF tail, X
    <3>3. tail[1] = Fence /\ tail[2] = b /\ Len(tail) = 2
      BY <3>2
    <3>4. tail \in Seq({Fence, b})
      BY <3>2
    <3>5. tail \in Seq(X)
      <4>1. {Fence, b} \subseteq X
        BY <3>3 DEF X
      <4> DEFINE Y == {Fence, b}
      <4> HIDE DEF Y
      <4> QED BY <3>4, <4>1, SeqMonotonic DEF Y
    <3>6. tail \in Seq(X) /\ Len(tail) = 2 /\ tail[1] = Fence /\ tail[2].cites = cites
      BY <3>1, <3>3, <3>5
    <3>7. Block \subseteq X
      BY DEF X
    <3> QED BY <1>1, <3>6, <3>7, SeqMonotonic
  <2> HIDE DEF tail, X
  <2>5. /\ file \in Seq(X) /\ Len(file) = K + 2 /\ file[K + 1] = tail[1] /\ file[K + 2] = tail[2]
        /\ \A n \in 1 .. K : file[n] = body[n]
    <3>1. /\ body \o tail \in Seq(X) /\ Len(body \o tail) = Len(body) + Len(tail)
          /\ \A i \in 1 .. Len(body) + Len(tail) :
               (body \o tail)[i] = IF i <= Len(body) THEN body[i] ELSE tail[i - Len(body)]
      BY <1>1, <2>4, ConcatProperties
    <3> HIDE DEF body
    <3> QED BY <1>1, <2>4, <3>1
  <2>6. SubSeq(file, 1, K) = body
    <3>1. SubSeq(file, 1, K) = SubSeq(body, 1, K)
      BY <1>1, <2>4, SubSeqOfConcat1
    <3> QED BY <1>1, <3>1, SubSeqFull
  <2> HIDE DEF file
  <2>7. K + 1 \in Fences(file) /\ \A n \in Fences(file) : n <= K + 1
    BY <1>1, <2>4, <2>5 DEF Fences
  <2>8. SplitCitations(ComposeConcept(content)) = SplitAt(file, K + 1)
    <3> DEFINE IsLast(n) == \A m \in Fences(file) : m <= n
    <3>1. \A n \in Fences(file) : IsLast(n) => n = K + 1
      BY <1>1, <2>7 DEF Fences
    <3>2. IsLast(K + 1)
      BY <2>7
    <3>3. SplitCitations(file) = SplitAt(file, CHOOSE n \in Fences(file) : IsLast(n))
      BY <2>7 DEF SplitCitations
    <3> HIDE DEF IsLast
    <3>4. (CHOOSE n \in Fences(file) : IsLast(n)) = K + 1
      BY <2>7, <3>1, <3>2
    <3> QED BY <2>3, <3>3, <3>4
  <2>9. FlattenSeq([m \in 1 .. Len(file) - (K + 1) |-> file[(K + 1) + m].cites]) = cites
    <3>1. Len(file) - (K + 1) = 1
      BY <1>1, <2>5
    <3>2. \A m \in 1 .. 1 : file[(K + 1) + m].cites = cites
      <4> SUFFICES ASSUME NEW m \in 1 .. 1 PROVE file[(K + 1) + m].cites = cites
        OBVIOUS
      <4>1. (K + 1) + m = K + 2
        BY <1>1
      <4>2. file[K + 2].cites = cites
        BY <2>4, <2>5
      <4> DEFINE k == (K + 1) + m
      <4>3. k = K + 2
        BY <4>1
      <4> HIDE DEF k
      <4>4. file[k].cites = cites
        BY <4>2, <4>3
      <4> QED BY <4>4 DEF k
    <3>3. [m \in 1 .. 1 |-> file[(K + 1) + m].cites] = [m \in 1 .. 1 |-> cites]
      BY <3>2
    <3> QED BY <3>1, <3>3, FlattenOne
  <2>10. SplitAt(file, K + 1) = [body |-> SubSeq(file, 1, K), refs |-> [m \in DOMAIN cites |-> ParseRef(cites[m])]]
    <3>1. (K + 1) - 1 = K
      BY <1>1
    <3> QED BY <2>9, <3>1 DEF SplitAt
  <2>11. \A m \in DOMAIN refs : ParseRef(cites[m]) = refs[m]
    BY <2>1 DEF cites
  <2>12. [m \in DOMAIN cites |-> ParseRef(cites[m])] = refs
    BY <1>1, <2>2, <2>11
  <2> QED BY <1>1, <2>6, <2>8, <2>10, <2>12
<1> QED BY <1>2, <1>3

\* A concept's document reads back, unless it is ambiguous.
LEMMA ConceptReadsBack ==
  ASSUME NEW content \in [body : Document, refs : Seq(Ref)], ~Ambiguous(content)
  PROVE  SplitConcept(ComposeConcept(content)) = [body |-> ReadText(content.body), refs |-> content.refs]
<1> DEFINE given == content.body
           refs == content.refs
           text == [body |-> ReadText(given), refs |-> refs]
           cites == [n \in DOMAIN refs |-> RenderRef(refs[n])]
           tail == <<Fence, List(cites)>>
<1>1. given \in Seq(Block) /\ given # <<>> /\ refs \in Seq(Ref)
  BY DEF Document
<1>2. /\ text \in [body : Document, refs : Seq(Ref)] /\ text.body = ReadText(given) /\ text.refs = refs
  <2> HIDE DEF given, refs
  <2>1. ReadText(given) \in Document
    BY <1>1, ReadTextOfDocument DEF Document
  <2> QED BY <1>1, <2>1
<1>3. /\ ~(text.refs = <<>> /\ Fences(text.body) # {})
      /\ ~\E cited \in ToSet(text.refs) : cited.line = NoLine /\ cited.file.numbers # <<>>
  BY <1>2 DEF Ambiguous
<1>4. SplitCitations(ComposeConcept(text)) = text
  <2> HIDE DEF text
  <2> QED BY <1>2, <1>3, TextReadsBack
<1>5. ReadText(ComposeConcept(content)) = ComposeConcept(text)
  <2>1. CASE refs = <<>>
    BY <1>2, <2>1 DEF ComposeConcept
  <2>2. CASE refs # <<>>
    <3>1. ComposeConcept(content) = given \o tail /\ ComposeConcept(text) = ReadText(given) \o tail
      BY <1>2, <2>2 DEF ComposeConcept
    <3> DEFINE b == List(cites)
               one == <<Fence>>
               two == <<b>>
               X == Block \cup {Fence, b}
    <3>2. Lf(Fence) = Fence /\ Lf(b) = b
      BY LfOfOurs, Zenon DEF Fence, Text, List
    <3> HIDE DEF b
    <3>3. ReadText(one) = one /\ ReadText(two) = two
      BY <3>2, ReadTextOfOne
    <3>4. one \in Seq(X) /\ two \in Seq(X) /\ tail = one \o two
      BY DEF b
    <3>5. given \in Seq(X)
      <4>1. Block \subseteq X
        OBVIOUS
      <4> HIDE DEF X, given
      <4> QED BY <1>1, <4>1, SeqMonotonic
    <3> HIDE DEF X, one, two, given, tail
    <3>6. ReadText(tail) = tail /\ tail \in Seq(X)
      <4>1. tail \in Seq(X)
        BY <3>4, ConcatProperties
      <4>2. ReadText(one \o two) = ReadText(one) \o ReadText(two)
        BY <3>4, ReadTextConcat
      <4> QED BY <3>3, <3>4, <4>1, <4>2
    <3>7. ReadText(given \o tail) = ReadText(given) \o tail
      BY <3>5, <3>6, ReadTextConcat
    <3> QED BY <3>1, <3>7
  <2> QED BY <2>1, <2>2
<1> QED BY <1>4, <1>5 DEF SplitConcept

\* A block in front of a document.
LEMMA OneThen ==
  ASSUME NEW X, NEW e \in X, NEW s \in Seq(X), s # <<>>
  PROVE  LET t == <<e>> \o s
         IN  /\ t \in Seq(X) /\ Len(t) = Len(s) + 1 /\ t[1] = e
             /\ \A n \in 2 .. Len(s) + 1 : t[n] = s[n - 1]
             /\ SubSeq(t, 2, Len(s) + 1) = s
<1> DEFINE one == <<e>>
           t == one \o s
<1>1. one \in Seq(X) /\ Len(one) = 1 /\ one[1] = e /\ Len(s) \in Nat /\ Len(s) >= 1
  OBVIOUS
<1> HIDE DEF one
<1> DEFINE k == 1 + Len(s)
<1>2. /\ t \in Seq(X) /\ Len(t) = Len(one) + Len(s)
      /\ \A i \in 1 .. Len(one) + Len(s) : t[i] = IF i <= Len(one) THEN one[i] ELSE s[i - Len(one)]
  BY <1>1, ConcatProperties
<1>3. SubSeq(one \o s, 2, k) = SubSeq(s, 2 - Len(one), k - Len(one))
  <2>1. 2 \in Len(one) + 1 .. Len(one) + Len(s) /\ k \in Len(one) + 1 .. Len(one) + Len(s)
    BY <1>1
  <2> HIDE DEF k
  <2> QED BY <1>1, <2>1, SubSeqOfConcat2
<1>4. SubSeq(s, 1, Len(s)) = s
  BY SubSeqFull
<1>5. 2 - Len(one) = 1 /\ k - Len(one) = Len(s) /\ k = Len(s) + 1
  BY <1>1
<1>6. SubSeq(t, 2, Len(s) + 1) = s
  BY <1>3, <1>4, <1>5
<1> HIDE DEF t
<1>7. t[1] = e /\ \A n \in 2 .. Len(s) + 1 : t[n] = s[n - 1]
  BY <1>1, <1>2
<1>8. t \in Seq(X) /\ Len(t) = Len(s) + 1
  BY <1>1, <1>2
<1> QED BY <1>6, <1>7, <1>8 DEF t, one

\* Of texts without carriage returns, a prompt without a rubric section reads back.
LEMMA QuestionTextReadsBack ==
  ASSUME NEW p \in Document, NEW r \in Document \cup {<<>>}, ~\E n \in 2 .. Len(p) : p[n] = RubricFence
  PROVE  SplitQuestionBody(ComposeQuestion([prompt |-> p, rubric |-> r])) = [prompt |-> p, rubric |-> r]
<1> DEFINE X == Block \cup {PromptFence, RubricFence}
           head == <<PromptFence>>
           mid == <<RubricFence>>
           content == [prompt |-> p, rubric |-> r]
           first == head \o p
           rest == IF r = <<>> THEN <<>> ELSE mid \o r
           file == first \o rest
           P == Len(p)
           R == Len(r)
           fences == {n \in 3 .. Len(file) - 1 : file[n] = RubricFence}
<1>1. /\ head \in Seq(X) /\ Len(head) = 1 /\ head[1] = PromptFence
      /\ mid \in Seq(X) /\ Len(mid) = 1 /\ mid[1] = RubricFence
  OBVIOUS
<1>2. /\ p \in Seq(X) /\ P \in Nat /\ P >= 1
      /\ r \in Seq(X) /\ R \in Nat /\ (r # <<>> => R >= 1)
  <2>1. Block \subseteq X
    OBVIOUS
  <2>2. p \in Seq(Block) /\ p # <<>> /\ r \in Seq(Block)
    <3>1. p \in Seq(Block) /\ p # <<>>
      BY DEF Document
    <3>2. r \in Seq(Block)
      BY EmptySeq DEF Document
    <3> QED BY <3>1, <3>2
  <2>3. p \in Seq(X) /\ r \in Seq(X)
    BY <2>1, <2>2, SeqMonotonic
  <2> HIDE DEF X
  <2> QED BY <2>2, <2>3
<1>3. ComposeQuestion(content) = file
  BY DEF ComposeQuestion
<1>4. \A n \in 2 .. P : p[n] # RubricFence
  OBVIOUS
<1> HIDE DEF head, mid, X, P, R
<1>5. /\ first \in Seq(X) /\ Len(first) = P + 1 /\ first[1] = PromptFence
      /\ \A n \in 2 .. P + 1 : first[n] = p[n - 1]
  <2>1. p # <<>>
    BY DEF Document
  <2> QED BY <1>1, <1>2, <2>1, OneThen DEF head, P
<1>6. SubSeq(first, 2, P + 1) = p
  <2>1. p # <<>>
    BY DEF Document
  <2> QED BY <1>1, <1>2, <2>1, OneThen DEF head, P
<1> HIDE DEF first
<1>7. SplitQuestionBody(file) =
        IF Len(file) < 2 \/ file[1] # PromptFence THEN [prompt |-> file, rubric |-> <<>>]
        ELSE IF fences = {} THEN [prompt |-> Tail(file), rubric |-> <<>>]
        ELSE [prompt |-> SubSeq(file, 2, (CHOOSE n \in fences : \A m \in fences : n <= m) - 1),
              rubric |-> SubSeq(file, (CHOOSE n \in fences : \A m \in fences : n <= m) + 1, Len(file))]
  <2> HIDE DEF file
  <2> QED BY Zenon DEF SplitQuestionBody
<1>8. CASE r = <<>>
  <2>1. file = first
    BY <1>5, <1>8, ConcatEmptySeq
  <2> HIDE DEF file
  <2>2. fences = {}
    <3> SUFFICES ASSUME NEW n \in 3 .. P, first[n] = RubricFence PROVE FALSE
      BY <1>2, <1>5, <2>1
    <3> DEFINE m == n - 1
    <3>1. m \in 2 .. P /\ first[n] = p[m]
      BY <1>2, <1>5
    <3> QED BY <3>1, <1>4
  <2>3. Tail(file) = p
    <3>1. Tail(first) = SubSeq(first, 2, Len(first))
      BY <1>2, <1>5, TailIsSubSeq
    <3> QED BY <1>5, <1>6, <2>1, <3>1
  <2>4. ~(Len(file) < 2 \/ file[1] # PromptFence)
    BY <1>2, <1>5, <2>1
  <2> HIDE DEF fences
  <2>5. SplitQuestionBody(file) = [prompt |-> p, rubric |-> <<>>]
    BY <1>7, <2>2, <2>3, <2>4
  <2> QED BY <1>3, <1>8, <2>5
<1>9. CASE r # <<>>
  <2> DEFINE end == mid \o r
  <2>1. end \in Seq(X) /\ Len(end) = R + 1 /\ end[1] = RubricFence
    BY <1>1, <1>2, <1>9, OneThen DEF mid, R
  <2>2. SubSeq(end, 2, R + 1) = r
    BY <1>1, <1>2, <1>9, OneThen DEF mid, R
  <2>3. file = first \o end
    BY <1>9
  <2> HIDE DEF end, file
  <2>4. /\ file \in Seq(X) /\ Len(file) = P + R + 2 /\ file[1] = PromptFence /\ file[P + 2] = RubricFence
        /\ \A n \in 2 .. P + 1 : file[n] = p[n - 1]
    <3>1. /\ file \in Seq(X) /\ Len(file) = Len(first) + Len(end)
          /\ \A i \in 1 .. Len(first) + Len(end) :
               file[i] = IF i <= Len(first) THEN first[i] ELSE end[i - Len(first)]
      BY <1>5, <2>1, <2>3, ConcatProperties
    <3> QED BY <1>2, <1>5, <2>1, <3>1
  <2>5. P + 2 \in fences /\ \A n \in fences : P + 2 <= n
    <3>1. P + 2 \in 3 .. Len(file) - 1
      BY <1>2, <1>9, <2>4
    <3>2. ASSUME NEW n \in fences, n < P + 2 PROVE FALSE
      <4>1. n \in 3 .. P + 1 /\ file[n] = RubricFence
        BY <1>2, <2>4, <3>2
      <4> DEFINE m == n - 1
      <4>2. m \in 2 .. P /\ file[n] = p[m]
        BY <1>2, <2>4, <4>1
      <4> QED BY <4>1, <4>2, <1>4
    <3>3. P + 2 \in Nat /\ \A n \in fences : n \in Nat
      BY <1>2
    <3> QED BY <2>4, <3>1, <3>2, <3>3
  <2>6. (CHOOSE n \in fences : \A m \in fences : n <= m) = P + 2
    <3>1. \A n \in fences : n \in Int
      OBVIOUS
    <3> HIDE DEF fences
    <3>2. \A n \in fences : (\A m \in fences : n <= m) => n = P + 2
      BY <1>2, <2>5, <3>1
    <3> QED BY <2>5, <3>2
  <2>7. SubSeq(file, 2, P + 1) = p
    <3>1. SubSeq(first \o end, 2, P + 1) = SubSeq(first, 2, P + 1)
      BY <1>2, <1>5, <2>1, SubSeqOfConcat1
    <3> QED BY <1>6, <2>3, <3>1
  <2>8. SubSeq(file, P + 3, P + R + 2) = r
    <3>1. SubSeq(first \o end, P + 3, P + R + 2) = SubSeq(end, (P + 3) - (P + 1), (P + R + 2) - (P + 1))
      <4>1. P + 3 \in Len(first) + 1 .. Len(first) + Len(end) /\ P + R + 2 \in Len(first) + 1 .. Len(first) + Len(end)
        BY <1>2, <1>5, <1>9, <2>1
      <4> DEFINE i == P + 3
                 j == P + R + 2
      <4> HIDE DEF i, j
      <4>2. i \in Len(first) + 1 .. Len(first) + Len(end) /\ j \in Len(first) + 1 .. Len(first) + Len(end)
        BY <4>1 DEF i, j
      <4>3. SubSeq(first \o end, i, j) = SubSeq(end, i - Len(first), j - Len(first))
        BY <1>5, <2>1, <4>2, SubSeqOfConcat2
      <4> QED BY <1>5, <4>3 DEF i, j
    <3>2. (P + 3) - (P + 1) = 2 /\ (P + R + 2) - (P + 1) = R + 1
      BY <1>2
    <3> QED BY <2>2, <2>3, <3>1, <3>2
  <2>9. ~(Len(file) < 2 \/ file[1] # PromptFence) /\ fences # {}
    BY <1>2, <2>4, <2>5
  <2>10. (P + 2) - 1 = P + 1 /\ (P + 2) + 1 = P + 3
    BY <1>2
  <2> HIDE DEF fences
  <2> QED BY <1>3, <1>7, <2>4, <2>6, <2>7, <2>8, <2>9, <2>10
<1> QED BY <1>8, <1>9

\* A question's document reads back, unless its prompt reads as if it had a
\* rubric section.
LEMMA QuestionReadsBack ==
  ASSUME NEW p \in Document, NEW r \in Document \cup {<<>>}, ~\E n \in 2 .. Len(p) : ReadText(p)[n] = RubricFence
  PROVE  SplitQuestion(ComposeQuestion([prompt |-> p, rubric |-> r])) = [prompt |-> ReadText(p), rubric |-> ReadText(r)]
<1> DEFINE head == <<PromptFence>>
           mid == <<RubricFence>>
           X == Block \cup {PromptFence, RubricFence}
           pt == ReadText(p)
           rt == ReadText(r)
<1>1. p \in Seq(Block) /\ p # <<>> /\ r \in Seq(Block)
  <2>1. p \in Seq(Block) /\ p # <<>>
    BY DEF Document
  <2>2. r \in Seq(Block)
    BY EmptySeq DEF Document
  <2> QED BY <2>1, <2>2
<1>2. pt \in Document /\ rt \in Document \cup {<<>>} /\ Len(pt) = Len(p) /\ (rt = <<>> <=> r = <<>>)
  BY <1>1, ReadTextOfDocument DEF Document
<1>3. ReadText(head) = head /\ ReadText(mid) = mid
  <2>1. Lf(PromptFence) = PromptFence /\ Lf(RubricFence) = RubricFence
    BY LfOfOurs, Zenon DEF PromptFence, RubricFence, Text
  <2> QED BY <2>1, ReadTextOfOne
<1>4. head \in Seq(X) /\ mid \in Seq(X)
  OBVIOUS
<1>5. p \in Seq(X) /\ r \in Seq(X)
  <2>1. Block \subseteq X
    OBVIOUS
  <2> HIDE DEF X
  <2> QED BY <1>1, <2>1, SeqMonotonic
<1>6. /\ ComposeQuestion([prompt |-> p, rubric |-> r]) = (head \o p) \o (IF r = <<>> THEN <<>> ELSE mid \o r)
      /\ ComposeQuestion([prompt |-> pt, rubric |-> rt]) = (head \o pt) \o (IF rt = <<>> THEN <<>> ELSE mid \o rt)
  BY DEF ComposeQuestion
<1> HIDE DEF X, head, mid
<1>7. ReadText(head \o p) = head \o pt /\ head \o p \in Seq(X)
  BY <1>3, <1>4, <1>5, ReadTextConcat, ConcatProperties
<1>8. ReadText(mid \o r) = mid \o rt /\ mid \o r \in Seq(X)
  BY <1>3, <1>4, <1>5, ReadTextConcat, ConcatProperties
<1>9. ReadText(ComposeQuestion([prompt |-> p, rubric |-> r])) = ComposeQuestion([prompt |-> pt, rubric |-> rt])
  <2>1. CASE r = <<>>
    <3>1. ReadText(<<>>) = <<>> /\ <<>> \in Seq(X)
      BY DEF ReadText
    <3> HIDE DEF pt, rt
    <3>2. ReadText((head \o p) \o <<>>) = ReadText(head \o p) \o ReadText(<<>>)
      BY <1>7, <3>1, ReadTextConcat
    <3>3. rt = <<>>
      BY <1>2, <2>1
    <3> QED BY <1>6, <1>7, <2>1, <3>1, <3>2, <3>3
  <2>2. CASE r # <<>>
    <3> HIDE DEF pt, rt
    <3>1. ReadText((head \o p) \o (mid \o r)) = ReadText(head \o p) \o ReadText(mid \o r)
      BY <1>7, <1>8, ReadTextConcat
    <3>2. rt # <<>>
      BY <1>2, <2>2
    <3> QED BY <1>6, <1>7, <1>8, <2>2, <3>1, <3>2
  <2> QED BY <2>1, <2>2
<1>10. ~\E n \in 2 .. Len(pt) : pt[n] = RubricFence
  BY <1>2
<1> HIDE DEF pt, rt
<1>11. SplitQuestionBody(ComposeQuestion([prompt |-> pt, rubric |-> rt])) = [prompt |-> pt, rubric |-> rt]
  BY <1>2, <1>10, QuestionTextReadsBack
<1> QED BY <1>9, <1>11 DEF SplitQuestion, pt, rt

---------------------------------------------------------------------------
\* Lists: what ORDER BY and sorted() return

\* A nonempty set of numbers has a least one.
LEMMA Least ==
  ASSUME NEW T \in SUBSET Nat, T # {}
  PROVE  \E x \in T : \A y \in T : x <= y
<1>1. \E x \in T : \A y \in T : ~(<<y, x>> \in OpToRel(<, Nat))
  BY NatLessThanWellFounded, WFMin
<1>2. PICK x \in T : \A y \in T : ~(y < x)
  BY <1>1 DEF OpToRel
<1> QED BY <1>2

\* A set of numbers that has 0 and the successors of its members has them all.
LEMMA NatInSteps ==
  ASSUME NEW S, 0 \in S, \A n \in Nat : n \in S => n + 1 \in S
  PROVE  \A n \in Nat : n \in S
<1> SUFFICES ASSUME Nat \ S # {} PROVE FALSE
  OBVIOUS
<1>1. PICK x \in Nat \ S : \A y \in Nat \ S : x <= y
  <2>1. Nat \ S \in SUBSET Nat
    OBVIOUS
  <2> QED BY <2>1, Least
<1>2. x # 0 /\ x - 1 \in Nat
  BY <1>1
<1>3. x - 1 \in S
  BY <1>1, <1>2
<1>4. (x - 1) + 1 \in S
  BY <1>2, <1>3
<1> QED BY <1>1, <1>4

\* Before is a strict total order of the domain of a key.
LEMMA BeforeOrders ==
  ASSUME NEW key, key \in [DOMAIN key -> Int], DOMAIN key \subseteq Nat,
         NEW x \in DOMAIN key, NEW y \in DOMAIN key, NEW z \in DOMAIN key
  PROVE  /\ ~Before(key, x, x)
         /\ Before(key, x, y) /\ Before(key, y, z) => Before(key, x, z)
         /\ x # y => Before(key, x, y) \/ Before(key, y, x)
<1> DEFINE a == key[x]
           b == key[y]
           c == key[z]
<1>1. a \in Int /\ b \in Int /\ c \in Int /\ x \in Nat /\ y \in Nat /\ z \in Nat
  OBVIOUS
<1>2. /\ Before(key, x, x) <=> (a < a \/ (a = a /\ x < x))
      /\ Before(key, x, y) <=> (a < b \/ (a = b /\ x < y))
      /\ Before(key, y, x) <=> (b < a \/ (b = a /\ y < x))
      /\ Before(key, y, z) <=> (b < c \/ (b = c /\ y < z))
      /\ Before(key, x, z) <=> (a < c \/ (a = c /\ x < z))
  BY DEF Before
<1> HIDE DEF a, b, c
<1> QED BY <1>1, <1>2

\* Finitely many keys have a first one.
LEMMA FirstOf ==
  ASSUME NEW key, key \in [DOMAIN key -> Int], DOMAIN key \subseteq Nat,
         NEW T \in SUBSET DOMAIN key, IsFiniteSet(T), T # {}
  PROVE  \E x \in T : \A y \in T \ {x} : Before(key, x, y)
<1> DEFINE S == {n \in Nat : \A U \in SUBSET DOMAIN key :
                   IsFiniteSet(U) /\ Cardinality(U) = n /\ U # {} => \E x \in U : \A y \in U \ {x} : Before(key, x, y)}
<1>1. 0 \in S
  BY FS_EmptySet
<1>2. ASSUME NEW n \in Nat, n \in S PROVE n + 1 \in S
  <2> SUFFICES ASSUME NEW U \in SUBSET DOMAIN key, IsFiniteSet(U), Cardinality(U) = n + 1, U # {}
               PROVE  \E x \in U : \A y \in U \ {x} : Before(key, x, y)
    OBVIOUS
  <2>1. PICK c \in U : TRUE
    OBVIOUS
  <2> DEFINE V == U \ {c}
  <2>2. IsFiniteSet(V) /\ Cardinality(V) = n
    <3>1. IsFiniteSet(V) /\ Cardinality(V) = Cardinality(U) - 1
      BY FS_RemoveElement
    <3> QED BY <3>1
  <2>3. CASE V = {}
    BY <2>3
  <2>4. CASE V # {}
    <3>1. PICK d \in V : \A y \in V \ {d} : Before(key, d, y)
      BY <1>2, <2>2, <2>4
    <3>2. CASE Before(key, c, d)
      <4> SUFFICES ASSUME NEW y \in V PROVE Before(key, c, y)
        OBVIOUS
      <4>1. y = d \/ Before(key, d, y)
        BY <3>1
      <4> QED BY <3>2, <4>1, BeforeOrders
    <3>3. CASE ~Before(key, c, d)
      <4>1. Before(key, d, c)
        BY <3>3, BeforeOrders
      <4> QED BY <3>1, <4>1
    <3> QED BY <3>2, <3>3
  <2> QED BY <2>3, <2>4
<1> HIDE DEF S
<1>3. \A n \in Nat : n \in S
  BY <1>1, <1>2, NatInSteps
<1>4. Cardinality(T) \in S
  BY <1>3, FS_CardinalityType
<1> QED BY <1>4 DEF S

\* list is what T is in the order of key.
InOrder(list, T, key) ==
  list \in [1 .. Cardinality(T) -> T] /\ \A m, n \in DOMAIN list : m < n => Before(key, list[m], list[n])

LEMMA OrderExists ==
  ASSUME NEW key, key \in [DOMAIN key -> Int], DOMAIN key \subseteq Nat,
         NEW T \in SUBSET DOMAIN key, IsFiniteSet(T)
  PROVE  \E list : InOrder(list, T, key)
<1> DEFINE S == {n \in Nat : \A U \in SUBSET DOMAIN key :
                   IsFiniteSet(U) /\ Cardinality(U) = n => \E list : InOrder(list, U, key)}
<1>1. 0 \in S
  <2> SUFFICES ASSUME NEW U \in SUBSET DOMAIN key, Cardinality(U) = 0 PROVE \E list : InOrder(list, U, key)
    OBVIOUS
  <2>1. InOrder([n \in 1 .. 0 |-> 0], U, key)
    BY DEF InOrder
  <2> QED BY <2>1
<1>2. ASSUME NEW n \in Nat, n \in S PROVE n + 1 \in S
  <2> SUFFICES ASSUME NEW U \in SUBSET DOMAIN key, IsFiniteSet(U), Cardinality(U) = n + 1
               PROVE  \E list : InOrder(list, U, key)
    OBVIOUS
  <2>1. U # {}
    BY FS_EmptySet
  <2>2. PICK c \in U : \A d \in U \ {c} : Before(key, c, d)
    BY <2>1, FirstOf
  <2> DEFINE V == U \ {c}
  <2>3. IsFiniteSet(V) /\ Cardinality(V) = n
    <3>1. IsFiniteSet(V) /\ Cardinality(V) = Cardinality(U) - 1
      BY FS_RemoveElement
    <3> QED BY <3>1
  <2>4. PICK p : InOrder(p, V, key)
    BY <2>3, <1>2
  <2>5. p \in [1 .. n -> V] /\ \A k, m \in 1 .. n : k < m => Before(key, p[k], p[m])
    BY <2>3, <2>4 DEF InOrder
  <2> HIDE DEF V
  <2> DEFINE o == [k \in 1 .. n + 1 |-> IF k = 1 THEN c ELSE p[k - 1]]
  <2>6. \A k \in 1 .. n + 1 : o[k] = IF k = 1 THEN c ELSE p[k - 1]
    OBVIOUS
  <2>7. \A k \in 1 .. n + 1 : k # 1 => k - 1 \in 1 .. n /\ p[k - 1] \in V
    BY <2>5
  <2>8. o \in [1 .. n + 1 -> U]
    BY <2>6, <2>7 DEF V
  <2> HIDE DEF o
  <2>9. ASSUME NEW k \in 1 .. n + 1, NEW m \in 1 .. n + 1, k < m PROVE Before(key, o[k], o[m])
    <3>1. m # 1 /\ m - 1 \in 1 .. n /\ o[m] = p[m - 1] /\ p[m - 1] \in V
      BY <2>6, <2>7, <2>9
    <3>2. CASE k = 1
      BY <3>1, <3>2, <2>2, <2>6 DEF V
    <3>3. CASE k # 1
      <4>1. k - 1 \in 1 .. n /\ o[k] = p[k - 1] /\ k - 1 < m - 1
        BY <3>3, <2>6, <2>7, <2>9
      <4> QED BY <3>1, <4>1, <2>5
    <3> QED BY <3>2, <3>3
  <2> QED BY <2>8, <2>9 DEF InOrder
<1> HIDE DEF S
<1>3. \A n \in Nat : n \in S
  BY <1>1, <1>2, NatInSteps
<1>4. Cardinality(T) \in S
  BY <1>3, FS_CardinalityType
<1> QED BY <1>4 DEF S

\* The list of a finite domain has each of it once, in order.
LEMMA ListedInOrder ==
  ASSUME NEW key, key \in [DOMAIN key -> Int], DOMAIN key \subseteq Nat, IsFiniteSet(DOMAIN key)
  PROVE  LET list == ListedBy(key)
         IN  /\ list \in Seq(DOMAIN key) /\ Len(list) = Cardinality(DOMAIN key) /\ Cardinality(DOMAIN key) \in Nat
             /\ DOMAIN list = 1 .. Len(list)
             /\ \A m, n \in DOMAIN list : m < n => Before(key, list[m], list[n])
             /\ ToSet(list) = DOMAIN key
<1> DEFINE T == DOMAIN key
           N == Cardinality(T)
           Sorted(o) == \A m, n \in DOMAIN o : m < n => Before(key, o[m], o[n])
           list == ListedBy(key)
<1>1. N \in Nat
  BY FS_CardinalityType
<1>2. \E p \in [1 .. N -> T] : Sorted(p)
  BY OrderExists DEF InOrder
<1>3. list = CHOOSE p \in [1 .. N -> T] : Sorted(p)
  BY DEF ListedBy
<1> HIDE DEF Sorted, list
<1>4. list \in [1 .. N -> T] /\ Sorted(list)
  BY <1>2, <1>3
<1>5. \A m, n \in 1 .. N : m < n => Before(key, list[m], list[n])
  BY <1>4 DEF Sorted
<1>6. \A m, n \in 1 .. N : list[m] = list[n] => m = n
  <2> SUFFICES ASSUME NEW m \in 1 .. N, NEW n \in 1 .. N, list[m] = list[n], m < n PROVE FALSE
    BY <1>1
  <2>1. Before(key, list[m], list[n]) /\ list[m] \in T
    BY <1>4, <1>5
  <2> QED BY <2>1, BeforeOrders
<1>7. list \in Injection(1 .. N, T)
  BY <1>4, <1>6 DEF Injection, IsInjective
<1>8. list \in Surjection(1 .. N, T)
  <2>1. Cardinality(1 .. N) = N
    BY <1>1, FS_Interval
  <2> QED BY <2>1, <1>7, FS_Injection
<1>9. list \in Seq(T) /\ Len(list) = N /\ DOMAIN list = 1 .. N
  BY <1>1, <1>4
<1>10. ToSet(list) = T
  BY <1>4, <1>8, <1>9 DEF ToSet, Surjection
<1> QED BY <1>1, <1>5, <1>9, <1>10 DEF list

\* Both families list in the same way.
LEMMA SameListing ==
  ASSUME NEW key
  PROVE  Pg!ListedBy(key) = ListedBy(key) /\ Memory!ListedBy(key) = ListedBy(key)
<1>1. Pg!ListedBy(key) = ListedBy(key)
  BY Zenon DEF Pg!ListedBy, Pg!Before, ListedBy, Before, Pg!Cardinality, Cardinality
<1>2. Memory!ListedBy(key) = ListedBy(key)
  BY Zenon DEF Memory!ListedBy, Memory!Before, ListedBy, Before, Memory!Cardinality, Cardinality
<1> QED BY <1>1, <1>2

---------------------------------------------------------------------------
\* The calls: what each does to the tables of the two families

IsStore(db) == DOMAIN db = DOMAIN NoTables

\* Every table but the changed ones is as it was.
Keeps(old, new, changed) ==
  /\ IsStore(new)
  /\ "concept" \notin changed => new.concept = old.concept
  /\ "vector" \notin changed => new.vector = old.vector
  /\ "edge" \notin changed => new.edge = old.edge
  /\ "question" \notin changed => new.question = old.question
  /\ "state" \notin changed => new.state = old.state
  /\ "reviews" \notin changed => new.reviews = old.reviews
  /\ "events" \notin changed => new.events = old.events
  /\ "note" \notin changed => new.note = old.note
  /\ "profile" \notin changed => new.profile = old.profile

\* A row of concept is put in both.
LEMMA PutConceptDoes ==
  ASSUME IsStore(pg), IsStore(ref), NEW c, NEW row, PutConcept(c, row)
  PROVE  /\ Keeps(pg, pg', {"concept"}) /\ Keeps(ref, ref', {"concept"}) /\ strayed' = strayed
         /\ pg'.concept = Put(pg.concept, c, row) /\ ref'.concept = Put(ref.concept, c, row)
<1>1. Pg!UpsertConcept(pg, c, row) = [pg EXCEPT !.concept = Put(@, c, row)]
  BY Zenon DEF Pg!UpsertConcept, Pg!InsertOrUpdate, Pg!Put, Put
<1>2. Memory!UpsertConcept(ref, c, row) = [ref EXCEPT !.concept = Put(@, c, row)]
  BY Zenon DEF Memory!UpsertConcept, Memory!Put, Put
<1>3. pg' = [pg EXCEPT !.concept = Put(@, c, row)] /\ ref' = [ref EXCEPT !.concept = Put(@, c, row)]
                                                   /\ strayed' = strayed
  BY <1>1, <1>2 DEF PutConcept, Both, Stray
<1> QED BY <1>3 DEF IsStore, Keeps, NoTables

\* A concept goes, and in the database all rows that reference it.
LEMMA DropConceptDoes ==
  ASSUME IsStore(pg), IsStore(ref), NEW c, DropConcept(c)
  PROVE  /\ Keeps(pg, pg', {"concept", "vector", "edge", "question", "state", "reviews"})
         /\ Keeps(ref, ref', {"concept", "vector"}) /\ strayed' = strayed \cup {c}
         /\ pg'.concept = Without(pg.concept, {c}) /\ ref'.concept = Without(ref.concept, {c})
         /\ pg'.vector = Without(pg.vector, {c}) /\ ref'.vector = Without(ref.vector, {c})
         /\ pg'.edge = Without(pg.edge, {k \in DOMAIN pg.edge : c \in {k[1], k[3]}})
         /\ pg'.question = Without(pg.question, {q \in DOMAIN pg.question : pg.question[q].concept = c})
         /\ pg'.state = Without(pg.state, {c}) /\ pg'.reviews = Without(pg.reviews, {c})
<1> DEFINE cut == [pg EXCEPT !.concept = Without(@, {c}),
                             !.vector = Without(@, {c}),
                             !.edge = Without(@, {k \in DOMAIN @ : c \in {k[1], k[3]}}),
                             !.question = Without(@, {q \in DOMAIN @ : @[q].concept = c}),
                             !.state = Without(@, {c}),
                             !.reviews = Without(@, {c})]
<1>1. Pg!DeleteConcept(pg, c) = cut
  BY Zenon DEF Pg!DeleteConcept, Pg!Without, Without
<1>2. Memory!DeleteConcept(ref, c) = [ref EXCEPT !.concept = Without(@, {c}), !.vector = Without(@, {c})]
  BY Zenon DEF Memory!DeleteConcept, Memory!Without, Without
<1>3. pg' = cut /\ ref' = [ref EXCEPT !.concept = Without(@, {c}), !.vector = Without(@, {c})]
      /\ strayed' = strayed \cup {c}
  BY <1>1, <1>2, Zenon DEF DropConcept, Both, Stray
<1>4. Keeps(ref, ref', {"concept", "vector"}) /\ ref'.concept = Without(ref.concept, {c}) /\ ref'.vector = Without(ref.vector, {c})
  BY <1>3 DEF IsStore, Keeps, NoTables
<1>5. Keeps(pg, pg', {"concept", "vector", "edge", "question", "state", "reviews"})
  BY <1>3 DEF IsStore, Keeps, NoTables
<1>6. pg'.concept = Without(pg.concept, {c}) /\ pg'.vector = Without(pg.vector, {c})
      /\ pg'.state = Without(pg.state, {c}) /\ pg'.reviews = Without(pg.reviews, {c})
  BY <1>3 DEF IsStore, NoTables
<1>7. pg'.edge = Without(pg.edge, {k \in DOMAIN pg.edge : c \in {k[1], k[3]}})
  BY <1>3 DEF IsStore, NoTables
<1>8. pg'.question = Without(pg.question, {q \in DOMAIN pg.question : pg.question[q].concept = c})
  BY <1>3 DEF IsStore, NoTables
<1> QED BY <1>3, <1>4, <1>5, <1>6, <1>7, <1>8

\* A vector is put; the database has none without its concept.
LEMMA PutVectorDoes ==
  ASSUME IsStore(pg), IsStore(ref), NEW c, NEW v, PutVector(c, v)
  PROVE  /\ Keeps(pg, pg', {"vector"}) /\ Keeps(ref, ref', {"vector"})
         /\ strayed' = strayed \cup ({c} \ DOMAIN pg.concept)
         /\ pg'.vector = IF c \in DOMAIN pg.concept THEN Put(pg.vector, c, v) ELSE pg.vector
         /\ ref'.vector = Put(ref.vector, c, v)
<1>1. Pg!SetEmbedding(pg, c, v) = IF c \in DOMAIN pg.concept THEN [pg EXCEPT !.vector = Put(@, c, v)] ELSE pg
  BY Zenon DEF Pg!SetEmbedding, Pg!Put, Put
<1>2. Memory!SetEmbedding(ref, c, v) = [ref EXCEPT !.vector = Put(@, c, v)]
  BY Zenon DEF Memory!SetEmbedding, Memory!Put, Put
<1>3. /\ pg' = IF c \in DOMAIN pg.concept THEN [pg EXCEPT !.vector = Put(@, c, v)] ELSE pg
      /\ ref' = [ref EXCEPT !.vector = Put(@, c, v)] /\ strayed' = strayed \cup ({c} \ DOMAIN pg.concept)
  BY <1>1, <1>2 DEF PutVector, Both, Stray, Unknown
<1> QED BY <1>3 DEF IsStore, Keeps, NoTables

\* An edge is put; the database has none without its ends.
LEMMA PutEdgeDoes ==
  ASSUME IsStore(pg), IsStore(ref), NEW key, NEW row, PutEdge(key, row)
  PROVE  /\ Keeps(pg, pg', {"edge"}) /\ Keeps(ref, ref', {"edge"})
         /\ strayed' = strayed \cup ({key[1], key[3]} \ DOMAIN pg.concept)
         /\ pg'.edge = IF {key[1], key[3]} \subseteq DOMAIN pg.concept THEN Put(pg.edge, key, row) ELSE pg.edge
         /\ ref'.edge = Put(ref.edge, key, row)
<1>1. Pg!UpsertEdge(pg, key, row) = IF {key[1], key[3]} \subseteq DOMAIN pg.concept
                                    THEN [pg EXCEPT !.edge = Put(@, key, row)] ELSE pg
  BY Zenon DEF Pg!UpsertEdge, Pg!Referencing, Pg!InsertOrUpdate, Pg!Put, Put
<1>2. Memory!UpsertEdge(ref, key, row) = [ref EXCEPT !.edge = Put(@, key, row)]
  BY Zenon DEF Memory!UpsertEdge, Memory!Put, Put
<1>3. /\ pg' = IF {key[1], key[3]} \subseteq DOMAIN pg.concept THEN [pg EXCEPT !.edge = Put(@, key, row)] ELSE pg
      /\ ref' = [ref EXCEPT !.edge = Put(@, key, row)] /\ strayed' = strayed \cup ({key[1], key[3]} \ DOMAIN pg.concept)
  BY <1>1, <1>2 DEF PutEdge, Both, Stray, Unknown
<1> QED BY <1>3 DEF IsStore, Keeps, NoTables

\* A question is put; the database has none without its concept.
LEMMA PutQuestionDoes ==
  ASSUME IsStore(pg), IsStore(ref), NEW q, NEW row, PutQuestion(q, row)
  PROVE  /\ Keeps(pg, pg', {"question"}) /\ Keeps(ref, ref', {"question"})
         /\ strayed' = strayed \cup ({row.concept} \ DOMAIN pg.concept)
         /\ pg'.question = IF {row.concept} \subseteq DOMAIN pg.concept THEN Put(pg.question, q, row) ELSE pg.question
         /\ ref'.question = Put(ref.question, q, row)
<1>1. Pg!UpsertQuestion(pg, q, row) = IF {row.concept} \subseteq DOMAIN pg.concept
                                      THEN [pg EXCEPT !.question = Put(@, q, row)] ELSE pg
  BY Zenon DEF Pg!UpsertQuestion, Pg!Referencing, Pg!InsertOrUpdate, Pg!Put, Put
<1>2. Memory!UpsertQuestion(ref, q, row) = [ref EXCEPT !.question = Put(@, q, row)]
  BY Zenon DEF Memory!UpsertQuestion, Memory!Put, Put
<1>3. /\ pg' = IF {row.concept} \subseteq DOMAIN pg.concept THEN [pg EXCEPT !.question = Put(@, q, row)] ELSE pg
      /\ ref' = [ref EXCEPT !.question = Put(@, q, row)] /\ strayed' = strayed \cup ({row.concept} \ DOMAIN pg.concept)
  BY <1>1, <1>2 DEF PutQuestion, Both, Stray, Unknown
<1> QED BY <1>3 DEF IsStore, Keeps, NoTables

\* A learner's state is put; the database has none without its concept.
LEMMA PutStateDoes ==
  ASSUME IsStore(pg), IsStore(ref), NEW c, NEW row, PutState(c, row)
  PROVE  /\ Keeps(pg, pg', {"state"}) /\ Keeps(ref, ref', {"state"})
         /\ strayed' = strayed \cup ({c} \ DOMAIN pg.concept)
         /\ pg'.state = IF {c} \subseteq DOMAIN pg.concept THEN Put(pg.state, c, row) ELSE pg.state
         /\ ref'.state = Put(ref.state, c, row)
<1>1. Pg!UpsertState(pg, c, row) = IF {c} \subseteq DOMAIN pg.concept THEN [pg EXCEPT !.state = Put(@, c, row)] ELSE pg
  BY Zenon DEF Pg!UpsertState, Pg!Referencing, Pg!InsertOrUpdate, Pg!Put, Put
<1>2. Memory!UpsertState(ref, c, row) = [ref EXCEPT !.state = Put(@, c, row)]
  BY Zenon DEF Memory!UpsertState, Memory!Put, Put
<1>3. /\ pg' = IF {c} \subseteq DOMAIN pg.concept THEN [pg EXCEPT !.state = Put(@, c, row)] ELSE pg
      /\ ref' = [ref EXCEPT !.state = Put(@, c, row)] /\ strayed' = strayed \cup ({c} \ DOMAIN pg.concept)
  BY <1>1, <1>2 DEF PutState, Both, Stray, Unknown
<1> QED BY <1>3 DEF IsStore, Keeps, NoTables

\* A review is logged; the database logs none without its concept.
LEMMA LogReviewDoes ==
  ASSUME IsStore(pg), IsStore(ref), NEW e, LogReview(e)
  PROVE  /\ Keeps(pg, pg', {"reviews"}) /\ Keeps(ref, ref', {"reviews"})
         /\ strayed' = strayed \cup ({e.concept} \ DOMAIN pg.concept)
         /\ pg'.reviews = IF {e.concept} \subseteq DOMAIN pg.concept
                          THEN Put(pg.reviews, e.concept, Append(GetOr(pg.reviews, e.concept, <<>>), e)) ELSE pg.reviews
         /\ ref'.reviews = Put(ref.reviews, e.concept, Append(GetOr(ref.reviews, e.concept, <<>>), e))
<1>1. Pg!AppendReview(pg, e) = IF {e.concept} \subseteq DOMAIN pg.concept
                               THEN [pg EXCEPT !.reviews = Put(@, e.concept, Append(GetOr(@, e.concept, <<>>), e))] ELSE pg
  BY Zenon DEF Pg!AppendReview, Pg!Referencing, Pg!GetOr, GetOr, Pg!Put, Put
<1>2. Memory!AppendReview(ref, e) = [ref EXCEPT !.reviews = Put(@, e.concept, Append(GetOr(@, e.concept, <<>>), e))]
  BY Zenon DEF Memory!AppendReview, Memory!ReviewsOf, Memory!GetOr, GetOr, Memory!Put, Put
<1>3. /\ pg' = IF {e.concept} \subseteq DOMAIN pg.concept
               THEN [pg EXCEPT !.reviews = Put(@, e.concept, Append(GetOr(@, e.concept, <<>>), e))] ELSE pg
      /\ ref' = [ref EXCEPT !.reviews = Put(@, e.concept, Append(GetOr(@, e.concept, <<>>), e))]
      /\ strayed' = strayed \cup ({e.concept} \ DOMAIN pg.concept)
  BY <1>1, <1>2 DEF LogReview, Both, Stray, Unknown
<1> QED BY <1>3 DEF IsStore, Keeps, NoTables

\* An event is logged in both.
LEMMA LogEventDoes ==
  ASSUME IsStore(pg), IsStore(ref), NEW e, LogEvent(e)
  PROVE  /\ Keeps(pg, pg', {"events"}) /\ Keeps(ref, ref', {"events"}) /\ strayed' = strayed
         /\ pg'.events = Append(pg.events, e) /\ ref'.events = Append(ref.events, e)
<1>1. Pg!AppendEvent(pg, e) = [pg EXCEPT !.events = Append(@, e)]
  BY Zenon DEF Pg!AppendEvent
<1>2. Memory!AppendEvent(ref, e) = [ref EXCEPT !.events = Append(@, e)]
  BY Zenon DEF Memory!AppendEvent
<1>3. pg' = [pg EXCEPT !.events = Append(@, e)] /\ ref' = [ref EXCEPT !.events = Append(@, e)] /\ strayed' = strayed
  BY <1>1, <1>2 DEF LogEvent, Both, Stray
<1> QED BY <1>3 DEF IsStore, Keeps, NoTables

\* A note is put in both.
LEMMA PutNoteDoes ==
  ASSUME IsStore(pg), IsStore(ref), NEW n, NEW row, PutNote(n, row)
  PROVE  /\ Keeps(pg, pg', {"note"}) /\ Keeps(ref, ref', {"note"}) /\ strayed' = strayed
         /\ pg'.note = Put(pg.note, n, row) /\ ref'.note = Put(ref.note, n, row)
<1>1. Pg!UpsertNote(pg, n, row) = [pg EXCEPT !.note = Put(@, n, row)]
  BY Zenon DEF Pg!UpsertNote, Pg!InsertOrUpdate, Pg!Put, Put
<1>2. Memory!UpsertNote(ref, n, row) = [ref EXCEPT !.note = Put(@, n, row)]
  BY Zenon DEF Memory!UpsertNote, Memory!Put, Put
<1>3. pg' = [pg EXCEPT !.note = Put(@, n, row)] /\ ref' = [ref EXCEPT !.note = Put(@, n, row)] /\ strayed' = strayed
  BY <1>1, <1>2 DEF PutNote, Both, Stray
<1> QED BY <1>3 DEF IsStore, Keeps, NoTables

\* A profile is put in both.
LEMMA PutProfileDoes ==
  ASSUME IsStore(pg), IsStore(ref), NEW o, NEW row, PutProfile(o, row)
  PROVE  /\ Keeps(pg, pg', {"profile"}) /\ Keeps(ref, ref', {"profile"}) /\ strayed' = strayed
         /\ pg'.profile = Put(pg.profile, o, row) /\ ref'.profile = Put(ref.profile, o, row)
<1>1. Pg!UpsertProfile(pg, o, row) = [pg EXCEPT !.profile = Put(@, o, row)]
  BY Zenon DEF Pg!UpsertProfile, Pg!InsertOrUpdate, Pg!Put, Put
<1>2. Memory!UpsertProfile(ref, o, row) = [ref EXCEPT !.profile = Put(@, o, row)]
  BY Zenon DEF Memory!UpsertProfile, Memory!Put, Put
<1>3. pg' = [pg EXCEPT !.profile = Put(@, o, row)] /\ ref' = [ref EXCEPT !.profile = Put(@, o, row)]
                                                   /\ strayed' = strayed
  BY <1>1, <1>2 DEF PutProfile, Both, Stray
<1> QED BY <1>3 DEF IsStore, Keeps, NoTables

\* An edge row once it has been exposed or skipped.
Exposed(table, key, skipped, at) ==
  [GetOr(table, key, Edge) EXCEPT !.exposures = @ + 1,
                                  !.skips = @ + (IF skipped THEN 1 ELSE 0),
                                  !.traversed = IF skipped THEN @ ELSE at]

\* A default edge with its counters set.
LEMMA EdgeWith ==
  ASSUME NEW e, NEW s, NEW t
  PROVE  [Edge EXCEPT !.exposures = e, !.skips = s, !.traversed = t]
           = [exposures |-> e, skips |-> s, traversed |-> t, provenance |-> "inferred"]
<1> DEFINE one == [Edge EXCEPT !.exposures = e]
           two == [one EXCEPT !.skips = s]
<1>1. one = [exposures |-> e, skips |-> 0, traversed |-> Null, provenance |-> "inferred"]
  BY DEF Edge
<1>2. [Edge EXCEPT !.exposures = e, !.skips = s, !.traversed = t] = [two EXCEPT !.traversed = t]
  OBVIOUS
<1> HIDE DEF one
<1>3. two = [exposures |-> e, skips |-> s, traversed |-> Null, provenance |-> "inferred"]
  BY <1>1
<1> HIDE DEF two
<1> QED BY <1>2, <1>3

\* An exposure is counted alike by both, where the database knows the ends.
LEMMA ExposeDoes ==
  ASSUME IsStore(pg), IsStore(ref), NEW key, NEW skipped \in BOOLEAN, NEW at, at # Null, Expose(key, skipped, at)
  PROVE  /\ Keeps(pg, pg', {"edge"}) /\ Keeps(ref, ref', {"edge"})
         /\ strayed' = strayed \cup ({key[1], key[3]} \ DOMAIN pg.concept)
         /\ pg'.edge = IF {key[1], key[3]} \subseteq DOMAIN pg.concept
                       THEN Put(pg.edge, key, Exposed(pg.edge, key, skipped, at)) ELSE pg.edge
         /\ ref'.edge = Put(ref.edge, key, Exposed(ref.edge, key, skipped, at))
<1> DEFINE inserted == [Edge EXCEPT !.exposures = 1, !.skips = IF skipped THEN 1 ELSE 0,
                                    !.traversed = IF skipped THEN Null ELSE at]
           updated == [pg.edge[key] EXCEPT !.exposures = @ + 1, !.skips = @ + inserted.skips,
                                           !.traversed = IF inserted.traversed = Null THEN @ ELSE inserted.traversed]
           row == IF key \in DOMAIN pg.edge THEN updated ELSE inserted
           known == {key[1], key[3]} \subseteq DOMAIN pg.concept
<1>1. Pg!RecordExposure(pg, key, skipped, at) = IF known THEN [pg EXCEPT !.edge = Put(@, key, row)] ELSE pg
  <2>1. Pg!RecordExposure(pg, key, skipped, at) =
          IF known THEN [pg EXCEPT !.edge = Put(@, key, IF key \in DOMAIN @ THEN updated ELSE inserted)] ELSE pg
    BY Zenon DEF Pg!RecordExposure, Pg!Referencing, Pg!Put, Put, Pg!Edge, Edge, Pg!Null, Null
  <2> HIDE DEF updated, inserted
  <2> QED BY <2>1
<1>2. row = Exposed(pg.edge, key, skipped, at)
  <2> DEFINE s == IF skipped THEN 1 ELSE 0
             t == IF skipped THEN Null ELSE at
             fresh == [exposures |-> 1, skips |-> s, traversed |-> t, provenance |-> "inferred"]
  <2>1. inserted = fresh /\ fresh.skips = s /\ fresh.traversed = t
    <3> HIDE DEF s, t
    <3>1. [Edge EXCEPT !.exposures = 1, !.skips = s, !.traversed = t] = fresh
      BY EdgeWith
    <3> QED BY <3>1 DEF s, t
  <2>2. inserted.skips = (IF skipped THEN 1 ELSE 0) /\ inserted.traversed = (IF skipped THEN Null ELSE at)
    BY <2>1
  <2>3. CASE key \in DOMAIN pg.edge
    <3>1. GetOr(pg.edge, key, Edge) = pg.edge[key]
      BY <2>3 DEF GetOr
    <3> DEFINE old == pg.edge[key]
    <3> HIDE DEF inserted, old
    <3>2. [old EXCEPT !.exposures = @ + 1, !.skips = @ + inserted.skips,
                      !.traversed = IF inserted.traversed = Null THEN @ ELSE inserted.traversed]
          = [old EXCEPT !.exposures = @ + 1, !.skips = @ + (IF skipped THEN 1 ELSE 0),
                        !.traversed = IF skipped THEN @ ELSE at]
      BY <2>2
    <3> QED BY <2>3, <3>1, <3>2 DEF Exposed, old
  <2>4. CASE key \notin DOMAIN pg.edge
    <3>1. GetOr(pg.edge, key, Edge) = Edge
      BY <2>4 DEF GetOr
    <3> DEFINE u == IF skipped THEN Edge.traversed ELSE at
    <3>2. 0 + 1 = 1 /\ 0 + s = s /\ u = t
      BY DEF Edge
    <3>3. Exposed(pg.edge, key, skipped, at) =
            [Edge EXCEPT !.exposures = Edge.exposures + 1, !.skips = Edge.skips + s, !.traversed = u]
      BY <3>1, Zenon DEF Exposed
    <3> HIDE DEF s, t, u, inserted, updated
    <3>4. [Edge EXCEPT !.exposures = Edge.exposures + 1, !.skips = Edge.skips + s, !.traversed = u]
            = [exposures |-> Edge.exposures + 1, skips |-> Edge.skips + s, traversed |-> u, provenance |-> "inferred"]
      BY EdgeWith
    <3>5. Edge.exposures = 0 /\ Edge.skips = 0
      BY DEF Edge
    <3>6. Exposed(pg.edge, key, skipped, at) = fresh
      BY <3>2, <3>3, <3>4, <3>5
    <3> HIDE DEF fresh
    <3> QED BY <2>1, <2>4, <3>6
  <2> QED BY <2>3, <2>4
<1>3. Memory!RecordExposure(ref, key, skipped, at) = [ref EXCEPT !.edge = Put(@, key, Exposed(ref.edge, key, skipped, at))]
  BY Zenon DEF Memory!RecordExposure, Memory!UpsertEdge, Memory!GetOr, Memory!Edge, Memory!Put, Memory!Null,
               Exposed, GetOr, Edge, Put, Null
<1> HIDE DEF row
<1>4. /\ pg' = IF known THEN [pg EXCEPT !.edge = Put(@, key, Exposed(pg.edge, key, skipped, at))] ELSE pg
      /\ ref' = [ref EXCEPT !.edge = Put(@, key, Exposed(ref.edge, key, skipped, at))]
      /\ strayed' = strayed \cup ({key[1], key[3]} \ DOMAIN pg.concept)
  BY <1>1, <1>2, <1>3 DEF Expose, Both, Stray, Unknown
<1> DEFINE new == Exposed(pg.edge, key, skipped, at)
           newRef == Exposed(ref.edge, key, skipped, at)
<1> HIDE DEF new, newRef
<1>5. /\ pg' = IF known THEN [pg EXCEPT !.edge = Put(@, key, new)] ELSE pg
      /\ ref' = [ref EXCEPT !.edge = Put(@, key, newRef)]
  BY <1>4 DEF new, newRef
<1> DEFINE table == Put(pg.edge, key, new)
           tableRef == Put(ref.edge, key, newRef)
<1> HIDE DEF table, tableRef
<1>6. pg' = (IF known THEN [pg EXCEPT !.edge = table] ELSE pg) /\ ref' = [ref EXCEPT !.edge = tableRef]
  BY <1>5 DEF table, tableRef
<1>7. /\ Keeps(pg, pg', {"edge"}) /\ Keeps(ref, ref', {"edge"})
      /\ pg'.edge = (IF known THEN table ELSE pg.edge) /\ ref'.edge = tableRef
  BY <1>6 DEF IsStore, Keeps, NoTables
<1> QED BY <1>4, <1>7 DEF table, tableRef, new, newRef

\* The table of questions with one retired.
Retired(table, q) == [r \in DOMAIN table |-> IF r = q THEN [table[r] EXCEPT !.status = "retired"] ELSE table[r]]

\* A question is retired in both, where they have it.
LEMMA RetireQuestionDoes ==
  ASSUME IsStore(pg), IsStore(ref), NEW q, RetireQuestion(q)
  PROVE  /\ Keeps(pg, pg', {"question"}) /\ Keeps(ref, ref', {"question"}) /\ strayed' = strayed
         /\ pg'.question = Retired(pg.question, q)
         /\ ref'.question = IF q \in DOMAIN ref.question
                            THEN Put(ref.question, q, [ref.question[q] EXCEPT !.status = "retired"])
                            ELSE ref.question
<1> DEFINE table == Put(ref.question, q, [ref.question[q] EXCEPT !.status = "retired"])
           old == pg.question
<1>1. Pg!Retire(pg, q) = [pg EXCEPT !.question = Retired(old, q)]
  BY Zenon DEF Pg!Retire, Retired
<1>2. Memory!Retire(ref, q) = IF q \in DOMAIN ref.question THEN [ref EXCEPT !.question = table] ELSE ref
  BY Zenon DEF Memory!Retire, Memory!UpsertQuestion, Memory!Put, Put
<1> HIDE DEF table, old
<1>3. /\ pg' = [pg EXCEPT !.question = Retired(old, q)]
      /\ ref' = (IF q \in DOMAIN ref.question THEN [ref EXCEPT !.question = table] ELSE ref)
      /\ strayed' = strayed
  BY <1>1, <1>2 DEF RetireQuestion, Both, Stray
<1> DEFINE new == Retired(old, q)
<1> HIDE DEF new
<1>4. pg' = [pg EXCEPT !.question = new]
  BY <1>3 DEF new
<1> QED BY <1>3, <1>4 DEF IsStore, Keeps, NoTables, new, table, old
---------------------------------------------------------------------------
\* reconcile() and the bundle: what the steps may do to them

\* The clock has started, and some commands are left or none.
Counted == clock \in Nat \ {0} /\ fuel \in Nat

StoresTyped ==
  /\ IsStore(pg) /\ IsStore(ref)
  /\ DOMAIN pg.concept \subseteq Concepts
  /\ \A c \in DOMAIN pg.concept : DOMAIN pg.concept[c] = {"course", "hash", "refs", "curation"}

\* Nothing that reconcile() or an author looks at changes.
Quiet ==
  /\ UNCHANGED syncing
  /\ Keeps(pg, pg', {"edge", "question", "state", "reviews", "events", "note", "profile"})
  /\ Keeps(ref, ref', {"edge", "question", "state", "reviews", "events", "note", "profile"})

\* Documents change that are marked as edited.
Rewrites ==
  /\ UNCHANGED <<stores, sync, curated, unembedded, desks>> /\ edited \subseteq edited'
  /\ \A c \in Concepts \ edited' :
       /\ moved' = moved /\ (c \in DOMAIN bundle' <=> c \in DOMAIN bundle)
       /\ c \in DOMAIN bundle => bundle'[c] = bundle[c]

Writes ==
  \/ \E c \in Concepts, n \in DOMAIN Contents : BeginWrite(c, Contents[n])
  \/ \E c \in Concepts : RemoveDocument(c)
  \/ MoveBundle \/ EndWrite \/ WriterDies

\* What a write leaves alone.
LEMMA WritesRewrite ==
  ASSUME Writes, UNCHANGED desks
  PROVE  Rewrites
<1>1. ASSUME NEW c \in Concepts, NEW w, BeginWrite(c, w) PROVE Rewrites
  BY <1>1 DEF BeginWrite, Rewrites, Touch, Put
<1>2. ASSUME NEW c \in Concepts, RemoveDocument(c) PROVE Rewrites
  BY <1>2 DEF RemoveDocument, Rewrites, Touch, Without
<1>3. CASE MoveBundle
  BY <1>3 DEF MoveBundle, Rewrites, Touch
<1>4. CASE EndWrite
  <2> DEFINE file == ComposeConcept(writing[2])
  <2> HIDE DEF file
  <2>1. bundle' = Put(bundle, writing[1], file) /\ edited' = edited \cup {writing[1]}
        /\ UNCHANGED <<stores, moved, sync, curated, unembedded>>
    BY <1>4 DEF EndWrite, Touch, file
  <2> QED BY <2>1 DEF Rewrites, Put
<1>5. CASE WriterDies
  BY <1>5 DEF WriterDies, Rewrites
<1> QED BY <1>1, <1>2, <1>3, <1>4, <1>5 DEF Writes

\* The handlers of the tutor and the learner's calls are quiet.
HandlerSteps ==
  \/ \E h \in Handlers : ReadStates(h) \/ ReadLast(h) \/ LogCheck(h) \/ LogFlag(h) \/ HandlerDies(h)
  \/ \E h \in Handlers, o \in Courses : OpenCheck(h, o)
  \/ \E h \in Handlers, q \in DOMAIN pg.question : Flag(h, q)
  \/ \E o \in Courses : Escalate(o)

\* A handler logs an event or retires a question, if it calls the stores at all.
LEMMA HandlersCall ==
  ASSUME HandlerSteps
  PROVE  UNCHANGED stores \/ (\E e : LogEvent(e)) \/ \E q : RetireQuestion(q)
<1>1. ASSUME NEW h, ReadStates(h) \/ ReadLast(h) \/ HandlerDies(h) PROVE UNCHANGED stores
  BY <1>1 DEF ReadStates, ReadLast, HandlerDies
<1>2. ASSUME NEW h, LogCheck(h) PROVE \E e : LogEvent(e)
  BY <1>2, Zenon DEF LogCheck
<1>3. ASSUME NEW h, LogFlag(h) PROVE \E e : LogEvent(e)
  BY <1>3, Zenon DEF LogFlag
<1>4. ASSUME NEW h, NEW o, OpenCheck(h, o) PROVE UNCHANGED stores
  BY <1>4 DEF OpenCheck
<1>5. ASSUME NEW h, NEW q, Flag(h, q) PROVE RetireQuestion(q)
  BY <1>5 DEF Flag
<1>6. ASSUME NEW o, Escalate(o) PROVE \E e : LogEvent(e)
  BY <1>6, Zenon DEF Escalate
<1> QED BY <1>1, <1>2, <1>3, <1>4, <1>5, <1>6 DEF HandlerSteps

\* What the learner and the author of questions and edges put in.
LearnerCalls ==
  \/ \E c \in Concepts, n \in Intervals \cup {Null} :
       PutState(c, [stability |-> n, due |-> IF n = Null THEN Null ELSE clock + n])
  \/ \E c \in Concepts : LogReview([concept |-> c, at |-> clock])
  \/ \E k \in Keys, skipped \in BOOLEAN : Expose(k, skipped, clock)
  \/ \E k \in Keys : PutEdge(k, [Edge EXCEPT !.provenance = "spine"])
  \/ \E c \in Concepts, k \in Keys :
       PutQuestion(c, [concept |-> c, edge |-> k, difficulty |-> c, hops |-> 1, status |-> "active"])
  \/ \E s \in {"active", "resolved"} :
       PutNote(1, [course |-> 1, kind |-> "insight", status |-> s, created |-> clock, due |-> clock + 1])
  \/ PutNote(2, [course |-> 2, kind |-> "goal", status |-> "active", created |-> clock, due |-> Null])
  \/ PutProfile(1, [confirmed |-> TRUE])

Spends == fuel > 0 /\ fuel' = fuel - 1

\* Every step is one of these.
LEMMA StepKinds ==
  ASSUME [Next]_vars
  PROVE  \/ UNCHANGED vars
         \/ Writes /\ UNCHANGED desks /\ (UNCHANGED fuel \/ Spends)
         \/ (\E o \in Courses, deletes \in BOOLEAN : StartSync(o, deletes)) /\ UNCHANGED desks /\ Spends
         \/ (\E c \in Concepts, w \in DOMAIN Weight : Curate(c, w)) /\ UNCHANGED desks /\ Spends
         \/ LearnerCalls /\ UNCHANGED <<syncing, desks>> /\ Spends
         \/ HandlerSteps /\ UNCHANGED syncing /\ (UNCHANGED fuel \/ Spends)
         \/ SyncStep /\ UNCHANGED <<desks, fuel>>
<1>1. CASE UNCHANGED vars
  BY <1>1
<1>2. CASE Command
  BY <1>2, Zenon DEF Command, Writes, HandlerSteps, LearnerCalls, Spends
<1>3. CASE Step
  BY <1>3, Zenon DEF Step, Writes, HandlerSteps
<1> QED BY <1>1, <1>2, <1>3 DEF Next

LEMMA LearnerIsQuiet ==
  ASSUME StoresTyped, Counted, LearnerCalls, UNCHANGED syncing
  PROVE  Quiet
<1> USE DEF StoresTyped
<1> DEFINE changed == {"edge", "question", "state", "reviews", "events", "note", "profile"}
<1>1. ASSUME NEW t, Keeps(pg, pg', t) /\ Keeps(ref, ref', t), t \subseteq changed PROVE Quiet
  <2>1. ASSUME NEW old, NEW new, Keeps(old, new, t) PROVE Keeps(old, new, changed)
    BY <1>1, <2>1 DEF Keeps
  <2> HIDE DEF changed
  <2>2. Keeps(pg, pg', changed) /\ Keeps(ref, ref', changed)
    BY <1>1, <2>1
  <2> QED BY <2>2 DEF Quiet, changed
<1>2. ASSUME NEW c, NEW row, PutState(c, row) PROVE Quiet
  BY <1>1, <1>2, PutStateDoes
<1>3. ASSUME NEW e, LogReview(e) PROVE Quiet
  BY <1>1, <1>3, LogReviewDoes
<1>4. ASSUME NEW k, NEW skipped \in BOOLEAN, Expose(k, skipped, clock) PROVE Quiet
  <2>1. clock # Null
    BY DEF Counted, Null
  <2> QED BY <1>1, <1>4, <2>1, ExposeDoes
<1>5. ASSUME NEW k, NEW row, PutEdge(k, row) PROVE Quiet
  BY <1>1, <1>5, PutEdgeDoes
<1>6. ASSUME NEW q, NEW row, PutQuestion(q, row) PROVE Quiet
  BY <1>1, <1>6, PutQuestionDoes
<1>7. ASSUME NEW n, NEW row, PutNote(n, row) PROVE Quiet
  BY <1>1, <1>7, PutNoteDoes
<1>8. ASSUME NEW o, NEW row, PutProfile(o, row) PROVE Quiet
  BY <1>1, <1>8, PutProfileDoes
<1> HIDE DEF StoresTyped
<1> QED BY <1>2, <1>3, <1>4, <1>5, <1>6, <1>7, <1>8, Zenon DEF LearnerCalls

LEMMA HandlersAreQuiet ==
  ASSUME StoresTyped, HandlerSteps, UNCHANGED syncing
  PROVE  Quiet
<1> USE DEF StoresTyped
<1>1. CASE UNCHANGED stores
  BY <1>1 DEF stores, Quiet, Keeps
<1>2. ASSUME NEW e, LogEvent(e) PROVE Quiet
  BY <1>2, LogEventDoes DEF Quiet, Keeps
<1>3. ASSUME NEW q, RetireQuestion(q) PROVE Quiet
  BY <1>3, RetireQuestionDoes DEF Quiet, Keeps
<1> HIDE DEF StoresTyped
<1> QED BY <1>1, <1>2, <1>3, HandlersCall

---------------------------------------------------------------------------
\* The steps of reconcile(), field by field

Phases == {"idle", "compare", "project", "embed", "delete", "done"}

SyncTyped ==
  /\ DOMAIN sync = DOMAIN NoSync /\ DOMAIN sync.report = Buckets
  /\ sync.phase \in Phases
  /\ DOMAIN sync.walk \subseteq sync.seen /\ sync.seen \subseteq Concepts
  /\ sync.phase \in {"project", "embed"} => DOMAIN sync.walk # {}
  /\ sync.phase \in {"delete", "done"} => DOMAIN sync.walk = {}

\* The least of a nonempty set of concepts is one of them.
LEMMA LeastIn ==
  ASSUME NEW T, T \subseteq Concepts, T # {}
  PROVE  LET c == CHOOSE x \in T : \A y \in T : x <= y
         IN  c \in T /\ \A y \in T : c <= y
<1>1. T \subseteq Nat
  BY StoreConstants
<1>2. \E x \in T : \A y \in T : x <= y
  BY <1>1, Least
<1> QED BY <1>2

\* While reconcile() deals with a concept, it is one that is left of the walk.
LEMMA CurrentIn ==
  ASSUME SyncTyped, DOMAIN sync.walk # {}
  PROVE  Current \in DOMAIN sync.walk /\ Current \in sync.seen /\ Current \in Concepts
<1>1. DOMAIN sync.walk \subseteq Concepts
  BY DEF SyncTyped
<1> QED BY <1>1, LeastIn DEF Current, SyncTyped

LEMMA CurrentStays ==
  ASSUME sync'.walk = sync.walk
  PROVE  Current' = Current /\ CurrentHash' = CurrentHash
BY Zenon DEF Current, CurrentHash

\* A concept in its bucket.
LEMMA ReportedHas ==
  ASSUME SyncTyped, NEW b \in Buckets, sync' = Reported(b)
  PROVE  /\ DOMAIN sync' = DOMAIN NoSync /\ sync'.phase = "compare"
         /\ sync'.course = sync.course /\ sync'.deletes = sync.deletes /\ sync'.seen = sync.seen
         /\ sync'.walk = Without(sync.walk, {Current}) /\ sync'.row = <<>>
         /\ DOMAIN sync'.report = Buckets /\ sync'.report[b] = sync.report[b] \cup {Current}
         /\ \A a \in Buckets \ {b} : sync'.report[a] = sync.report[a]
<1> DEFINE rest == Without(sync.walk, {Current})
           lists == [sync.report EXCEPT ![b] = @ \cup {Current}]
<1>1. sync' = [sync EXCEPT !.phase = "compare", !.walk = rest, !.row = <<>>, !.body = <<>>, !.report = lists]
  BY DEF Reported
<1>2. DOMAIN lists = Buckets /\ lists[b] = sync.report[b] \cup {Current}
      /\ \A a \in Buckets \ {b} : lists[a] = sync.report[a]
  BY DEF SyncTyped
<1> HIDE DEF rest, lists
<1>3. DOMAIN sync = {"phase", "course", "deletes", "walk", "row", "body", "seen", "report"} /\ DOMAIN NoSync = DOMAIN sync
  BY DEF SyncTyped, NoSync
<1>4. /\ DOMAIN sync' = DOMAIN sync /\ sync'.phase = "compare" /\ sync'.course = sync.course
      /\ sync'.deletes = sync.deletes /\ sync'.seen = sync.seen
      /\ sync'.walk = rest /\ sync'.row = <<>> /\ sync'.report = lists
  BY <1>1, <1>3
<1> QED BY <1>2, <1>3, <1>4 DEF rest

\* The walk begins.
LEMMA StartDoes ==
  ASSUME NEW o, NEW d, StartSync(o, d)
  PROVE  /\ ~Running /\ DOMAIN sync' = DOMAIN NoSync /\ sync'.phase = "compare"
         /\ sync'.course = o /\ sync'.deletes = d
         /\ sync'.walk = (IF moved THEN <<>> ELSE Without(bundle, Reserved)) /\ sync'.seen = DOMAIN sync'.walk /\ sync'.row = <<>>
         /\ sync'.report = [b \in Buckets |-> {}]
         /\ edited' = {} /\ curated' = {} /\ UNCHANGED <<stores, files, unembedded>>
<1> DEFINE walk == IF moved THEN <<>> ELSE Without(bundle, Reserved)
           none == [b \in Buckets |-> {}]
           all == DOMAIN walk
<1>1. sync' = [NoSync EXCEPT !.phase = "compare", !.course = o, !.deletes = d, !.walk = walk, !.seen = all]
  BY DEF StartSync
<1> HIDE DEF walk, none, all
<1>2. NoSync = [phase |-> "idle", course |-> Null, deletes |-> FALSE, walk |-> <<>>, row |-> <<>>,
                body |-> <<>>, seen |-> {}, report |-> none]
  BY DEF NoSync, none
<1>3. /\ DOMAIN sync' = DOMAIN NoSync /\ sync'.phase = "compare" /\ sync'.course = o /\ sync'.deletes = d
      /\ sync'.walk = walk /\ sync'.seen = all /\ sync'.row = <<>> /\ sync'.report = none
  BY <1>1, <1>2
<1> QED BY <1>3, Zenon DEF StartSync, walk, none, all

\* What reconcile() leaves alone but for its own record.
SyncKeepsRest(phase) ==
  /\ DOMAIN sync' = DOMAIN NoSync /\ sync'.phase = phase
  /\ sync'.course = sync.course /\ sync'.deletes = sync.deletes
  /\ sync'.seen = sync.seen /\ sync'.walk = sync.walk

\* The next concept is unchanged, or is projected with the row it had.
LEMMA CompareDoes ==
  ASSUME SyncTyped, Compare
  PROVE  /\ sync.phase = "compare" /\ DOMAIN sync.walk # {} /\ curated' = curated \ {Current}
         /\ UNCHANGED <<stores, files, edited, unembedded>>
         /\ \/ /\ Current \in DOMAIN pg.concept /\ pg.concept[Current].hash = CurrentHash
               /\ sync' = Reported("unchanged")
            \/ /\ SyncKeepsRest("project") /\ sync'.report = sync.report
               /\ sync'.row = IF Current \in DOMAIN pg.concept THEN <<pg.concept[Current]>> ELSE <<>>
<1> DEFINE row == IF Current \in DOMAIN pg.concept THEN <<pg.concept[Current]>> ELSE <<>>
<1>1. /\ sync.phase = "compare" /\ DOMAIN sync.walk # {} /\ curated' = curated \ {Current}
      /\ UNCHANGED <<stores, files, edited, unembedded>>
  BY DEF Compare
<1>2. \/ /\ Current \in DOMAIN pg.concept /\ pg.concept[Current].hash = CurrentHash
         /\ sync' = Reported("unchanged")
      \/ sync' = [sync EXCEPT !.phase = "project", !.row = row]
  BY Zenon DEF Compare
<1> HIDE DEF row
<1>3. ASSUME sync' = [sync EXCEPT !.phase = "project", !.row = row]
      PROVE  SyncKeepsRest("project") /\ sync'.report = sync.report /\ sync'.row = row
  BY <1>3 DEF SyncTyped, NoSync, SyncKeepsRest
<1> QED BY <1>1, <1>2, <1>3 DEF row

\* The document is read and the row written.
LEMMA ProjectDoes ==
  ASSUME SyncTyped, StoresTyped, ProjectConcept
  PROVE  LET content == SplitConcept(bundle[Current])
             row == Project(CurrentHash, content, sync.row)
         IN  /\ sync.phase = "project" /\ Readable(Current)
             /\ PutConcept(Current, row)
             /\ Keeps(pg, pg', {"concept"}) /\ Keeps(ref, ref', {"concept"}) /\ strayed' = strayed
             /\ pg'.concept = Put(pg.concept, Current, row) /\ ref'.concept = Put(ref.concept, Current, row)
             /\ SyncKeepsRest("embed") /\ sync'.report = sync.report /\ sync'.row = sync.row
             /\ sync'.body = content.body
             /\ UNCHANGED <<files, edited, curated, unembedded>>
<1> DEFINE content == SplitConcept(bundle[Current])
           row == Project(CurrentHash, content, sync.row)
<1>1. /\ sync.phase = "project" /\ Readable(Current) /\ PutConcept(Current, row)
      /\ sync' = [sync EXCEPT !.phase = "embed", !.body = content.body]
      /\ UNCHANGED <<files, edited, curated, unembedded>>
  BY Zenon DEF ProjectConcept
<1> HIDE DEF content, row
<1>2. SyncKeepsRest("embed") /\ sync'.report = sync.report /\ sync'.row = sync.row /\ sync'.body = content.body
  BY <1>1 DEF SyncTyped, NoSync, SyncKeepsRest
<1>3. /\ Keeps(pg, pg', {"concept"}) /\ Keeps(ref, ref', {"concept"}) /\ strayed' = strayed
      /\ pg'.concept = Put(pg.concept, Current, row) /\ ref'.concept = Put(ref.concept, Current, row)
  BY <1>1, PutConceptDoes DEF StoresTyped
<1> QED BY <1>1, <1>2, <1>3 DEF content, row

\* The embedding is written.
LEMMA EmbedDoes ==
  ASSUME SyncTyped, StoresTyped, EmbedConcept
  PROVE  /\ sync.phase = "embed" /\ PutVector(Current, sync.body)
         /\ Keeps(pg, pg', {"vector"}) /\ Keeps(ref, ref', {"vector"})
         /\ pg'.vector = IF Current \in DOMAIN pg.concept THEN Put(pg.vector, Current, sync.body) ELSE pg.vector
         /\ \E b \in {"added", "changed"} : sync' = Reported(b)
         /\ unembedded' = IF Current \in edited THEN unembedded \cup {Current} ELSE unembedded \ {Current}
         /\ UNCHANGED <<files, edited, curated>>
<1>1. /\ sync.phase = "embed" /\ PutVector(Current, sync.body)
      /\ unembedded' = IF Current \in edited THEN unembedded \cup {Current} ELSE unembedded \ {Current}
      /\ UNCHANGED <<files, edited, curated>>
  BY Zenon DEF EmbedConcept
<1>2. \E b \in {"added", "changed"} : sync' = Reported(b)
  BY DEF EmbedConcept
<1>3. /\ Keeps(pg, pg', {"vector"}) /\ Keeps(ref, ref', {"vector"})
      /\ pg'.vector = IF Current \in DOMAIN pg.concept THEN Put(pg.vector, Current, sync.body) ELSE pg.vector
  BY <1>1, PutVectorDoes DEF StoresTyped
<1> QED BY <1>1, <1>2, <1>3

\* reconcile() ends without a report.
LEMMA GiveUpDoes ==
  ASSUME ContentMissing \/ SyncFails
  PROVE  /\ Running /\ sync' = NoSync /\ UNCHANGED <<stores, files, edited, curated>>
         /\ unembedded' = IF sync.phase = "embed" THEN unembedded \cup {Current} ELSE unembedded
BY Zenon DEF ContentMissing, SyncFails, Running

\* The orphans are collected.
LEMMA CollectDoes ==
  ASSUME SyncTyped, CollectOrphans
  PROVE  /\ sync.phase = "compare" /\ DOMAIN sync.walk = {}
         /\ SyncKeepsRest(IF sync.deletes /\ Orphans # {} THEN "delete" ELSE "done")
         /\ DOMAIN sync'.report = Buckets /\ sync'.report["orphaned"] = Orphans
         /\ \A b \in Buckets \ {"orphaned"} : sync'.report[b] = sync.report[b]
         /\ UNCHANGED <<stores, files, edited, curated, unembedded>>
<1> DEFINE phase == IF sync.deletes /\ Orphans # {} THEN "delete" ELSE "done"
           lists == [sync.report EXCEPT !["orphaned"] = Orphans]
<1>1. /\ sync' = [sync EXCEPT !.phase = phase, !.report = lists]
      /\ sync.phase = "compare" /\ DOMAIN sync.walk = {}
      /\ UNCHANGED <<stores, files, edited, curated, unembedded>>
  BY DEF CollectOrphans
<1>2. DOMAIN lists = Buckets /\ lists["orphaned"] = Orphans /\ \A b \in Buckets \ {"orphaned"} : lists[b] = sync.report[b]
  BY DEF SyncTyped, Buckets
<1> HIDE DEF phase, lists
<1>3. SyncKeepsRest(phase) /\ sync'.report = lists
  BY <1>1 DEF SyncTyped, NoSync, SyncKeepsRest
<1> QED BY <1>1, <1>2, <1>3 DEF phase

\* One orphan goes, with the rows that reference it.
LEMMA DeleteDoes ==
  ASSUME SyncTyped, StoresTyped, DeleteOrphan
  PROVE  LET left == sync.report["orphaned"] \cap DOMAIN pg.concept
         IN  /\ sync.phase = "delete" /\ sync'.report = sync.report
             /\ \E c \in left : /\ DropConcept(c)
                                /\ SyncKeepsRest(IF left = {c} THEN "done" ELSE "delete")
             /\ UNCHANGED <<files, edited, curated, unembedded>>
<1> DEFINE left == sync.report["orphaned"] \cap DOMAIN pg.concept
           c == CHOOSE x \in left : \A y \in left : x <= y
<1>1. /\ sync.phase = "delete" /\ left # {} /\ DropConcept(c)
      /\ sync' = IF left = {c} THEN [sync EXCEPT !.phase = "done"] ELSE sync
      /\ UNCHANGED <<files, edited, curated, unembedded>>
  BY Zenon DEF DeleteOrphan
<1>2. c \in left
  <2>1. left \subseteq Concepts
    BY DEF StoresTyped
  <2> HIDE DEF left
  <2> QED BY <1>1, <2>1, LeastIn
<1> HIDE DEF left, c
<1>3. SyncKeepsRest(IF left = {c} THEN "done" ELSE "delete") /\ sync'.report = sync.report
  BY <1>1 DEF SyncTyped, NoSync, SyncKeepsRest
<1> QED BY <1>1, <1>2, <1>3 DEF left

\* A row is curated, nothing else of it changes.
LEMMA CurateDoes ==
  ASSUME StoresTyped, NEW c, NEW w, Curate(c, w)
  PROVE  LET row == [pg.concept[c] EXCEPT !.curation = w]
         IN  /\ c \in DOMAIN pg.concept /\ PutConcept(c, row)
             /\ Keeps(pg, pg', {"concept"}) /\ Keeps(ref, ref', {"concept"}) /\ strayed' = strayed
             /\ pg'.concept = Put(pg.concept, c, row) /\ ref'.concept = Put(ref.concept, c, row)
             /\ DOMAIN row = {"course", "hash", "refs", "curation"}
             /\ row.course = pg.concept[c].course /\ row.hash = pg.concept[c].hash /\ row.refs = pg.concept[c].refs
             /\ curated' = curated \cup {c} /\ UNCHANGED <<files, sync, edited, unembedded>>
<1> DEFINE row == [pg.concept[c] EXCEPT !.curation = w]
<1>1. /\ c \in DOMAIN pg.concept /\ PutConcept(c, row)
      /\ curated' = curated \cup {c} /\ UNCHANGED <<files, sync, edited, unembedded>>
  BY Zenon DEF Curate
<1>2. /\ DOMAIN row = {"course", "hash", "refs", "curation"}
      /\ row.course = pg.concept[c].course /\ row.hash = pg.concept[c].hash /\ row.refs = pg.concept[c].refs
  BY <1>1 DEF StoresTyped
<1> HIDE DEF row
<1>3. /\ Keeps(pg, pg', {"concept"}) /\ Keeps(ref, ref', {"concept"}) /\ strayed' = strayed
      /\ pg'.concept = Put(pg.concept, c, row) /\ ref'.concept = Put(ref.concept, c, row)
  BY <1>1, PutConceptDoes DEF StoresTyped
<1> QED BY <1>1, <1>2, <1>3 DEF row

---------------------------------------------------------------------------
\* The inductive invariant of reconcile()

Written == {Contents[n] : n \in DOMAIN Contents}

\* A document is torn, or is what was kept of it.
FilesTyped ==
  /\ DOMAIN bundle \subseteq Concepts
  /\ writing = <<>> \/ \E c \in Concepts, w \in Written : writing = <<c, w>>
  /\ \A c \in DOMAIN bundle :
       \/ bundle[c] = Torn
       \/ c \in DOMAIN kept /\ kept[c] \in Written /\ bundle[c] = ComposeConcept(kept[c])

\* The row that was read is still the row, but for a curation since.
Comparing ==
  sync.phase = "project" =>
    /\ sync.row = <<>> => Current \notin DOMAIN pg.concept
    /\ sync.row # <<>> /\ Current \in DOMAIN pg.concept =>
         sync.row[1].curation = pg.concept[Current].curation \/ Current \in curated

\* What is still to be deleted is of the course and was not seen.
Deleting ==
  sync.phase = "delete" =>
    /\ sync.deletes
    /\ \A c \in sync.report["orphaned"] \cap DOMAIN pg.concept :
         c \notin sync.seen /\ pg.concept[c].course = sync.course

\* The walk tells the documents that were not edited since.
Walked == \A c \in DOMAIN sync.walk : c \in edited \/ (Readable(c) /\ bundle[c] = sync.walk[c])

\* The body to be embedded and the references are those of the document that
\* the new row's hash names, unless it was edited.
Embedding ==
  sync.phase = "embed" =>
    /\ Current \in DOMAIN pg.concept /\ pg.concept[Current].hash = CurrentHash
    /\ \/ Current \in edited
       \/ /\ sync.body = SplitConcept(CurrentHash).body
          /\ pg.concept[Current].refs = SplitConcept(CurrentHash).refs

\* What is dealt with is indexed under its hash, and the walk saw every document
\* that is not reserved.
Settled ==
  sync.phase # "idle" =>
    /\ \A c \in sync.seen \ DOMAIN sync.walk :
         c \in edited \/ (Readable(c) /\ c \in DOMAIN pg.concept /\ pg.concept[c].hash = bundle[c])
    /\ \A c \in DOMAIN bundle \ Reserved : moved \/ c \in edited \/ c \in sync.seen

\* A row's embedding is that of the document its hash names.
Embedded ==
  \A c \in DOMAIN pg.concept \ unembedded :
    LET told == SplitConcept(pg.concept[c].hash)
    IN \/ c \in DOMAIN pg.vector /\ pg.vector[c] = told.body /\ pg.concept[c].refs = told.refs
       \/ sync.phase = "embed" /\ Current = c

\* No orphan is missed.
Orphaned ==
  /\ sync.phase = "delete" => Pg!OfCourse(pg, sync.course) \ sync.seen \subseteq sync.report["orphaned"]
  /\ sync.phase = "done" /\ sync.deletes => Pg!OfCourse(pg, sync.course) \subseteq sync.seen

\* The report has what was dealt with, and each concept once.
Sorted ==
  /\ \A b \in Buckets \ {"orphaned"} : sync.report[b] \subseteq sync.seen \ DOMAIN sync.walk
  /\ sync.report["orphaned"] \cap sync.seen = {}
  /\ \A a, b \in Buckets : a # b => sync.report[a] \cap sync.report[b] = {}

Typed == Counted /\ StoresTyped /\ SyncTyped /\ FilesTyped

SyncInv == Comparing /\ Deleting /\ Walked /\ Embedding /\ Settled /\ Embedded /\ Orphaned /\ Sorted

LEMMA WrittenReads == ASSUME NEW w \in Written PROVE w \in [body : Docs, refs : Seq(Ref)] /\ w.body \in Document
<1>1. PICK n \in DOMAIN Contents : w = Contents[n]
  BY DEF Written
<1> DEFINE S == [body : Docs, refs : Seq(Ref)]
<1>2. Contents \in Seq(S)
  BY BodiesAreDocs
<1> HIDE DEF S
<1>3. w \in S
  BY <1>1, <1>2
<1> QED BY <1>3, BodiesAreDocs DEF S

LEMMA CountedStays ==
  ASSUME Counted, [Next]_vars
  PROVE  Counted'
<1>1. CASE UNCHANGED <<clock, fuel>>
  BY <1>1 DEF Counted
<1>2. CASE HandlerSteps /\ (UNCHANGED fuel \/ Spends)
  <2>1. clock' \in {clock, clock + 1}
    <3>1. ASSUME NEW h, ReadStates(h) \/ ReadLast(h) \/ LogCheck(h) \/ HandlerDies(h) PROVE clock' = clock
      BY <3>1 DEF ReadStates, ReadLast, LogCheck, HandlerDies
    <3>2. ASSUME NEW h, LogFlag(h) PROVE clock' \in {clock, clock + 1}
      BY <3>2 DEF LogFlag, Later
    <3>3. ASSUME NEW h, NEW o, OpenCheck(h, o) PROVE clock' \in {clock, clock + 1}
      BY <3>3 DEF OpenCheck, Later
    <3>4. ASSUME NEW h, NEW q, Flag(h, q) PROVE clock' = clock
      BY <3>4 DEF Flag
    <3>5. ASSUME NEW o, Escalate(o) PROVE clock' \in {clock, clock + 1}
      BY <3>5 DEF Escalate, Later
    <3> QED BY <1>2, <3>1, <3>2, <3>3, <3>4, <3>5 DEF HandlerSteps
  <2> QED BY <1>2, <2>1 DEF Counted, Spends
<1>3. CASE UNCHANGED desks /\ (UNCHANGED fuel \/ Spends)
  BY <1>3 DEF Counted, desks, Spends
<1> QED BY <1>1, <1>2, <1>3, StepKinds DEF vars, desks

\* A step is quiet, a write, or one of those that reconcile() and the curator take.
SyncKinds ==
  \/ Quiet
  \/ Writes /\ Rewrites
  \/ \E o \in Courses, deletes \in BOOLEAN : StartSync(o, deletes)
  \/ \E c \in Concepts, w \in DOMAIN Weight : Curate(c, w)
  \/ SyncStep

LEMMA SyncStepKinds ==
  ASSUME Counted, StoresTyped, [Next]_vars
  PROVE  SyncKinds
<1>1. CASE UNCHANGED vars
  <2>1. UNCHANGED <<stores, syncing>>
    BY <1>1 DEF vars
  <2> QED BY <2>1 DEF SyncKinds, Quiet, stores, Keeps, StoresTyped
<1>2. CASE Writes /\ UNCHANGED desks
  BY <1>2, WritesRewrite DEF SyncKinds
<1>3. CASE LearnerCalls /\ UNCHANGED <<syncing, desks>>
  BY <1>3, LearnerIsQuiet DEF SyncKinds
<1>4. CASE HandlerSteps /\ UNCHANGED syncing
  BY <1>4, HandlersAreQuiet DEF SyncKinds
<1> QED BY <1>1, <1>2, <1>3, <1>4, StepKinds DEF SyncKinds

LEMMA StoresTypedStays ==
  ASSUME StoresTyped, SyncTyped, SyncKinds
  PROVE  StoresTyped'
<1>1. CASE Quiet
  BY <1>1 DEF Quiet, Keeps, StoresTyped, IsStore
<1>2. CASE UNCHANGED stores
  BY <1>2 DEF stores, StoresTyped, IsStore
<1>3. ASSUME NEW c \in Concepts, NEW row, DOMAIN row = {"course", "hash", "refs", "curation"},
             pg'.concept = Put(pg.concept, c, row), Keeps(pg, pg', {"concept"}), Keeps(ref, ref', {"concept"})
      PROVE  StoresTyped'
  BY <1>3 DEF StoresTyped, IsStore, Keeps, Put
<1>4. ASSUME NEW c \in Concepts, NEW w, Curate(c, w) PROVE StoresTyped'
  BY <1>3, <1>4, CurateDoes
<1>5. CASE ProjectConcept
  <2> DEFINE row == Project(CurrentHash, SplitConcept(bundle[Current]), sync.row)
  <2>1. DOMAIN row = {"course", "hash", "refs", "curation"}
    BY DEF Project
  <2> HIDE DEF row
  <2>2. pg'.concept = Put(pg.concept, Current, row) /\ Keeps(pg, pg', {"concept"}) /\ Keeps(ref, ref', {"concept"})
        /\ sync.phase = "project"
    BY <1>5, ProjectDoes DEF row
  <2>3. Current \in Concepts
    BY <2>2, CurrentIn DEF SyncTyped
  <2> QED BY <1>3, <2>1, <2>2, <2>3
<1>6. CASE EmbedConcept
  BY <1>6, EmbedDoes DEF StoresTyped, IsStore, Keeps
<1>7. CASE DeleteOrphan
  <2>1. PICK c : DropConcept(c)
    BY <1>7, DeleteDoes
  <2>2. /\ Keeps(pg, pg', {"concept", "vector", "edge", "question", "state", "reviews"})
        /\ Keeps(ref, ref', {"concept", "vector"}) /\ pg'.concept = Without(pg.concept, {c})
    BY <2>1, DropConceptDoes DEF StoresTyped
  <2> QED BY <2>2 DEF StoresTyped, Keeps, Without
<1>8. ASSUME NEW o, NEW d, StartSync(o, d) PROVE UNCHANGED stores
  BY <1>8, StartDoes
<1>9. CASE Compare
  BY <1>2, <1>9, CompareDoes
<1>10. CASE ContentMissing \/ SyncFails
  BY <1>2, <1>10, GiveUpDoes
<1>11. CASE CollectOrphans
  BY <1>2, <1>11, CollectDoes
<1>12. CASE Rewrites
  BY <1>2, <1>12 DEF Rewrites
<1> QED BY <1>1, <1>2, <1>4, <1>5, <1>6, <1>7, <1>8, <1>9, <1>10, <1>11, <1>12 DEF SyncKinds, SyncStep

LEMMA SyncTypedStays ==
  ASSUME StoresTyped, SyncTyped, FilesTyped, SyncKinds
  PROVE  SyncTyped'
<1>1. CASE UNCHANGED sync
  BY <1>1 DEF SyncTyped
<1>2. ASSUME NEW b \in Buckets, sync' = Reported(b) PROVE SyncTyped'
  BY <1>2, ReportedHas DEF SyncTyped, Without, Phases
<1>3. ASSUME NEW o, NEW d, StartSync(o, d) PROVE SyncTyped'
  <2>1. DOMAIN sync'.walk \subseteq Concepts
    <3>1. sync'.walk = (IF moved THEN <<>> ELSE Without(bundle, Reserved))
      BY <1>3, StartDoes
    <3>2. DOMAIN <<>> = {} /\ DOMAIN Without(bundle, Reserved) \subseteq DOMAIN bundle
      BY DEF Without
    <3> QED BY <3>1, <3>2 DEF FilesTyped
  <2>2. DOMAIN sync'.report = Buckets
    BY <1>3, StartDoes
  <2> QED BY <1>3, <2>1, <2>2, StartDoes DEF SyncTyped, Phases
<1>4. CASE Compare
  <2>1. CASE sync' = Reported("unchanged")
    BY <1>2, <2>1 DEF Buckets
  <2>2. CASE SyncKeepsRest("project") /\ sync'.report = sync.report
    BY <1>4, <2>2, CompareDoes DEF SyncTyped, SyncKeepsRest, Phases
  <2> QED BY <1>4, <2>1, <2>2, CompareDoes
<1>5. CASE ProjectConcept
  BY <1>5, ProjectDoes DEF SyncTyped, SyncKeepsRest, Phases
<1>6. CASE EmbedConcept
  BY <1>2, <1>6, EmbedDoes DEF Buckets
<1>7. CASE ContentMissing \/ SyncFails
  <2>1. sync' = NoSync
    BY <1>7, GiveUpDoes
  <2> QED BY <2>1 DEF SyncTyped, NoSync, Phases
<1>8. CASE CollectOrphans
  <2>1. SyncKeepsRest("delete") \/ SyncKeepsRest("done")
    BY <1>8, CollectDoes
  <2> QED BY <1>8, <2>1, CollectDoes DEF SyncTyped, SyncKeepsRest, Phases
<1>9. CASE DeleteOrphan
  <2>1. SyncKeepsRest("delete") \/ SyncKeepsRest("done")
    BY <1>9, DeleteDoes
  <2> QED BY <1>9, <2>1, DeleteDoes DEF SyncTyped, SyncKeepsRest, Phases
<1>10. ASSUME NEW c, NEW w, Curate(c, w) PROVE UNCHANGED sync
  BY <1>10, CurateDoes
<1>11. CASE Quiet \/ Rewrites
  BY <1>1, <1>11 DEF Quiet, syncing, Rewrites
<1> QED BY <1>1, <1>3, <1>4, <1>5, <1>6, <1>7, <1>8, <1>9, <1>10, <1>11 DEF SyncKinds, SyncStep

LEMMA FilesTypedStays ==
  ASSUME StoresTyped, SyncTyped, FilesTyped, SyncKinds
  PROVE  FilesTyped'
<1>1. CASE UNCHANGED files
  BY <1>1 DEF FilesTyped, files
<1>2. ASSUME NEW c \in Concepts, NEW n \in DOMAIN Contents, BeginWrite(c, Contents[n]) PROVE FilesTyped'
  <2> DEFINE w == Contents[n]
  <2>1. w \in Written
    BY DEF Written
  <2> HIDE DEF w
  <2>2. bundle' = Put(bundle, c, Torn) /\ writing' = <<c, w>> /\ kept' = kept
    BY <1>2 DEF BeginWrite, w
  <2> QED BY <2>1, <2>2 DEF FilesTyped, Put
<1>3. CASE EndWrite
  <2>1. PICK c \in Concepts, w \in Written : writing = <<c, w>>
    BY <1>3 DEF EndWrite, FilesTyped
  <2> DEFINE file == ComposeConcept(w)
  <2>2. bundle' = Put(bundle, c, file) /\ kept' = Put(kept, c, w) /\ writing' = <<>>
    BY <1>3, <2>1 DEF EndWrite
  <2> HIDE DEF file
  <2>3. DOMAIN bundle' \subseteq Concepts
    BY <2>2 DEF FilesTyped, Put
  <2>4. ASSUME NEW d \in DOMAIN bundle'
        PROVE  bundle'[d] = Torn \/ (d \in DOMAIN kept' /\ kept'[d] \in Written /\ bundle'[d] = ComposeConcept(kept'[d]))
    <3>1. CASE d = c
      BY <2>2, <3>1 DEF Put, file
    <3>2. CASE d # c
      BY <2>2, <3>2 DEF Put, FilesTyped
    <3> QED BY <3>1, <3>2
  <2> QED BY <2>2, <2>3, <2>4 DEF FilesTyped
<1>4. CASE WriterDies
  BY <1>4 DEF WriterDies, FilesTyped
<1>5. ASSUME NEW c \in Concepts, RemoveDocument(c) PROVE FilesTyped'
  BY <1>5 DEF RemoveDocument, FilesTyped, Without
<1>6. CASE MoveBundle
  BY <1>6 DEF MoveBundle, FilesTyped
<1>7. CASE Writes
  BY <1>2, <1>3, <1>4, <1>5, <1>6, <1>7 DEF Writes
<1>8. CASE SyncStep
  BY <1>1, <1>8, CompareDoes, ProjectDoes, EmbedDoes, GiveUpDoes, CollectDoes, DeleteDoes DEF SyncStep
<1>9. ASSUME NEW o, NEW d, StartSync(o, d) PROVE UNCHANGED files
  BY <1>9, StartDoes
<1>10. ASSUME NEW c, NEW w, Curate(c, w) PROVE UNCHANGED files
  BY <1>10, CurateDoes
<1>11. CASE Quiet
  BY <1>1, <1>11 DEF Quiet, syncing, files
<1> QED BY <1>1, <1>7, <1>8, <1>9, <1>10, <1>11 DEF SyncKinds

---------------------------------------------------------------------------
\* Each kind of step keeps it

LEMMA QuietKeeps ==
  ASSUME Typed, SyncInv, Quiet
  PROVE  SyncInv'
<1>1. UNCHANGED <<bundle, kept, moved, writing, sync, edited, curated, unembedded>>
      /\ pg'.concept = pg.concept /\ pg'.vector = pg.vector
  BY DEF Quiet, Keeps, syncing
<1>2. Current' = Current /\ CurrentHash' = CurrentHash
  BY <1>1, CurrentStays
<1>3. Comparing' /\ Deleting'
  BY <1>1, <1>2 DEF SyncInv, Comparing, Deleting
<1>4. Walked' /\ Settled' /\ Sorted'
  BY <1>1 DEF SyncInv, Walked, Settled, Sorted, Readable
<1>5. Embedding' /\ Embedded'
  BY <1>1, <1>2 DEF SyncInv, Embedding, Embedded
<1>6. Orphaned'
  BY <1>1 DEF SyncInv, Orphaned, Pg!OfCourse
<1> QED BY <1>3, <1>4, <1>5, <1>6 DEF SyncInv

LEMMA RewriteKeeps ==
  ASSUME Typed, SyncInv, Rewrites, FilesTyped'
  PROVE  SyncInv'
<1>1. UNCHANGED <<pg, sync, curated, unembedded>> /\ edited \subseteq edited'
  BY DEF Rewrites, stores
<1>2. Current' = Current /\ CurrentHash' = CurrentHash
  BY <1>1, CurrentStays
<1>3. \A c \in Concepts \ edited' :
        /\ moved' = moved /\ (c \in DOMAIN bundle' <=> c \in DOMAIN bundle)
        /\ c \in DOMAIN bundle => bundle'[c] = bundle[c]
  BY DEF Rewrites
<1>4. DOMAIN sync.walk \subseteq Concepts /\ sync.seen \subseteq Concepts
      /\ DOMAIN bundle \subseteq Concepts /\ DOMAIN bundle' \subseteq Concepts
  BY DEF Typed, SyncTyped, FilesTyped
<1>5. Comparing' /\ Deleting' /\ Orphaned' /\ Sorted'
  BY <1>1, <1>2 DEF SyncInv, Comparing, Deleting, Orphaned, Sorted, Pg!OfCourse
<1>6. Walked'
  BY <1>1, <1>3, <1>4 DEF SyncInv, Walked, Readable
<1>7. Settled'
  BY <1>1, <1>3, <1>4 DEF SyncInv, Settled, Readable
<1>8. Embedding'
  BY <1>1, <1>2 DEF SyncInv, Embedding
<1>9. Embedded'
  BY <1>1, <1>2 DEF SyncInv, Embedded
<1> QED BY <1>5, <1>6, <1>7, <1>8, <1>9 DEF SyncInv

LEMMA StartKeeps ==
  ASSUME Typed, SyncInv, NEW o, NEW d, StartSync(o, d)
  PROVE  SyncInv'
<1>1. /\ ~Running /\ sync'.phase = "compare" /\ sync'.course = o /\ sync'.deletes = d
      /\ sync'.walk = (IF moved THEN <<>> ELSE Without(bundle, Reserved)) /\ sync'.seen = DOMAIN sync'.walk /\ sync'.row = <<>>
      /\ sync'.report = [b \in Buckets |-> {}]
      /\ edited' = {} /\ curated' = {}
      /\ UNCHANGED <<pg, bundle, kept, moved, unembedded>>
  BY StartDoes DEF stores, files
<1>2. /\ DOMAIN sync'.walk = {c \in DOMAIN bundle \ Reserved : ~moved}
      /\ \A c \in DOMAIN sync'.walk : sync'.walk[c] = bundle[c]
  BY <1>1 DEF Without
<1>3. Comparing' /\ Deleting' /\ Embedding' /\ Orphaned'
  BY <1>1 DEF Comparing, Deleting, Embedding, Orphaned
<1>4. Sorted'
  BY <1>1 DEF Sorted, Buckets
<1>5. Walked'
  BY <1>1, <1>2 DEF Walked, Readable
<1>6. Settled'
  BY <1>1, <1>2 DEF Settled, Readable
<1>7. Embedded'
  BY <1>1 DEF SyncInv, Embedded, Running
<1> QED BY <1>3, <1>4, <1>5, <1>6, <1>7 DEF SyncInv

LEMMA CurateKeeps ==
  ASSUME Typed, SyncInv, NEW c, NEW w, Curate(c, w)
  PROVE  SyncInv'
<1> DEFINE row == [pg.concept[c] EXCEPT !.curation = w]
<1>1. /\ c \in DOMAIN pg.concept /\ pg'.concept = Put(pg.concept, c, row) /\ Keeps(pg, pg', {"concept"})
      /\ row.course = pg.concept[c].course /\ row.hash = pg.concept[c].hash /\ row.refs = pg.concept[c].refs
      /\ curated' = curated \cup {c} /\ UNCHANGED <<files, sync, edited, unembedded>>
  BY CurateDoes DEF Typed
<1> HIDE DEF row
<1>2. /\ DOMAIN pg'.concept = DOMAIN pg.concept /\ pg'.vector = pg.vector
      /\ \A x \in DOMAIN pg.concept : /\ pg'.concept[x].course = pg.concept[x].course
                                      /\ pg'.concept[x].hash = pg.concept[x].hash
                                      /\ pg'.concept[x].refs = pg.concept[x].refs
                                      /\ x = c \/ pg'.concept[x] = pg.concept[x]
  BY <1>1 DEF Put, Keeps
<1>3. UNCHANGED <<bundle, kept, moved, sync, edited, unembedded>> /\ curated' = curated \cup {c}
  BY <1>1 DEF files
<1>4. Current' = Current /\ CurrentHash' = CurrentHash
  BY <1>3, CurrentStays
<1>5. Comparing'
  BY <1>2, <1>3, <1>4 DEF SyncInv, Comparing
<1>6. Deleting' /\ Orphaned'
  BY <1>2, <1>3 DEF SyncInv, Deleting, Orphaned, Pg!OfCourse
<1>7. Walked' /\ Settled' /\ Sorted'
  BY <1>2, <1>3 DEF SyncInv, Walked, Settled, Sorted, Readable
<1>8. Embedding' /\ Embedded'
  BY <1>2, <1>3, <1>4 DEF SyncInv, Embedding, Embedded
<1> QED BY <1>5, <1>6, <1>7, <1>8 DEF SyncInv

\* Where a concept is put into a bucket, having been indexed as the walk tells.
LEMMA ReportedKeeps ==
  ASSUME Typed, SyncInv, NEW b \in {"added", "changed", "unchanged"}, sync' = Reported(b),
         sync.phase \in {"compare", "embed"}, DOMAIN sync.walk # {},
         UNCHANGED <<files, edited>>, pg'.concept = pg.concept,
         Current \in DOMAIN pg.concept, pg.concept[Current].hash = CurrentHash
  PROVE  Comparing' /\ Deleting' /\ Walked' /\ Embedding' /\ Settled' /\ Orphaned' /\ Sorted'
<1>1. /\ sync'.phase = "compare"
      /\ sync'.course = sync.course /\ sync'.deletes = sync.deletes /\ sync'.seen = sync.seen
      /\ sync'.walk = Without(sync.walk, {Current})
      /\ sync'.report[b] = sync.report[b] \cup {Current}
      /\ \A a \in Buckets \ {b} : sync'.report[a] = sync.report[a]
  BY ReportedHas DEF Buckets, Typed
<1>2. Current \in DOMAIN sync.walk /\ Current \in sync.seen
  BY CurrentIn DEF Typed
<1>3. Current \in edited \/ (Readable(Current) /\ bundle[Current] = CurrentHash)
  BY <1>2 DEF SyncInv, Walked, CurrentHash
<1> DEFINE c == Current
<1> HIDE DEF c
<1>4. /\ DOMAIN sync'.walk = DOMAIN sync.walk \ {c}
      /\ \A x \in DOMAIN sync'.walk : sync'.walk[x] = sync.walk[x]
  BY <1>1 DEF Without, c
<1>5. c \in DOMAIN sync.walk /\ c \in sync.seen /\ c \in DOMAIN pg.concept
      /\ (c \in edited \/ (Readable(c) /\ bundle[c] = pg.concept[c].hash))
      /\ sync'.report[b] = sync.report[b] \cup {c}
  BY <1>1, <1>2, <1>3 DEF c
<1>6. UNCHANGED <<bundle, moved, edited>>
  BY DEF files
<1>7. Comparing' /\ Deleting' /\ Embedding' /\ Orphaned'
  BY <1>1 DEF Comparing, Deleting, Embedding, Orphaned
<1>8. Walked'
  BY <1>4, <1>6 DEF SyncInv, Walked, Readable
<1>9. Settled'
  BY <1>1, <1>4, <1>5, <1>6 DEF SyncInv, Settled, Readable
<1>10. Sorted'
  <2>1. \A a \in Buckets : sync'.report[a] = IF a = b THEN sync.report[b] \cup {c} ELSE sync.report[a]
    BY <1>1, <1>5
  <2>2. b \in Buckets \ {"orphaned"}
    BY DEF Buckets
  <2>3. \A a \in Buckets : c \notin sync.report[a]
    BY <1>5 DEF SyncInv, Sorted, Buckets
  <2>4. \A a \in Buckets \ {"orphaned"} : sync'.report[a] \subseteq sync'.seen \ DOMAIN sync'.walk
    BY <1>1, <1>4, <1>5, <2>1 DEF SyncInv, Sorted
  <2>5. sync'.report["orphaned"] \cap sync'.seen = {}
    BY <1>1, <2>1, <2>2 DEF SyncInv, Sorted, Buckets
  <2>6. \A a1, a2 \in Buckets : a1 # a2 => sync'.report[a1] \cap sync'.report[a2] = {}
    BY <2>1, <2>3 DEF SyncInv, Sorted
  <2> QED BY <2>4, <2>5, <2>6 DEF Sorted
<1> QED BY <1>7, <1>8, <1>9, <1>10

LEMMA CompareKeeps ==
  ASSUME Typed, SyncInv, Compare
  PROVE  SyncInv'
<1>1. /\ sync.phase = "compare" /\ DOMAIN sync.walk # {} /\ curated' = curated \ {Current}
      /\ UNCHANGED <<stores, files, edited, unembedded>>
  BY CompareDoes DEF Typed
<1>2. UNCHANGED <<pg, bundle, moved, edited, unembedded>>
  BY <1>1 DEF stores, files
<1>3. CASE /\ Current \in DOMAIN pg.concept /\ pg.concept[Current].hash = CurrentHash
           /\ sync' = Reported("unchanged")
  <2>1. Comparing' /\ Deleting' /\ Walked' /\ Embedding' /\ Settled' /\ Orphaned' /\ Sorted'
    BY <1>1, <1>2, <1>3, ReportedKeeps
  <2>2. Embedded'
    BY <1>1, <1>2 DEF SyncInv, Embedded
  <2> QED BY <2>1, <2>2 DEF SyncInv
<1>4. CASE /\ SyncKeepsRest("project") /\ sync'.report = sync.report
           /\ sync'.row = IF Current \in DOMAIN pg.concept THEN <<pg.concept[Current]>> ELSE <<>>
  <2>1. /\ sync'.phase = "project" /\ sync'.seen = sync.seen /\ sync'.walk = sync.walk
        /\ sync'.course = sync.course /\ sync'.deletes = sync.deletes
    BY <1>4 DEF SyncKeepsRest
  <2>2. Current' = Current
    BY <2>1, CurrentStays
  <2>3. Comparing'
    <3> DEFINE c == Current
               row == pg.concept[c]
    <3>1. sync'.row = (IF c \in DOMAIN pg.concept THEN <<row>> ELSE <<>>) /\ c = Current'
      BY <1>4, <2>2
    <3> HIDE DEF c, row
    <3>2. sync'.row # <<>> => c \in DOMAIN pg.concept /\ sync'.row[1] = row
      BY <3>1
    <3>3. sync'.row = <<>> => c \notin DOMAIN pg.concept
      BY <3>1
    <3> QED BY <1>2, <3>1, <3>2, <3>3 DEF Comparing, row
  <2>4. Deleting' /\ Embedding' /\ Orphaned'
    BY <2>1 DEF Deleting, Embedding, Orphaned
  <2>5. Walked' /\ Settled'
    BY <1>1, <1>2, <2>1 DEF SyncInv, Walked, Settled, Readable
  <2>6. Sorted'
    BY <1>4, <2>1 DEF SyncInv, Sorted
  <2>7. Embedded'
    BY <1>1, <1>2 DEF SyncInv, Embedded
  <2> QED BY <2>3, <2>4, <2>5, <2>6, <2>7 DEF SyncInv
<1> QED BY <1>3, <1>4, CompareDoes DEF Typed

LEMMA ProjectKeeps ==
  ASSUME Typed, SyncInv, ProjectConcept
  PROVE  SyncInv'
<1> DEFINE c == Current
           hash == CurrentHash
           content == SplitConcept(bundle[c])
           row == Project(hash, content, sync.row)
<1>1. /\ sync.phase = "project" /\ Readable(c)
      /\ Keeps(pg, pg', {"concept"}) /\ pg'.concept = Put(pg.concept, c, row)
      /\ SyncKeepsRest("embed") /\ sync'.report = sync.report /\ sync'.body = content.body
      /\ UNCHANGED <<files, edited, curated, unembedded>>
  BY ProjectDoes DEF Typed
<1>2. row.hash = hash /\ row.refs = content.refs
  BY DEF Project
<1>3. /\ sync'.phase = "embed" /\ sync'.seen = sync.seen /\ sync'.walk = sync.walk
      /\ UNCHANGED <<bundle, moved, edited, curated, unembedded>>
  BY <1>1 DEF SyncKeepsRest, files
<1>4. Current' = c /\ CurrentHash' = hash /\ hash = sync.walk[c]
  BY <1>3, CurrentStays DEF CurrentHash
<1>5. c \in edited \/ bundle[c] = hash
  <2>1. c \in DOMAIN sync.walk
    BY <1>1, CurrentIn DEF Typed, SyncTyped
  <2> QED BY <1>4, <2>1 DEF SyncInv, Walked
<1>6. c \in DOMAIN sync.walk
  BY <1>1, CurrentIn DEF Typed, SyncTyped
<1>7. c \in edited \/ (content.body = SplitConcept(hash).body /\ content.refs = SplitConcept(hash).refs)
  BY <1>5
<1> HIDE DEF c, hash, content, row
<1>8. /\ DOMAIN pg'.concept = DOMAIN pg.concept \cup {c} /\ pg'.concept[c] = row /\ pg'.vector = pg.vector
      /\ \A x \in DOMAIN pg.concept : x = c \/ pg'.concept[x] = pg.concept[x]
  BY <1>1 DEF Put, Keeps
<1>9. Comparing' /\ Deleting' /\ Orphaned'
  BY <1>3 DEF Comparing, Deleting, Orphaned
<1>10. Walked'
  BY <1>3 DEF SyncInv, Walked, Readable
<1>11. Settled'
  BY <1>1, <1>3, <1>6, <1>8 DEF SyncInv, Settled, Readable
<1>12. Sorted'
  BY <1>1, <1>3 DEF SyncInv, Sorted
<1>13. Embedding'
  BY <1>1, <1>2, <1>3, <1>4, <1>7, <1>8 DEF Embedding
<1>14. Embedded'
  BY <1>1, <1>3, <1>4, <1>8 DEF SyncInv, Embedded
<1> QED BY <1>9, <1>10, <1>11, <1>12, <1>13, <1>14 DEF SyncInv

LEMMA EmbedKeeps ==
  ASSUME Typed, SyncInv, EmbedConcept
  PROVE  SyncInv'
<1> DEFINE c == Current
<1>1. /\ sync.phase = "embed" /\ Keeps(pg, pg', {"vector"})
      /\ pg'.vector = IF c \in DOMAIN pg.concept THEN Put(pg.vector, c, sync.body) ELSE pg.vector
      /\ unembedded' = IF c \in edited THEN unembedded \cup {c} ELSE unembedded \ {c}
      /\ UNCHANGED <<files, edited, curated>>
  BY EmbedDoes DEF Typed
<1>2. PICK b \in {"added", "changed"} : sync' = Reported(b)
  BY EmbedDoes DEF Typed
<1>3. DOMAIN sync.walk # {}
  BY <1>1 DEF Typed, SyncTyped
<1>4. /\ c \in DOMAIN pg.concept /\ pg.concept[c].hash = CurrentHash
      /\ \/ c \in edited
         \/ sync.body = SplitConcept(CurrentHash).body /\ pg.concept[c].refs = SplitConcept(CurrentHash).refs
  BY <1>1 DEF SyncInv, Embedding
<1>5. pg'.concept = pg.concept
  BY <1>1 DEF Keeps
<1>6. Comparing' /\ Deleting' /\ Walked' /\ Embedding' /\ Settled' /\ Orphaned' /\ Sorted'
  BY <1>1, <1>2, <1>3, <1>4, <1>5, ReportedKeeps
<1> HIDE DEF c
<1>7. /\ DOMAIN pg'.vector = DOMAIN pg.vector \cup {c} /\ pg'.vector[c] = sync.body
      /\ \A x \in DOMAIN pg.vector : x = c \/ pg'.vector[x] = pg.vector[x]
  BY <1>1, <1>4 DEF Put
<1>8. Embedded'
  <2> SUFFICES ASSUME NEW x \in DOMAIN pg.concept, x \notin unembedded'
               PROVE  LET told == SplitConcept(pg.concept[x].hash)
                      IN  x \in DOMAIN pg'.vector /\ pg'.vector[x] = told.body /\ pg.concept[x].refs = told.refs
    BY <1>5 DEF Embedded
  <2>1. CASE x = c
    BY <1>1, <1>4, <1>7, <2>1
  <2>2. CASE x # c
    <3>1. x \notin unembedded
      BY <1>1, <2>2
    <3> QED BY <1>7, <2>2, <3>1 DEF SyncInv, Embedded, c
  <2> QED BY <2>1, <2>2
<1> QED BY <1>6, <1>8 DEF SyncInv

LEMMA GiveUpKeeps ==
  ASSUME Typed, SyncInv, ContentMissing \/ SyncFails
  PROVE  SyncInv'
<1>1. /\ sync' = NoSync
      /\ UNCHANGED <<stores, files, edited, curated>>
      /\ unembedded' = IF sync.phase = "embed" THEN unembedded \cup {Current} ELSE unembedded
  BY GiveUpDoes
<1>2. sync'.phase = "idle" /\ DOMAIN sync'.walk = {} /\ sync'.seen = {} /\ sync'.report = [b \in Buckets |-> {}]
  BY <1>1 DEF NoSync
<1>3. Comparing' /\ Deleting' /\ Embedding' /\ Orphaned' /\ Settled' /\ Walked'
  BY <1>2 DEF Comparing, Deleting, Embedding, Orphaned, Settled, Walked
<1>4. Sorted'
  BY <1>2 DEF Sorted, Buckets
<1>5. Embedded'
  BY <1>1 DEF SyncInv, Embedded, stores
<1> QED BY <1>3, <1>4, <1>5 DEF SyncInv

LEMMA CollectKeeps ==
  ASSUME Typed, SyncInv, CollectOrphans
  PROVE  SyncInv'
<1> DEFINE phase == IF sync.deletes /\ Orphans # {} THEN "delete" ELSE "done"
<1>1. /\ sync.phase = "compare" /\ DOMAIN sync.walk = {}
      /\ sync'.phase = phase /\ sync'.course = sync.course /\ sync'.deletes = sync.deletes
      /\ sync'.seen = sync.seen /\ sync'.walk = sync.walk
      /\ sync'.report["orphaned"] = Orphans
      /\ \A b \in Buckets \ {"orphaned"} : sync'.report[b] = sync.report[b]
      /\ UNCHANGED <<pg, bundle, moved, edited, curated, unembedded>>
  BY CollectDoes DEF Typed, SyncKeepsRest, stores, files
<1>2. Orphans = {c \in DOMAIN pg.concept : pg.concept[c].course = sync.course} \ sync.seen
  BY DEF Orphans, Pg!OfCourse
<1> DEFINE orphans == Orphans
<1> HIDE DEF orphans
<1>3. Comparing' /\ Embedding'
  BY <1>1 DEF Comparing, Embedding
<1>4. Deleting'
  BY <1>1, <1>2 DEF Deleting
<1>5. Orphaned'
  BY <1>1, <1>2 DEF Orphaned, Pg!OfCourse
<1>6. Walked' /\ Settled'
  BY <1>1 DEF SyncInv, Walked, Settled, Readable
<1>7. Sorted'
  <2>1. \A b \in Buckets : sync'.report[b] = IF b = "orphaned" THEN orphans ELSE sync.report[b]
    BY <1>1 DEF orphans
  <2>2. orphans \cap sync.seen = {}
    BY <1>2 DEF orphans
  <2>3. \A a1, a2 \in Buckets : a1 # a2 => sync'.report[a1] \cap sync'.report[a2] = {}
    BY <2>1, <2>2 DEF SyncInv, Sorted
  <2>4. \A a \in Buckets \ {"orphaned"} : sync'.report[a] \subseteq sync'.seen \ DOMAIN sync'.walk
    BY <1>1, <2>1 DEF SyncInv, Sorted
  <2> QED BY <1>1, <2>1, <2>2, <2>3, <2>4 DEF Sorted, Buckets
<1>8. Embedded'
  BY <1>1 DEF SyncInv, Embedded
<1> QED BY <1>3, <1>4, <1>5, <1>6, <1>7, <1>8 DEF SyncInv

LEMMA DeleteKeeps ==
  ASSUME Typed, SyncInv, DeleteOrphan
  PROVE  SyncInv'
<1> DEFINE left == sync.report["orphaned"] \cap DOMAIN pg.concept
<1>1. /\ sync.phase = "delete" /\ sync'.report = sync.report
      /\ UNCHANGED <<bundle, moved, edited, curated, unembedded>>
  BY DeleteDoes DEF Typed, files
<1>2. PICK c \in left : DropConcept(c) /\ SyncKeepsRest(IF left = {c} THEN "done" ELSE "delete")
  BY DeleteDoes DEF Typed
<1>3. pg'.concept = Without(pg.concept, {c}) /\ pg'.vector = Without(pg.vector, {c})
  BY <1>2, DropConceptDoes DEF Typed, StoresTyped
<1>4. /\ DOMAIN pg'.concept = DOMAIN pg.concept \ {c} /\ DOMAIN pg'.vector = DOMAIN pg.vector \ {c}
      /\ \A x \in DOMAIN pg'.concept : pg'.concept[x] = pg.concept[x]
      /\ \A x \in DOMAIN pg'.vector : pg'.vector[x] = pg.vector[x]
  BY <1>3 DEF Without
<1>5. /\ sync'.phase = (IF left = {c} THEN "done" ELSE "delete")
      /\ sync'.course = sync.course /\ sync'.deletes = sync.deletes
      /\ sync'.seen = sync.seen /\ sync'.walk = sync.walk
  BY <1>2 DEF SyncKeepsRest
<1>6. c \in sync.report["orphaned"] /\ c \notin sync.seen
  BY <1>1, <1>2 DEF SyncInv, Deleting
<1>7. Comparing' /\ Embedding'
  BY <1>5 DEF Comparing, Embedding
<1>8. Deleting'
  BY <1>1, <1>4, <1>5 DEF SyncInv, Deleting
<1>9. Orphaned'
  BY <1>1, <1>4, <1>5 DEF SyncInv, Orphaned, Pg!OfCourse
<1>10. Walked'
  BY <1>1, <1>5 DEF SyncInv, Walked, Readable
<1>11. Settled'
  BY <1>1, <1>4, <1>5, <1>6 DEF SyncInv, Settled, Readable
<1>12. Sorted'
  BY <1>1, <1>5 DEF SyncInv, Sorted
<1>13. Embedded'
  BY <1>1, <1>4 DEF SyncInv, Embedded
<1> QED BY <1>7, <1>8, <1>9, <1>10, <1>11, <1>12, <1>13 DEF SyncInv

---------------------------------------------------------------------------
\* The index is a projection of the bundle, and reconcile() keeps the rest

\* The tables of the course that was built.
LEMMA UsedHas ==
  /\ IsStore(Used)
  /\ Used.concept = [c \in Concepts |-> [course |-> 1, hash |-> ComposeConcept(Contents[1]),
                                         refs |-> Contents[1].refs, curation |-> "default"]]
  /\ Used.vector = [c \in Concepts |-> Contents[1].body]
  /\ Used.edge = [k \in Keys |-> [Edge EXCEPT !.exposures = 1, !.traversed = 1]]
  /\ Used.question = [q \in {1} |-> [concept |-> 1, edge |-> <<1, "related", 2>>, difficulty |-> 1, hops |-> 1,
                                     status |-> "active"]]
  /\ Used.state = [c \in {1} |-> [stability |-> 4, due |-> 6]]
  /\ Used.events = <<[kind |-> "check", course |-> 1, at |-> 1, total |-> 1]>>
  /\ Used.note = <<>> /\ Used.profile = <<>>
<1> DEFINE c == [x \in Concepts |-> [course |-> 1, hash |-> ComposeConcept(Contents[1]),
                                     refs |-> Contents[1].refs, curation |-> "default"]]
           v == [x \in Concepts |-> Contents[1].body]
           e == [k \in Keys |-> [Edge EXCEPT !.exposures = 1, !.traversed = 1]]
           q == [x \in {1} |-> [concept |-> 1, edge |-> <<1, "related", 2>>, difficulty |-> 1, hops |-> 1,
                                status |-> "active"]]
           s == [x \in {1} |-> [stability |-> 4, due |-> 6]]
           r == [x \in {1} |-> <<[concept |-> 1, at |-> 1], [concept |-> 1, at |-> 2]>>]
           l == <<[kind |-> "check", course |-> 1, at |-> 1, total |-> 1]>>
<1>1. Used = [NoTables EXCEPT !.concept = c, !.vector = v, !.edge = e, !.question = q, !.state = s,
                              !.reviews = r, !.events = l]
  BY Zenon DEF Used
<1> HIDE DEF c, v, e, q, s, r, l
<1>2. /\ IsStore(Used) /\ Used.concept = c /\ Used.vector = v /\ Used.edge = e /\ Used.question = q
      /\ Used.state = s /\ Used.events = l /\ Used.note = <<>> /\ Used.profile = <<>>
  BY <1>1 DEF NoTables, IsStore
<1>3. Used.concept = [x \in Concepts |-> [course |-> 1, hash |-> ComposeConcept(Contents[1]),
                                     refs |-> Contents[1].refs, curation |-> "default"]]
  BY <1>2, Zenon DEF c
<1>4. Used.vector = [x \in Concepts |-> Contents[1].body] /\ Used.edge = [k \in Keys |-> [Edge EXCEPT !.exposures = 1, !.traversed = 1]]
  BY <1>2, Zenon DEF v, e
<1>5. Used.question = [x \in {1} |-> [concept |-> 1, edge |-> <<1, "related", 2>>, difficulty |-> 1, hops |-> 1,
                                status |-> "active"]]
  BY <1>2, Zenon DEF q
<1>6. Used.state = [x \in {1} |-> [stability |-> 4, due |-> 6]]
      /\ Used.events = <<[kind |-> "check", course |-> 1, at |-> 1, total |-> 1]>>
  BY <1>2, Zenon DEF s, l
<1> QED BY <1>2, <1>3, <1>4, <1>5, <1>6

LEMMA TypedInit ==
  ASSUME Init
  PROVE  Typed
<1>1. Counted
  BY CallsType DEF Init, Counted
<1>2. StoresTyped
  <2>1. pg = Used /\ ref = Used
    BY DEF Init
  <2>2. DOMAIN Used.concept = Concepts
        /\ \A c \in Concepts : DOMAIN Used.concept[c] = {"course", "hash", "refs", "curation"}
    BY UsedHas
  <2> QED BY <2>1, <2>2, UsedHas DEF StoresTyped
<1>3. SyncTyped
  <2>1. sync = NoSync
    BY DEF Init
  <2> QED BY <2>1 DEF SyncTyped, NoSync, Phases
<1>4. FilesTyped
  <2> DEFINE one == Contents[1]
             two == Contents[2]
             built == [c \in Concepts |-> one]
  <2>1. one \in Written /\ two \in Written
    <3>1. 1 \in DOMAIN Contents /\ 2 \in DOMAIN Contents
      <4> DEFINE S == [body : Docs, refs : Seq(Ref)]
      <4>1. Contents \in Seq(S) /\ Len(Contents) >= 2
        BY BodiesAreDocs
      <4> HIDE DEF S
      <4> QED BY <4>1
    <3> QED BY <3>1 DEF Written
  <2>2. /\ kept \in {built, Put(built, 1, two), Without(built, {1})}
        /\ bundle = [c \in DOMAIN kept |-> ComposeConcept(kept[c])] /\ writing = <<>>
    BY DEF Init
  <2> HIDE DEF one, two
  <2>3. DOMAIN kept \subseteq Concepts /\ \A c \in DOMAIN kept : kept[c] \in Written
    BY <2>1, <2>2, CallsType DEF Put, Without
  <2> QED BY <2>2, <2>3 DEF FilesTyped
<1> QED BY <1>1, <1>2, <1>3, <1>4 DEF Typed

LEMMA SyncInvInit ==
  ASSUME Init
  PROVE  SyncInv
<1>1. /\ sync.phase = "idle" /\ DOMAIN sync.walk = {} /\ sync.seen = {} /\ sync.report = [b \in Buckets |-> {}]
      /\ pg = Used
  <2>1. sync = NoSync /\ pg = Used
    BY DEF Init
  <2> QED BY <2>1 DEF NoSync
<1>2. Comparing /\ Deleting /\ Embedding /\ Orphaned /\ Settled /\ Walked
  BY <1>1 DEF Comparing, Deleting, Embedding, Orphaned, Settled, Walked
<1>3. Sorted
  BY <1>1 DEF Sorted, Buckets
<1>4. Embedded
  <2> DEFINE first == Contents[1]
             file == ComposeConcept(first)
             told == SplitConcept(file)
  <2>1. told = first \/ unembedded = Concepts
    BY DEF Init
  <2>2. \A c \in Concepts : pg.concept[c].hash = file /\ pg.concept[c].refs = first.refs /\ pg.vector[c] = first.body
    BY <1>1, UsedHas
  <2>3. DOMAIN pg.concept = Concepts /\ DOMAIN pg.vector = Concepts
    BY <1>1, UsedHas
  <2> HIDE DEF first, file
  <2> QED BY <2>1, <2>2, <2>3 DEF Embedded
<1> QED BY <1>2, <1>3, <1>4 DEF SyncInv

LEMMA TypedStays ==
  ASSUME Typed, [Next]_vars
  PROVE  Typed' /\ SyncKinds
BY CountedStays, SyncStepKinds, StoresTypedStays, SyncTypedStays, FilesTypedStays DEF Typed

LEMMA SyncInvStays ==
  ASSUME Typed, SyncInv, [Next]_vars
  PROVE  SyncInv'
<1>1. SyncKinds /\ FilesTyped'
  BY TypedStays DEF Typed
<1>2. CASE SyncStep
  BY <1>2, CompareKeeps, ProjectKeeps, EmbedKeeps, GiveUpKeeps, CollectKeeps, DeleteKeeps DEF SyncStep
<1> QED BY <1>1, <1>2, QuietKeeps, RewriteKeeps, StartKeeps, CurateKeeps DEF SyncKinds

\* The inductive invariant of reconcile() and the bundle holds.
THEOREM SyncInvariant == Spec => [](Typed /\ SyncInv)
<1>1. Init => Typed /\ SyncInv
  BY TypedInit, SyncInvInit
<1>2. Typed /\ SyncInv /\ [Next]_vars => (Typed /\ SyncInv)'
  BY TypedStays, SyncInvStays
<1> QED BY <1>1, <1>2, PTL DEF Spec

\* What is read from a document is what was put, for any documents.
THEOREM BundleReadsBackHolds == Spec => []BundleReadsBack
<1>1. ASSUME Typed PROVE BundleReadsBack
  <2>1. ASSUME NEW c \in DOMAIN bundle
        PROVE  \/ bundle[c] = Torn \/ Ambiguous(kept[c])
               \/ SplitConcept(bundle[c]) = [body |-> ReadText(kept[c].body), refs |-> kept[c].refs]
    <3> SUFFICES ASSUME bundle[c] # Torn, ~Ambiguous(kept[c])
                 PROVE  SplitConcept(bundle[c]) = [body |-> ReadText(kept[c].body), refs |-> kept[c].refs]
      OBVIOUS
    <3>1. kept[c] \in Written /\ bundle[c] = ComposeConcept(kept[c])
      BY <1>1 DEF Typed, FilesTyped
    <3>2. kept[c] \in [body : Document, refs : Seq(Ref)]
      BY <3>1, WrittenReads
    <3> QED BY <3>1, <3>2, ConceptReadsBack
  <2>2. ASSUME NEW p \in Docs, NEW r \in Docs \cup {<<>>}
        PROVE  \/ \E n \in 2 .. Len(p) : ReadText(p)[n] = RubricFence
               \/ SplitQuestion(ComposeQuestion([prompt |-> p, rubric |-> r]))
                    = [prompt |-> ReadText(p), rubric |-> ReadText(r)]
    <3>1. Docs \subseteq Document
      BY BodiesAreDocs
    <3>2. p \in Document /\ r \in Document \cup {<<>>}
      BY <3>1
    <3> QED BY <3>2, QuestionReadsBack
  <2> QED BY <2>1, <2>2 DEF BundleReadsBack
<1> QED BY <1>1, SyncInvariant, PTL

\* The list of a course's concepts has them all.
LEMMA ListsCourse ==
  ASSUME StoresTyped, NEW o
  PROVE  ToSet(Pg!ListConcepts(pg, o)) = Pg!OfCourse(pg, o)
<1> DEFINE ids == Pg!OfCourse(pg, o)
           key == [x \in ids |-> x]
<1>1. ids \subseteq Concepts
  BY DEF StoresTyped, Pg!OfCourse
<1>2. Pg!ListConcepts(pg, o) = ListedBy(key)
  <2> HIDE DEF ids
  <2>1. Pg!ListConcepts(pg, o) = Pg!ListedBy(key)
    BY Zenon DEF Pg!ListConcepts, Pg!Listed, ids
  <2> HIDE DEF key
  <2> QED BY <2>1, SameListing
<1> HIDE DEF ids
<1>3. DOMAIN key = ids /\ ids \subseteq Nat /\ IsFiniteSet(ids) /\ key \in [ids -> Int]
  <2>1. Concepts \subseteq Nat /\ IsFiniteSet(Concepts)
    BY StoreConstants
  <2>2. IsFiniteSet(ids)
    BY <1>1, <2>1, FS_Subset
  <2> QED BY <1>1, <2>1, <2>2
<1> HIDE DEF key
<1>4. ToSet(ListedBy(key)) = ids
  BY <1>3, ListedInOrder
<1> QED BY <1>2, <1>4 DEF ids

\* The index is a projection of the bundle, after any edits, curations and
\* failures of reconcile().
THEOREM IndexTellsBundleHolds == Spec => []IndexTellsBundle
<1>1. ASSUME Typed, SyncInv PROVE IndexTellsBundle
  <2>1. Embedded
    BY <1>1 DEF SyncInv
  <2>2. ASSUME sync.phase = "done", edited = {}
        PROVE  /\ ~moved => \A c \in DOMAIN bundle \ Reserved : c \in DOMAIN pg.concept /\ pg.concept[c].hash = bundle[c]
               /\ sync.deletes => ToSet(Pg!ListConcepts(pg, sync.course)) \subseteq sync.seen
               /\ \A a, b \in Buckets : a # b => sync.report[a] \cap sync.report[b] = {}
    <3>1. DOMAIN sync.walk = {}
      BY <1>1, <2>2 DEF Typed, SyncTyped
    <3>2. ~moved => \A c \in DOMAIN bundle \ Reserved : c \in DOMAIN pg.concept /\ pg.concept[c].hash = bundle[c]
      BY <1>1, <2>2, <3>1 DEF SyncInv, Settled
    <3>3. sync.deletes => ToSet(Pg!ListConcepts(pg, sync.course)) \subseteq sync.seen
      BY <1>1, <2>2, ListsCourse DEF SyncInv, Orphaned, Typed
    <3> QED BY <1>1, <3>2, <3>3 DEF SyncInv, Sorted
  <2> QED BY <2>1, <2>2 DEF IndexTellsBundle, Embedded
<1> QED BY <1>1, SyncInvariant, PTL

\* The body of SyncKeeps.
KeptBySync ==
  /\ \A c \in DOMAIN pg.concept \ DOMAIN pg'.concept :
       sync.deletes /\ c \notin sync.seen /\ pg.concept[c].course = sync.course
  /\ \A c \in DOMAIN pg.state \ DOMAIN pg'.state : c \notin DOMAIN pg'.concept
  /\ \A k \in DOMAIN pg.edge \ DOMAIN pg'.edge : ~({k[1], k[3]} \subseteq DOMAIN pg'.concept)
  /\ \A c \in DOMAIN pg.concept \cap DOMAIN pg'.concept :
       pg'.concept[c].curation = pg.concept[c].curation \/ c \in curated

LEMMA SyncStepKeeps ==
  ASSUME Typed, SyncInv, [Next]_vars, fuel' = fuel
  PROVE  KeptBySync
<1>1. CASE pg'.concept = pg.concept /\ pg'.state = pg.state /\ pg'.edge = pg.edge
  BY <1>1 DEF KeptBySync
<1>2. CASE UNCHANGED vars \/ (Writes /\ UNCHANGED desks)
  BY <1>1, <1>2, WritesRewrite DEF Rewrites, vars, stores
<1>3. ~Spends
  BY DEF Spends, Typed, Counted
<1>4. CASE HandlerSteps /\ UNCHANGED syncing
  BY <1>1, <1>4, HandlersCall, LogEventDoes, RetireQuestionDoes DEF Typed, StoresTyped, Keeps, stores
<1>5. CASE Compare \/ ContentMissing \/ SyncFails \/ CollectOrphans
  BY <1>1, <1>5, CompareDoes, GiveUpDoes, CollectDoes DEF Typed, stores
<1>6. CASE EmbedConcept
  BY <1>1, <1>6, EmbedDoes DEF Typed, Keeps
<1>7. CASE ProjectConcept
  <2> DEFINE c == Current
             row == Project(CurrentHash, SplitConcept(bundle[c]), sync.row)
  <2>1. /\ pg'.concept = Put(pg.concept, c, row) /\ Keeps(pg, pg', {"concept"}) /\ sync.phase = "project"
    BY <1>7, ProjectDoes DEF Typed
  <2>2. c \in DOMAIN pg.concept => row.curation = pg.concept[c].curation \/ c \in curated
    BY <2>1 DEF SyncInv, Comparing, Project
  <2> HIDE DEF c, row
  <2> QED BY <2>1, <2>2 DEF KeptBySync, Put, Keeps
<1>8. CASE DeleteOrphan
  <2>1. PICK c \in sync.report["orphaned"] \cap DOMAIN pg.concept : DropConcept(c)
    BY <1>8, DeleteDoes DEF Typed
  <2>2. sync.deletes /\ c \notin sync.seen /\ pg.concept[c].course = sync.course
    BY <1>8, <2>1, DeleteDoes DEF SyncInv, Deleting, Typed
  <2>3. /\ pg'.concept = Without(pg.concept, {c}) /\ pg'.state = Without(pg.state, {c})
        /\ pg'.edge = Without(pg.edge, {k \in DOMAIN pg.edge : c \in {k[1], k[3]}})
    BY <2>1, DropConceptDoes DEF Typed, StoresTyped
  <2> QED BY <2>2, <2>3 DEF KeptBySync, Without
<1> QED BY <1>2, <1>3, <1>4, <1>5, <1>6, <1>7, <1>8, StepKinds DEF SyncStep

\* What the learner and the curator have put in survives reconcile().
THEOREM SyncKeepsHolds == Spec => SyncKeeps
<1>1. ASSUME Typed, SyncInv, [Next]_vars PROVE [fuel' = fuel => KeptBySync]_vars
  BY <1>1, SyncStepKeeps
<1>2. [][fuel' = fuel => KeptBySync]_vars => SyncKeeps
  BY PTL DEF SyncKeeps, KeptBySync
<1> QED BY <1>1, <1>2, SyncInvariant, PTL DEF Spec

---------------------------------------------------------------------------
\* Logs, and the latest entry of a kind

IsLog(s) == \E X : s \in Seq(X)

LEMMA Appended ==
  ASSUME NEW s, IsLog(s), NEW e
  PROVE  LET t == Append(s, e)
         IN  /\ IsLog(t) /\ Len(s) \in Nat /\ DOMAIN s = 1 .. Len(s)
             /\ Len(t) = Len(s) + 1 /\ DOMAIN t = 1 .. Len(s) + 1
             /\ t[Len(s) + 1] = e /\ \A n \in DOMAIN s : t[n] = s[n]
<1>1. PICK X : s \in Seq(X)
  BY DEF IsLog
<1> DEFINE Y == X \cup {e}
           t == Append(s, e)
<1>2. s \in Seq(Y)
  <2>1. X \subseteq Y
    OBVIOUS
  <2> HIDE DEF Y
  <2> QED BY <1>1, <2>1, SeqMonotonic
<1>3. e \in Y
  OBVIOUS
<1> HIDE DEF Y
<1>4. t \in Seq(Y) /\ Len(t) = Len(s) + 1 /\ t[Len(s) + 1] = e /\ \A n \in 1 .. Len(s) : t[n] = s[n]
  BY <1>2, <1>3, AppendProperties
<1>5. Len(s) \in Nat /\ DOMAIN s = 1 .. Len(s)
  BY <1>2
<1> HIDE DEF t
<1>6. DOMAIN t = 1 .. Len(s) + 1
  BY <1>4
<1> QED BY <1>4, <1>5, <1>6 DEF IsLog, t

\* The last of finitely many entries, in time and then in the log, is one of them.
LEMMA LastByIn ==
  ASSUME NEW key, NEW T, T = DOMAIN key, T # {}, NEW most \in Nat, NEW len \in Nat,
         \A n \in T : n \in 1 .. len /\ key[n] \in Nat /\ key[n] <= most
  PROVE  LastBy(key) \in T
<1> DEFINE gaps == {most - key[n] : n \in T}
<1>1. gaps \in SUBSET Nat /\ gaps # {}
  OBVIOUS
<1>2. PICK gap \in gaps : \A g \in gaps : gap <= g
  <2> HIDE DEF gaps
  <2> QED BY <1>1, Least
<1>3. PICK top \in T : gap = most - key[top]
  OBVIOUS
<1>4. \A n \in T : key[n] <= key[top]
  BY <1>2, <1>3
<1> DEFINE late == {n \in T : key[n] = key[top]}
           rest == {len - n : n \in late}
<1>5. rest \in SUBSET Nat /\ rest # {}
  BY <1>3
<1>6. PICK left \in rest : \A r \in rest : left <= r
  <2> HIDE DEF rest
  <2> QED BY <1>5, Least
<1>7. PICK last \in late : left = len - last
  OBVIOUS
<1>8. ASSUME NEW n \in late PROVE n <= last
  <2>1. len - n \in rest
    OBVIOUS
  <2>2. len - last <= len - n /\ n \in Nat /\ last \in Nat
    BY <1>6, <1>7, <2>1
  <2> QED BY <2>2
<1>9. last \in DOMAIN key /\ \A n \in DOMAIN key : key[last] > key[n] \/ (key[last] = key[n] /\ last >= n)
  BY <1>4, <1>7, <1>8
<1> HIDE DEF late
<1>10. (CHOOSE m \in DOMAIN key : \A n \in DOMAIN key : key[m] > key[n] \/ (key[m] = key[n] /\ m >= n)) \in DOMAIN key
  BY <1>9
<1> QED BY <1>10, Zenon DEF LastBy

CheckRows(log, o) == {n \in DOMAIN log : log[n].kind = "check" /\ log[n].course = o}

LastOf(log, o) ==
  IF CheckRows(log, o) = {} THEN <<>> ELSE <<log[LastBy([n \in CheckRows(log, o) |-> log[n].at])]>>

LEMMA SameLast ==
  ASSUME NEW key
  PROVE  Pg!LastBy(key) = LastBy(key) /\ Memory!LastBy(key) = LastBy(key)
BY Zenon DEF Pg!LastBy, Memory!LastBy, LastBy

LEMMA LastCheckIs ==
  ASSUME NEW o
  PROVE  LastCheck(o) = LastOf(pg.events, o)
BY SameLast, Zenon DEF LastCheck, Pg!LastEvent, LastOf, CheckRows

\* An event of another kind or course is not the last check-in.
LEMMA OtherEvent ==
  ASSUME NEW log, IsLog(log), NEW e, NEW o, ~(e.kind = "check" /\ e.course = o), NEW most \in Nat,
         \A n \in DOMAIN log : log[n].at \in Nat /\ log[n].at <= most
  PROVE  CheckRows(Append(log, e), o) = CheckRows(log, o) /\ LastOf(Append(log, e), o) = LastOf(log, o)
<1> DEFINE new == Append(log, e)
           rows == CheckRows(log, o)
           key == [n \in rows |-> log[n].at]
<1>1. /\ Len(log) \in Nat /\ DOMAIN log = 1 .. Len(log)
      /\ DOMAIN new = 1 .. Len(log) + 1 /\ new[Len(log) + 1] = e
      /\ \A n \in DOMAIN log : new[n] = log[n]
  BY Appended
<1> HIDE DEF new
<1>2. CheckRows(new, o) = rows
  BY <1>1 DEF CheckRows
<1>3. rows \subseteq DOMAIN log
  BY DEF CheckRows
<1> HIDE DEF rows
<1>4. [n \in rows |-> new[n].at] = key
  BY <1>1, <1>3
<1>5. rows # {} => LastBy(key) \in rows
  <2>1. DOMAIN key = rows /\ \A n \in rows : n \in 1 .. Len(log) /\ key[n] \in Nat /\ key[n] <= most
    BY <1>1, <1>3
  <2> HIDE DEF key
  <2> QED BY <1>1, <2>1, LastByIn
<1>6. LastOf(new, o) = IF rows = {} THEN <<>> ELSE <<new[LastBy(key)]>>
  BY <1>2, <1>4 DEF LastOf
<1>7. LastOf(log, o) = IF rows = {} THEN <<>> ELSE <<log[LastBy(key)]>>
  BY DEF LastOf, rows
<1> HIDE DEF key
<1>8. LastOf(new, o) = LastOf(log, o)
  BY <1>1, <1>3, <1>5, <1>6, <1>7
<1> QED BY <1>2, <1>8 DEF new, rows

\* A check-in that is not before any of its course is the last one.
LEMMA NewCheck ==
  ASSUME NEW log, IsLog(log), NEW e, e.kind = "check", e.at \in Nat,
         \A n \in DOMAIN log : log[n].at \in Nat,
         \A n \in CheckRows(log, e.course) : log[n].at <= e.at
  PROVE  LastOf(Append(log, e), e.course) = <<e>>
<1> DEFINE o == e.course
           new == Append(log, e)
           rows == CheckRows(new, o)
           key == [n \in rows |-> new[n].at]
           last == Len(log) + 1
<1>1. /\ Len(log) \in Nat /\ DOMAIN log = 1 .. Len(log)
      /\ DOMAIN new = 1 .. Len(log) + 1 /\ new[Len(log) + 1] = e
      /\ \A n \in DOMAIN log : new[n] = log[n]
  BY Appended
<1> HIDE DEF new
<1>2. last \in rows /\ \A n \in rows : n # last => n \in CheckRows(log, o) /\ n \in 1 .. Len(log)
  BY <1>1 DEF CheckRows
<1>3. \A n \in rows : new[n].at \in Nat /\ new[n].at <= e.at /\ n <= last
  BY <1>1, <1>2 DEF CheckRows
<1> HIDE DEF rows
<1>4. DOMAIN key = rows /\ \A n \in rows : key[n] = new[n].at
  OBVIOUS
<1> HIDE DEF key
<1>5. key[last] = e.at
  BY <1>1, <1>2, <1>4
<1> DEFINE IsLast(m) == \A n \in DOMAIN key : key[m] > key[n] \/ (key[m] = key[n] /\ m >= n)
<1>6. IsLast(last)
  BY <1>1, <1>3, <1>4, <1>5
<1>7. \A m \in DOMAIN key : IsLast(m) => m = last
  <2> SUFFICES ASSUME NEW m \in rows, IsLast(m) PROVE m = last
    BY <1>4
  <2>1. key[m] > key[last] \/ (key[m] = key[last] /\ m >= last)
    BY <1>2, <1>4
  <2>2. key[m] \in Nat /\ key[m] <= key[last] /\ m <= last
    BY <1>3, <1>4, <1>5
  <2>3. m >= last
    BY <2>1, <2>2, <1>5
  <2>4. m \in Nat /\ last \in Nat
    BY <1>1, <1>2
  <2> QED BY <2>2, <2>3, <2>4
<1>8. LastBy(key) = CHOOSE m \in DOMAIN key : IsLast(m)
  BY Zenon DEF LastBy
<1> HIDE DEF IsLast
<1>9. LastBy(key) = last
  BY <1>2, <1>4, <1>6, <1>7, <1>8
<1>10. LastOf(new, o) = <<new[LastBy(key)]>>
  BY <1>2 DEF LastOf, rows, key
<1> QED BY <1>1, <1>9, <1>10 DEF new

---------------------------------------------------------------------------
\* The inductive invariant of the check-ins

DeskTyped ==
  /\ DOMAIN desk = Handlers /\ IsLog(checks) /\ IsLog(pg.events)
  /\ \A h \in Handlers : DOMAIN desk[h] = DOMAIN NoCall /\ desk[h].at \in Nat /\ desk[h].at <= clock
  /\ \A n \in DOMAIN pg.events : pg.events[n].at \in Nat /\ pg.events[n].at <= clock

Checking(call) == call.kind \in {"states", "last", "log"}

\* A check-in that no other of its course has overlapped is not before any of
\* them, and the event it has read is still the last.
Undisturbed(call, log) ==
  Checking(call) /\ ~call.overlapped =>
    /\ \A n \in CheckRows(log, call.course) : log[n].at <= call.at
    /\ call.kind = "log" => call.last = LastOf(log, call.course)

Latest(m) == \A i \in m + 1 .. Len(checks) : checks[i].course # checks[m].course

\* The last event of a course is the check-in that was logged last, unless that
\* one was overlapped.
Anchored ==
  \A m \in DOMAIN checks : Latest(m) /\ ~checks[m].overlapped =>
    LET last == LastOf(pg.events, checks[m].course)
    IN last # <<>> /\ last[1].total = checks[m].total

\* The first half of ChecksAddUp.
AddUp ==
  \A m, n \in DOMAIN checks :
    /\ m < n /\ checks[m].course = checks[n].course
    /\ \A i \in m + 1 .. n - 1 : checks[i].course # checks[n].course
    /\ ~checks[m].overlapped /\ ~checks[n].overlapped
    => checks[n].delta = <<checks[n].total - checks[m].total>>

DeskInv == DeskTyped /\ (\A h \in Handlers : Undisturbed(desk[h], pg.events)) /\ Anchored /\ AddUp

\* The instant does not go back.
LEMMA ClockOn ==
  ASSUME Counted, NEW now, Later(now)
  PROVE  clock' = now /\ clock' \in Nat /\ clock <= clock'
BY DEF Counted, Later

\* Nothing that the check-ins look at changes.
LEMMA DeskRests ==
  ASSUME DeskInv, UNCHANGED desks, pg'.events = pg.events
  PROVE  DeskInv'
<1>1. clock' = clock /\ desk' = desk /\ checks' = checks
  BY DEF desks
<1>2. DeskTyped'
  BY <1>1 DEF DeskInv, DeskTyped
<1>3. (\A h \in Handlers : Undisturbed(desk[h], pg.events))'
  BY <1>1 DEF DeskInv
<1>4. Anchored' /\ AddUp'
  BY <1>1 DEF DeskInv, Anchored, AddUp, Latest
<1> QED BY <1>2, <1>3, <1>4 DEF DeskInv

\* One handler's call changes, and no check-in is logged.
LEMMA DeskCalls ==
  ASSUME DeskInv, Counted, NEW h \in Handlers, NEW call,
         Becomes(h, call) \/ (desk' = desk /\ call = desk[h]),
         clock' \in Nat, clock <= clock', checks' = checks,
         DOMAIN call = DOMAIN NoCall, call.at \in Nat, call.at <= clock',
         IsLog(pg'.events),
         \A n \in DOMAIN pg'.events : pg'.events[n].at \in Nat /\ pg'.events[n].at <= clock',
         \A o : CheckRows(pg'.events, o) = CheckRows(pg.events, o) /\ LastOf(pg'.events, o) = LastOf(pg.events, o),
         \A n \in DOMAIN pg.events : pg'.events[n] = pg.events[n],
         Undisturbed(call, pg'.events)
  PROVE  DeskInv'
<1>1. DOMAIN desk' = Handlers /\ \A g \in Handlers : desk'[g] = IF g = h THEN call ELSE desk[g]
  BY DEF Becomes, DeskInv, DeskTyped
<1>2. DeskTyped'
  <2>1. \A g \in Handlers : DOMAIN desk[g] = DOMAIN NoCall /\ desk[g].at \in Nat /\ desk[g].at <= clock
    BY DEF DeskInv, DeskTyped
  <2>2. clock \in Nat
    BY DEF Counted
  <2>3. \A g \in Handlers : DOMAIN desk'[g] = DOMAIN NoCall /\ desk'[g].at \in Nat /\ desk'[g].at <= clock'
    BY <1>1, <2>1, <2>2
  <2>4. IsLog(checks')
    BY DEF DeskInv, DeskTyped
  <2> QED BY <1>1, <2>3, <2>4 DEF DeskTyped
<1>3. ASSUME NEW g \in Handlers PROVE Undisturbed(desk'[g], pg'.events)
  <2>1. CASE g = h
    BY <1>1, <2>1
  <2>2. CASE g # h
    <3>1. Undisturbed(desk[g], pg.events) /\ desk'[g] = desk[g]
      BY <1>1, <2>2 DEF DeskInv
    <3>2. CheckRows(pg.events, desk[g].course) \subseteq DOMAIN pg.events
      BY DEF CheckRows
    <3> QED BY <3>1, <3>2 DEF Undisturbed
  <2> QED BY <2>1, <2>2
<1>4. Anchored' /\ AddUp'
  BY DEF DeskInv, Anchored, AddUp, Latest
<1> QED BY <1>2, <1>3, <1>4 DEF DeskInv

\* An event that is no check-in is logged.
LEMMA OtherEventKeeps ==
  ASSUME DeskInv, Counted, IsStore(pg), IsStore(ref), NEW e, LogEvent(e), e.kind # "check", e.at = clock',
         clock' \in Nat, clock <= clock'
  PROVE  /\ IsLog(pg'.events)
         /\ \A n \in DOMAIN pg'.events : pg'.events[n].at \in Nat /\ pg'.events[n].at <= clock'
         /\ \A o : CheckRows(pg'.events, o) = CheckRows(pg.events, o) /\ LastOf(pg'.events, o) = LastOf(pg.events, o)
         /\ \A n \in DOMAIN pg.events : pg'.events[n] = pg.events[n]
<1> DEFINE log == pg.events
<1>1. pg'.events = Append(log, e)
  BY LogEventDoes
<1>2. IsLog(log) /\ clock \in Nat /\ \A n \in DOMAIN log : log[n].at \in Nat /\ log[n].at <= clock
  BY DEF DeskInv, DeskTyped, Counted
<1> HIDE DEF log
<1>3. /\ IsLog(pg'.events) /\ Len(log) \in Nat /\ DOMAIN log = 1 .. Len(log)
      /\ DOMAIN pg'.events = 1 .. Len(log) + 1
      /\ pg'.events[Len(log) + 1] = e /\ \A n \in DOMAIN log : pg'.events[n] = log[n]
  BY <1>1, <1>2, Appended
<1>4. \A n \in DOMAIN pg'.events : pg'.events[n].at \in Nat /\ pg'.events[n].at <= clock'
  <2> SUFFICES ASSUME NEW n \in DOMAIN pg'.events PROVE pg'.events[n].at \in Nat /\ pg'.events[n].at <= clock'
    OBVIOUS
  <2>1. CASE n = Len(log) + 1
    BY <1>3, <2>1
  <2>2. CASE n # Len(log) + 1
    <3>1. n \in DOMAIN log
      BY <1>3, <2>2
    <3>2. log[n].at \in Nat /\ log[n].at <= clock /\ pg'.events[n] = log[n]
      BY <1>2, <1>3, <3>1
    <3> QED BY <1>2, <3>2
  <2> QED BY <2>1, <2>2
<1>5. \A o : CheckRows(pg'.events, o) = CheckRows(log, o) /\ LastOf(pg'.events, o) = LastOf(log, o)
  BY <1>1, <1>2, OtherEvent
<1> QED BY <1>3, <1>4, <1>5 DEF log

\* A check-in is logged.
LEMMA LogCheckKeeps ==
  ASSUME DeskInv, Counted, IsStore(pg), IsStore(ref), NEW h \in Handlers, LogCheck(h)
  PROVE  DeskInv'
<1> DEFINE call == desk[h]
           o == call.course
           e == [kind |-> "check", course |-> o, at |-> call.at, total |-> call.total]
           entry == [course |-> o, total |-> call.total, delta |-> Delta(call), overlapped |-> call.overlapped]
           log == pg.events
           new == pg'.events
           len == Len(checks)
<1>1. /\ call.kind = "log" /\ LogEvent(e) /\ checks' = Append(checks, entry) /\ clock' = clock
      /\ desk' = [g \in Handlers |->
                    IF g = h THEN NoCall
                    ELSE IF desk[g].course = o THEN [desk[g] EXCEPT !.overlapped = TRUE] ELSE desk[g]]
  BY Zenon DEF LogCheck
<1>2. new = Append(log, e)
  BY <1>1, LogEventDoes
<1>3. /\ e.kind = "check" /\ e.course = o /\ e.at = call.at /\ e.total = call.total
      /\ entry.course = o /\ entry.total = call.total /\ entry.delta = Delta(call) /\ entry.overlapped = call.overlapped
  OBVIOUS
<1>4. /\ IsLog(log) /\ clock \in Nat /\ \A n \in DOMAIN log : log[n].at \in Nat /\ log[n].at <= clock
      /\ call.at \in Nat /\ call.at <= clock
  BY DEF DeskInv, DeskTyped, Counted
<1>5. IsLog(checks) /\ Anchored /\ AddUp /\ Undisturbed(call, log)
  BY DEF DeskInv, DeskTyped
<1> HIDE DEF e, entry
<1>6. /\ IsLog(new) /\ Len(log) \in Nat /\ DOMAIN log = 1 .. Len(log) /\ DOMAIN new = 1 .. Len(log) + 1
      /\ new[Len(log) + 1] = e /\ \A n \in DOMAIN log : new[n] = log[n]
  <2> HIDE DEF log, new
  <2> QED BY <1>2, <1>4, Appended
<1>7. /\ IsLog(checks') /\ len \in Nat /\ DOMAIN checks = 1 .. len /\ DOMAIN checks' = 1 .. len + 1
      /\ Len(checks') = len + 1
      /\ checks'[len + 1] = entry /\ \A n \in DOMAIN checks : checks'[n] = checks[n]
  BY <1>1, <1>5, Appended
<1>8. \A p : p # o => CheckRows(new, p) = CheckRows(log, p) /\ LastOf(new, p) = LastOf(log, p)
  <2> SUFFICES ASSUME NEW p, p # o PROVE CheckRows(new, p) = CheckRows(log, p) /\ LastOf(new, p) = LastOf(log, p)
    OBVIOUS
  <2> HIDE DEF log, new
  <2> QED BY <1>2, <1>3, <1>4, OtherEvent
<1>9. ~call.overlapped => LastOf(new, o) = <<e>> /\ call.last = LastOf(log, o)
  <2> SUFFICES ASSUME ~call.overlapped PROVE LastOf(new, o) = <<e>> /\ call.last = LastOf(log, o)
    OBVIOUS
  <2>1. call.last = LastOf(log, o) /\ \A n \in CheckRows(log, o) : log[n].at <= call.at
    BY <1>1, <1>5 DEF Undisturbed, Checking
  <2> HIDE DEF log, new, call
  <2>2. LastOf(new, e.course) = <<e>>
    BY <1>2, <1>3, <1>4, <2>1, NewCheck
  <2> QED BY <1>3, <2>1, <2>2
<1>10. DeskTyped'
  <2>1. DOMAIN NoCall = {"kind", "course", "at", "concepts", "total", "question", "last", "overlapped"}
        /\ NoCall.at = 0
    BY DEF NoCall, Null
  <2>2. ASSUME NEW g \in Handlers
        PROVE  DOMAIN desk'[g] = DOMAIN NoCall /\ desk'[g].at \in Nat /\ desk'[g].at <= clock'
    <3>1. DOMAIN desk[g] = DOMAIN NoCall /\ desk[g].at \in Nat /\ desk[g].at <= clock
      BY DEF DeskInv, DeskTyped
    <3>2. \/ desk'[g] = NoCall
          \/ desk'[g] = [desk[g] EXCEPT !.overlapped = TRUE]
          \/ desk'[g] = desk[g]
      BY <1>1
    <3> QED BY <1>1, <1>4, <2>1, <3>1, <3>2
  <2>3. \A n \in DOMAIN new : new[n].at \in Nat /\ new[n].at <= clock'
    <3> HIDE DEF log, new, call
    <3> SUFFICES ASSUME NEW n \in DOMAIN new PROVE new[n].at \in Nat /\ new[n].at <= clock'
      OBVIOUS
    <3>1. CASE n = Len(log) + 1
      BY <1>1, <1>3, <1>4, <1>6, <3>1
    <3>2. CASE n # Len(log) + 1
      <4>1. n \in DOMAIN log /\ new[n] = log[n]
        BY <1>6, <3>2
      <4> QED BY <1>1, <1>4, <4>1
    <3> QED BY <3>1, <3>2
  <2>4. DOMAIN desk' = Handlers
    BY <1>1
  <2> QED BY <1>6, <1>7, <2>2, <2>3, <2>4 DEF DeskTyped
<1>11. ASSUME NEW g \in Handlers PROVE Undisturbed(desk'[g], new)
  <2>1. CASE g = h
    BY <1>1, <2>1 DEF Undisturbed, Checking, NoCall
  <2>2. CASE g # h /\ desk[g].course = o
    <3>1. DOMAIN desk[g] = DOMAIN NoCall
      BY DEF DeskInv, DeskTyped
    <3>2. desk'[g] = [desk[g] EXCEPT !.overlapped = TRUE]
      BY <1>1, <2>2
    <3>3. desk'[g].overlapped = TRUE
      BY <3>1, <3>2 DEF NoCall
    <3> QED BY <3>3 DEF Undisturbed
  <2>3. CASE g # h /\ desk[g].course # o
    <3>1. desk'[g] = desk[g] /\ Undisturbed(desk[g], log)
      BY <1>1, <2>3 DEF DeskInv
    <3>2. CheckRows(log, desk[g].course) \subseteq DOMAIN log
      BY DEF CheckRows
    <3> HIDE DEF log, new, call
    <3> QED BY <1>6, <1>8, <2>3, <3>1, <3>2 DEF Undisturbed
  <2> QED BY <2>1, <2>2, <2>3
<1> HIDE DEF log, new, call
<1>12. ASSUME NEW m \in DOMAIN checks', Latest(m)', ~checks'[m].overlapped
       PROVE  LastOf(new, checks'[m].course) # <<>> /\ LastOf(new, checks'[m].course)[1].total = checks'[m].total
  <2>1. CASE m = len + 1
    <3>1. checks'[m] = entry
      BY <1>7, <2>1
    <3>2. LastOf(new, o) = <<e>>
      BY <1>3, <1>9, <1>12, <3>1
    <3>3. <<e>> # <<>> /\ <<e>>[1] = e
      OBVIOUS
    <3> QED BY <1>3, <3>1, <3>2, <3>3
  <2>2. CASE m # len + 1
    <3>1. m \in DOMAIN checks /\ checks'[m] = checks[m]
      BY <1>7, <2>2
    <3>2. \A i \in m + 1 .. len + 1 : checks'[i].course # checks[m].course
      BY <1>7, <1>12, <3>1 DEF Latest
    <3>3. len + 1 \in m + 1 .. len + 1
      BY <1>7, <3>1
    <3>4. checks[m].course # o
      BY <1>3, <1>7, <3>2, <3>3
    <3>5. Latest(m)
      BY <1>7, <3>1, <3>2 DEF Latest
    <3> QED BY <1>5, <1>8, <1>12, <3>1, <3>4, <3>5 DEF Anchored, log
  <2> QED BY <2>1, <2>2
<1>13. ASSUME NEW m \in DOMAIN checks', NEW n \in DOMAIN checks', m < n, checks'[m].course = checks'[n].course,
              \A i \in m + 1 .. n - 1 : checks'[i].course # checks'[n].course,
              ~checks'[m].overlapped, ~checks'[n].overlapped
       PROVE  checks'[n].delta = <<checks'[n].total - checks'[m].total>>
  <2>1. m \in DOMAIN checks /\ checks'[m] = checks[m] /\ m \in Nat /\ n \in Nat
    BY <1>7, <1>13
  <2>2. CASE n = len + 1
    <3>1. checks'[n] = entry /\ checks[m].course = o
      BY <1>3, <1>7, <1>13, <2>1, <2>2
    <3>2. Latest(m)
      <4> SUFFICES ASSUME NEW i \in m + 1 .. len PROVE checks[i].course # checks[m].course
        BY DEF Latest
      <4>1. i \in m + 1 .. n - 1 /\ i \in DOMAIN checks
        BY <1>7, <2>1, <2>2
      <4> QED BY <1>7, <1>13, <2>1, <4>1
    <3>3. LastOf(log, o) # <<>> /\ LastOf(log, o)[1].total = checks[m].total
      BY <1>5, <1>13, <2>1, <3>1, <3>2 DEF Anchored, log
    <3>4. call.last = LastOf(log, o)
      BY <1>3, <1>9, <1>13, <3>1
    <3>5. Delta(call) = <<call.total - checks[m].total>>
      BY <3>3, <3>4 DEF Delta
    <3> QED BY <1>3, <2>1, <3>1, <3>5
  <2>3. CASE n # len + 1
    <3>1. n \in DOMAIN checks /\ checks'[n] = checks[n]
      BY <1>7, <2>3
    <3>2. \A i \in m + 1 .. n - 1 : i \in DOMAIN checks /\ checks[i] = checks'[i]
      BY <1>7, <2>1, <3>1
    <3> QED BY <1>5, <1>13, <2>1, <3>1, <3>2 DEF AddUp
  <2> QED BY <2>2, <2>3
<1>14. Anchored'
  BY <1>12 DEF Anchored, new
<1>15. AddUp'
  BY <1>13 DEF AddUp
<1> QED BY <1>10, <1>11, <1>14, <1>15 DEF DeskInv, new

LEMMA HandlersKeep ==
  ASSUME DeskInv, Typed, HandlerSteps
  PROVE  DeskInv'
<1> USE DEF Typed, StoresTyped
<1>1. NoCall.kind = "none" /\ NoCall.at = 0
  BY DEF NoCall, Null
<1>2. IsLog(pg.events) /\ \A n \in DOMAIN pg.events : pg.events[n].at \in Nat /\ pg.events[n].at <= clock
  BY DEF DeskInv, DeskTyped
<1>3. clock \in Nat
  BY DEF Counted
<1>4. ASSUME NEW h \in Handlers, NEW o \in Courses, OpenCheck(h, o) PROVE DeskInv'
  <2>1. PICK now \in {clock, clock + 1} : \E weights :
          Later(now) /\ Becomes(h, [NoCall EXCEPT !.kind = "states", !.course = o, !.at = now, !.concepts = weights])
    BY <1>4, Zenon DEF OpenCheck
  <2>2. PICK weights :
          Later(now) /\ Becomes(h, [NoCall EXCEPT !.kind = "states", !.course = o, !.at = now, !.concepts = weights])
    BY <2>1
  <2> DEFINE call == [NoCall EXCEPT !.kind = "states", !.course = o, !.at = now, !.concepts = weights]
  <2>3. DOMAIN call = DOMAIN NoCall /\ call.kind = "states" /\ call.at = now
    BY DEF NoCall
  <2>4. Becomes(h, call) /\ clock' = now /\ clock' \in Nat /\ clock <= clock' /\ checks' = checks /\ pg' = pg
    BY <1>3, <1>4, <2>2, ClockOn DEF OpenCheck, stores
  <2> HIDE DEF call
  <2>5. Undisturbed(call, pg.events)
    <3>1. CheckRows(pg.events, call.course) \subseteq DOMAIN pg.events
      BY DEF CheckRows
    <3>2. \A n \in DOMAIN pg.events : pg.events[n].at <= call.at
      BY <1>2, <1>3, <2>3, <2>4
    <3> QED BY <2>3, <3>1, <3>2 DEF Undisturbed
  <2>6. \A n \in DOMAIN pg.events : pg.events[n].at \in Nat /\ pg.events[n].at <= clock'
    BY <1>2, <1>3, <2>4
  <2> QED BY <1>2, <2>3, <2>4, <2>5, <2>6, DeskCalls
<1>5. ASSUME NEW h \in Handlers, ReadStates(h) PROVE DeskInv'
  <2>1. PICK total : Becomes(h, [desk[h] EXCEPT !.kind = "last", !.total = total])
    BY <1>5, Zenon DEF ReadStates
  <2> DEFINE call == [desk[h] EXCEPT !.kind = "last", !.total = total]
  <2>2. /\ DOMAIN call = DOMAIN NoCall /\ call.kind = "last" /\ call.at = desk[h].at
        /\ call.course = desk[h].course /\ call.overlapped = desk[h].overlapped
        /\ call.at \in Nat /\ call.at <= clock
    BY DEF DeskInv, DeskTyped, NoCall
  <2>3. Becomes(h, call) /\ clock' = clock /\ checks' = checks /\ pg' = pg /\ desk[h].kind = "states"
    BY <1>5, <2>1 DEF ReadStates, stores
  <2> HIDE DEF call
  <2>4. Undisturbed(call, pg.events)
    BY <2>2, <2>3 DEF DeskInv, Undisturbed, Checking
  <2> QED BY <1>2, <1>3, <2>2, <2>3, <2>4, DeskCalls
<1>6. ASSUME NEW h \in Handlers, ReadLast(h) PROVE DeskInv'
  <2> DEFINE last == LastOf(pg.events, desk[h].course)
             call == [desk[h] EXCEPT !.kind = "log", !.last = last]
  <2> HIDE DEF last
  <2>1. Becomes(h, call) /\ clock' = clock /\ checks' = checks /\ pg' = pg /\ desk[h].kind = "last"
    BY <1>6, LastCheckIs DEF ReadLast, stores, last
  <2>2. /\ DOMAIN call = DOMAIN NoCall /\ call.kind = "log" /\ call.at = desk[h].at /\ call.last = last
        /\ call.course = desk[h].course /\ call.overlapped = desk[h].overlapped
        /\ call.at \in Nat /\ call.at <= clock
    BY DEF DeskInv, DeskTyped, NoCall
  <2> HIDE DEF call
  <2>3. Undisturbed(call, pg.events)
    BY <2>1, <2>2 DEF DeskInv, Undisturbed, Checking, last
  <2> QED BY <1>2, <1>3, <2>1, <2>2, <2>3, DeskCalls
<1>7. ASSUME NEW h \in Handlers, HandlerDies(h) PROVE DeskInv'
  <2>1. Becomes(h, NoCall) /\ clock' = clock /\ checks' = checks /\ pg' = pg
    BY <1>7 DEF HandlerDies, stores
  <2>2. Undisturbed(NoCall, pg.events)
    BY <1>1 DEF Undisturbed, Checking
  <2> QED BY <1>1, <1>2, <1>3, <2>1, <2>2, DeskCalls
<1>8. ASSUME NEW h \in Handlers, LogFlag(h) PROVE DeskInv'
  <2>1. PICK now \in {clock, clock + 1} : \E course :
          Later(now) /\ LogEvent([kind |-> "item_flag", at |-> now, total |-> 0, course |-> course])
    BY <1>8, Zenon DEF LogFlag
  <2>2. PICK course : Later(now) /\ LogEvent([kind |-> "item_flag", at |-> now, total |-> 0, course |-> course])
    BY <2>1
  <2> DEFINE e == [kind |-> "item_flag", at |-> now, total |-> 0, course |-> course]
  <2>3. LogEvent(e) /\ e.kind # "check" /\ e.at = now
    BY <2>2
  <2> HIDE DEF e
  <2>4. clock' = now /\ clock' \in Nat /\ clock <= clock'
    BY <2>2, ClockOn
  <2>5. /\ IsLog(pg'.events)
        /\ \A n \in DOMAIN pg'.events : pg'.events[n].at \in Nat /\ pg'.events[n].at <= clock'
        /\ \A o : CheckRows(pg'.events, o) = CheckRows(pg.events, o) /\ LastOf(pg'.events, o) = LastOf(pg.events, o)
        /\ \A n \in DOMAIN pg.events : pg'.events[n] = pg.events[n]
    BY <2>3, <2>4, OtherEventKeeps
  <2>6. Becomes(h, NoCall) /\ checks' = checks
    BY <1>8 DEF LogFlag
  <2>7. Undisturbed(NoCall, pg'.events)
    BY <1>1 DEF Undisturbed, Checking
  <2> QED BY <1>1, <2>4, <2>5, <2>6, <2>7, DeskCalls
<1>9. ASSUME NEW o \in Courses, Escalate(o) PROVE DeskInv'
  <2>1. PICK now \in {clock, clock + 1} :
          Later(now) /\ LogEvent([kind |-> "escalate", course |-> o, at |-> now, total |-> 0])
    BY <1>9, Zenon DEF Escalate
  <2> DEFINE e == [kind |-> "escalate", course |-> o, at |-> now, total |-> 0]
  <2>2. LogEvent(e) /\ e.kind # "check" /\ e.at = now
    BY <2>1
  <2> HIDE DEF e
  <2>3. clock' = now /\ clock' \in Nat /\ clock <= clock'
    BY <2>1, ClockOn
  <2>4. /\ IsLog(pg'.events)
        /\ \A n \in DOMAIN pg'.events : pg'.events[n].at \in Nat /\ pg'.events[n].at <= clock'
        /\ \A p : CheckRows(pg'.events, p) = CheckRows(pg.events, p) /\ LastOf(pg'.events, p) = LastOf(pg.events, p)
        /\ \A n \in DOMAIN pg.events : pg'.events[n] = pg.events[n]
    BY <2>2, <2>3, OtherEventKeeps
  <2>5. desk' = desk /\ checks' = checks
    BY <1>9 DEF Escalate
  <2>6. ASSUME NEW h \in Handlers PROVE DeskInv'
    <3>1. desk' = desk
      BY <2>5
    <3>2. DOMAIN desk[h] = DOMAIN NoCall /\ desk[h].at \in Nat /\ desk[h].at <= clock'
      BY <1>3, <2>3 DEF DeskInv, DeskTyped
    <3>3. Undisturbed(desk[h], pg'.events)
      <4>1. CheckRows(pg.events, desk[h].course) \subseteq DOMAIN pg.events
        BY DEF CheckRows
      <4> QED BY <2>4, <4>1 DEF Undisturbed, DeskInv
    <3> QED BY <2>3, <2>4, <2>5, <3>1, <3>2, <3>3, DeskCalls
  <2>7. CASE Handlers = {}
    <3>1. DeskTyped' /\ (\A h \in Handlers : Undisturbed(desk[h], pg.events))'
      BY <2>4, <2>5, <2>7 DEF DeskInv, DeskTyped
    <3>2. Anchored' /\ AddUp'
      BY <2>4, <2>5 DEF DeskInv, Anchored, AddUp, Latest
    <3> QED BY <3>1, <3>2 DEF DeskInv
  <2> QED BY <2>6, <2>7
<1>10. ASSUME NEW h \in Handlers, NEW q, Flag(h, q) PROVE DeskInv'
  <2>1. PICK concepts : Becomes(h, [NoCall EXCEPT !.kind = "flagged", !.question = q, !.concepts = concepts])
    BY <1>10, Zenon DEF Flag
  <2> DEFINE call == [NoCall EXCEPT !.kind = "flagged", !.question = q, !.concepts = concepts]
  <2>2. DOMAIN call = DOMAIN NoCall /\ call.kind = "flagged" /\ call.at = 0
    BY <1>1 DEF NoCall
  <2>3. Becomes(h, call) /\ clock' = clock /\ checks' = checks /\ pg'.events = pg.events
    <3>1. RetireQuestion(q) /\ clock' = clock /\ checks' = checks
      BY <1>10 DEF Flag
    <3> QED BY <2>1, <3>1, RetireQuestionDoes DEF Keeps
  <2> HIDE DEF call
  <2>4. Undisturbed(call, pg.events)
    BY <2>2 DEF Undisturbed, Checking
  <2> QED BY <1>2, <1>3, <2>2, <2>3, <2>4, DeskCalls
<1>11. ASSUME NEW h \in Handlers, LogCheck(h) PROVE DeskInv'
  BY <1>11, LogCheckKeeps
<1> QED BY <1>4, <1>5, <1>6, <1>7, <1>8, <1>9, <1>10, <1>11 DEF HandlerSteps

\* No other step logs an event.
LEMMA SyncLogsNothing ==
  ASSUME Typed, SyncStep
  PROVE  pg'.events = pg.events
<1> USE DEF Typed, StoresTyped
<1>1. CASE Compare \/ ContentMissing \/ SyncFails \/ CollectOrphans
  BY <1>1, CompareDoes, GiveUpDoes, CollectDoes DEF stores
<1>2. CASE ProjectConcept
  BY <1>2, ProjectDoes DEF Keeps
<1>3. CASE EmbedConcept
  BY <1>3, EmbedDoes DEF Keeps
<1>4. CASE DeleteOrphan
  <2>1. PICK c : DropConcept(c)
    BY <1>4, DeleteDoes
  <2> QED BY <2>1, DropConceptDoes DEF Keeps
<1> QED BY <1>1, <1>2, <1>3, <1>4 DEF SyncStep

LEMMA LearnerLogsNothing ==
  ASSUME Typed, LearnerCalls
  PROVE  pg'.events = pg.events
<1> USE DEF Typed, StoresTyped
<1>1. ASSUME NEW c, NEW row, PutState(c, row) PROVE pg'.events = pg.events
  BY <1>1, PutStateDoes DEF Keeps
<1>2. ASSUME NEW e, LogReview(e) PROVE pg'.events = pg.events
  BY <1>2, LogReviewDoes DEF Keeps
<1>3. ASSUME NEW k, NEW skipped \in BOOLEAN, Expose(k, skipped, clock) PROVE pg'.events = pg.events
  <2>1. clock # Null
    BY DEF Counted, Null
  <2> QED BY <1>3, <2>1, ExposeDoes DEF Keeps
<1>4. ASSUME NEW k, NEW row, PutEdge(k, row) PROVE pg'.events = pg.events
  BY <1>4, PutEdgeDoes DEF Keeps
<1>5. ASSUME NEW q, NEW row, PutQuestion(q, row) PROVE pg'.events = pg.events
  BY <1>5, PutQuestionDoes DEF Keeps
<1>6. ASSUME NEW n, NEW row, PutNote(n, row) PROVE pg'.events = pg.events
  BY <1>6, PutNoteDoes DEF Keeps
<1>7. ASSUME NEW o, NEW row, PutProfile(o, row) PROVE pg'.events = pg.events
  BY <1>7, PutProfileDoes DEF Keeps
<1> HIDE DEF Typed, StoresTyped
<1> QED BY <1>1, <1>2, <1>3, <1>4, <1>5, <1>6, <1>7, Zenon DEF LearnerCalls

LEMMA DeskInvStays ==
  ASSUME DeskInv, Typed, [Next]_vars
  PROVE  DeskInv'
<1>1. CASE UNCHANGED vars
  BY <1>1, DeskRests DEF vars, stores
<1>2. CASE Writes /\ UNCHANGED desks
  BY <1>2, WritesRewrite, DeskRests DEF Rewrites, stores
<1>3. ASSUME NEW o, NEW d, StartSync(o, d), UNCHANGED desks PROVE DeskInv'
  BY <1>3, StartDoes, DeskRests DEF stores
<1>4. ASSUME NEW c, NEW w, Curate(c, w), UNCHANGED desks PROVE DeskInv'
  BY <1>4, CurateDoes, DeskRests DEF Typed, Keeps
<1>5. CASE LearnerCalls /\ UNCHANGED desks
  BY <1>5, LearnerLogsNothing, DeskRests
<1>6. CASE SyncStep /\ UNCHANGED desks
  BY <1>6, SyncLogsNothing, DeskRests
<1>7. CASE HandlerSteps
  BY <1>7, HandlersKeep
<1> QED BY <1>1, <1>2, <1>3, <1>4, <1>5, <1>6, <1>7, StepKinds

LEMMA DeskInvInit ==
  ASSUME Init
  PROVE  DeskInv
<1> DEFINE first == [kind |-> "check", course |-> 1, at |-> 1, total |-> 1]
           told == [course |-> 1, total |-> 1, delta |-> <<>>, overlapped |-> FALSE]
<1>1. pg.events = <<first>> /\ checks = <<told>> /\ clock = 2
  BY UsedHas, Zenon DEF Init
<1>2. first.kind = "check" /\ first.course = 1 /\ first.at = 1 /\ first.total = 1
      /\ told.course = 1 /\ told.total = 1 /\ told.overlapped = FALSE
  OBVIOUS
<1> HIDE DEF first, told
<1>3. /\ IsLog(pg.events) /\ DOMAIN pg.events = {1} /\ pg.events[1] = first
      /\ IsLog(checks) /\ DOMAIN checks = {1} /\ checks[1] = told
  <2>1. ASSUME NEW x PROVE IsLog(<<x>>) /\ DOMAIN <<x>> = {1} /\ <<x>>[1] = x
    <3>1. <<x>> \in Seq({x})
      OBVIOUS
    <3>2. IsLog(<<x>>)
      BY <3>1, Zenon DEF IsLog
    <3>3. DOMAIN <<x>> = {1} /\ <<x>>[1] = x
      OBVIOUS
    <3> QED BY <3>2, <3>3
  <2> QED BY <1>1, <2>1
<1>4. ASSUME NEW h \in Handlers
      PROVE  /\ DOMAIN desk[h] = DOMAIN NoCall /\ desk[h].at \in Nat /\ desk[h].at <= 2
             /\ (desk[h].kind = "none" \/ (desk[h].kind = "states" /\ desk[h].at = 2))
  <2>1. PICK weights : desk[h] \in {NoCall, [NoCall EXCEPT !.kind = "states", !.course = 1, !.at = 2, !.concepts = weights]}
    BY Zenon DEF Init
  <2> DEFINE open == [NoCall EXCEPT !.kind = "states", !.course = 1, !.at = 2, !.concepts = weights]
  <2>2. DOMAIN NoCall = DOMAIN NoCall /\ NoCall.at = 0 /\ NoCall.kind = "none"
    BY DEF NoCall, Null
  <2>3. DOMAIN open = DOMAIN NoCall /\ open.at = 2 /\ open.kind = "states"
    BY DEF NoCall
  <2> HIDE DEF open
  <2>4. desk[h] = NoCall \/ desk[h] = open
    BY <2>1 DEF open
  <2> QED BY <2>2, <2>3, <2>4
<1>5. DOMAIN desk = Handlers
  BY DEF Init
<1>6. DeskTyped
  BY <1>1, <1>2, <1>3, <1>4, <1>5 DEF DeskTyped
<1>7. \A h \in Handlers : Undisturbed(desk[h], pg.events)
  <2> SUFFICES ASSUME NEW h \in Handlers PROVE Undisturbed(desk[h], pg.events)
    OBVIOUS
  <2>1. \A n \in CheckRows(pg.events, desk[h].course) : pg.events[n].at = 1
    BY <1>2, <1>3 DEF CheckRows
  <2> QED BY <1>4, <2>1 DEF Undisturbed, Checking
<1>8. Anchored
  <2> DEFINE none == <<>>
  <2>1. <<first>> = Append(none, first) /\ IsLog(none) /\ CheckRows(none, 1) = {} /\ DOMAIN none = {}
    <3>1. <<>> \in Seq({})
      OBVIOUS
    <3> QED BY <3>1 DEF IsLog, CheckRows
  <2> HIDE DEF none
  <2>2. LastOf(Append(none, first), first.course) = <<first>>
    <3>1. /\ first.kind = "check" /\ first.at \in Nat
          /\ \A n \in DOMAIN none : none[n].at \in Nat
          /\ \A n \in CheckRows(none, first.course) : none[n].at <= first.at
      BY <1>2, <2>1
    <3> QED BY <2>1, <3>1, NewCheck
  <2>3. LastOf(pg.events, 1) = <<first>>
    BY <1>1, <1>2, <2>1, <2>2 DEF none
  <2>4. <<first>> # <<>> /\ <<first>>[1] = first
    OBVIOUS
  <2> QED BY <1>2, <1>3, <2>3, <2>4 DEF Anchored
<1>9. AddUp
  BY <1>3 DEF AddUp
<1> QED BY <1>6, <1>7, <1>8, <1>9 DEF DeskInv

---------------------------------------------------------------------------
\* The two families side by side

\* Two tables have the same rows under some keys.
SameOn(s, t, keys) ==
  DOMAIN s \cap keys = DOMAIN t \cap keys /\ \A k \in DOMAIN s \cap keys : s[k] = t[k]

\* All that the families hold alike about the concepts no foreign key has touched.
Steadily ==
  /\ SameOn(pg.concept, ref.concept, Steady) /\ SameOn(pg.vector, ref.vector, Steady)
  /\ SameOn(pg.edge, ref.edge, Links)
  /\ SameOn(pg.question, ref.question, Steady) /\ SameOn(pg.state, ref.state, Steady)
  /\ SameOn(pg.reviews, ref.reviews, Steady)
  /\ pg.events = ref.events /\ pg.note = ref.note /\ pg.profile = ref.profile

TablesTyped(db) ==
  /\ DOMAIN db.concept \subseteq Concepts
  /\ DOMAIN db.vector \subseteq Concepts /\ \A c \in DOMAIN db.vector : db.vector[c] \in Docs
  /\ DOMAIN db.question \subseteq Concepts
  /\ \A q \in DOMAIN db.question : "concept" \in DOMAIN db.question[q] /\ db.question[q].concept = q
  /\ DOMAIN db.state \subseteq Concepts /\ \A c \in DOMAIN db.state : db.state[c].due \in Nat
  /\ \A n \in DOMAIN db.note : db.note[n].due \in Nat

AgreeInv ==
  /\ Steadily /\ TablesTyped(pg) /\ TablesTyped(ref)
  /\ DOMAIN pg.vector \subseteq DOMAIN pg.concept
  /\ sync.phase = "embed" => sync.body \in Docs

LEMMA SameOnFewer ==
  ASSUME NEW s, NEW t, NEW K, NEW L, L \subseteq K, SameOn(s, t, K)
  PROVE  SameOn(s, t, L)
BY DEF SameOn

\* A row that one of them may refuse, but not under a key that counts.
LEMMA SameOnPut ==
  ASSUME NEW s, NEW t, NEW K, NEW L, L \subseteq K, SameOn(s, t, K), NEW k, NEW r, NEW q, NEW known \in BOOLEAN,
         k \in L => known /\ r = q
  PROVE  SameOn(IF known THEN Put(s, k, r) ELSE s, Put(t, k, q), L)
<1>1. CASE known
  BY <1>1 DEF SameOn, Put
<1>2. CASE ~known
  BY <1>2 DEF SameOn, Put
<1> QED BY <1>1, <1>2

LEMMA SteadyShrinks ==
  ASSUME strayed \subseteq strayed'
  PROVE  Steady' \subseteq Steady /\ Links' \subseteq Links
BY DEF Steady, Links

\* Tables that no call has changed still agree.
LEMMA RestAgrees ==
  ASSUME AgreeInv, strayed \subseteq strayed'
  PROVE  /\ SameOn(pg.concept, ref.concept, Steady') /\ SameOn(pg.vector, ref.vector, Steady')
         /\ SameOn(pg.edge, ref.edge, Links')
         /\ SameOn(pg.question, ref.question, Steady') /\ SameOn(pg.state, ref.state, Steady')
         /\ SameOn(pg.reviews, ref.reviews, Steady')
<1>1. Steady' \subseteq Steady /\ Links' \subseteq Links
  BY SteadyShrinks
<1>2. Steadily
  BY DEF AgreeInv
<1> DEFINE less == Steady'
           fewer == Links'
           all == Steady
           links == Links
<1> HIDE DEF less, fewer, all, links
<1>3. less \subseteq all /\ fewer \subseteq links
  BY <1>1 DEF less, fewer, all, links
<1>4. /\ SameOn(pg.concept, ref.concept, all) /\ SameOn(pg.vector, ref.vector, all)
      /\ SameOn(pg.edge, ref.edge, links)
      /\ SameOn(pg.question, ref.question, all) /\ SameOn(pg.state, ref.state, all)
      /\ SameOn(pg.reviews, ref.reviews, all)
  BY <1>2 DEF Steadily, all, links
<1>5. /\ SameOn(pg.concept, ref.concept, less) /\ SameOn(pg.vector, ref.vector, less)
      /\ SameOn(pg.edge, ref.edge, fewer)
      /\ SameOn(pg.question, ref.question, less) /\ SameOn(pg.state, ref.state, less)
      /\ SameOn(pg.reviews, ref.reviews, less)
  BY <1>3, <1>4, SameOnFewer
<1> QED BY <1>5 DEF less, fewer

\* The part of AgreeInv that is about reconcile() and no table.
BodyRead == sync'.phase = "embed" => sync'.body \in Docs

LEMMA PutConceptAgrees ==
  ASSUME AgreeInv, StoresTyped, NEW c \in Concepts, NEW row, PutConcept(c, row), BodyRead
  PROVE  AgreeInv'
<1>1. /\ Keeps(pg, pg', {"concept"}) /\ Keeps(ref, ref', {"concept"}) /\ strayed' = strayed
      /\ pg'.concept = Put(pg.concept, c, row) /\ ref'.concept = Put(ref.concept, c, row)
  BY PutConceptDoes DEF StoresTyped
<1>2. SameOn(Put(pg.concept, c, row), Put(ref.concept, c, row), Steady')
  BY <1>1, RestAgrees DEF SameOn, Put
<1>3. Steadily'
  BY <1>1, <1>2, RestAgrees DEF Steadily, AgreeInv, Keeps
<1>4. TablesTyped(pg') /\ TablesTyped(ref') /\ DOMAIN pg'.vector \subseteq DOMAIN pg'.concept
  BY <1>1 DEF AgreeInv, TablesTyped, Keeps, Put
<1> QED BY <1>3, <1>4 DEF AgreeInv, BodyRead

LEMMA DropConceptAgrees ==
  ASSUME AgreeInv, StoresTyped, NEW c, DropConcept(c), BodyRead
  PROVE  AgreeInv'
<1>1. /\ Keeps(pg, pg', {"concept", "vector", "edge", "question", "state", "reviews"})
      /\ Keeps(ref, ref', {"concept", "vector"}) /\ strayed' = strayed \cup {c}
      /\ pg'.concept = Without(pg.concept, {c}) /\ ref'.concept = Without(ref.concept, {c})
      /\ pg'.vector = Without(pg.vector, {c}) /\ ref'.vector = Without(ref.vector, {c})
      /\ pg'.edge = Without(pg.edge, {k \in DOMAIN pg.edge : c \in {k[1], k[3]}})
      /\ pg'.question = Without(pg.question, {q \in DOMAIN pg.question : pg.question[q].concept = c})
      /\ pg'.state = Without(pg.state, {c}) /\ pg'.reviews = Without(pg.reviews, {c})
  BY DropConceptDoes DEF StoresTyped
<1>2. c \notin Steady' /\ \A k \in Links' : c \notin {k[1], k[3]}
  BY <1>1 DEF Steady, Links
<1>3. \A q \in DOMAIN pg.question : pg.question[q].concept = q
  BY DEF AgreeInv, TablesTyped
<1> DEFINE less == Steady'
           fewer == Links'
<1> HIDE DEF less, fewer
<1>4. /\ SameOn(pg.concept, ref.concept, less) /\ SameOn(pg.vector, ref.vector, less)
      /\ SameOn(pg.edge, ref.edge, fewer)
      /\ SameOn(pg.question, ref.question, less) /\ SameOn(pg.state, ref.state, less)
      /\ SameOn(pg.reviews, ref.reviews, less)
  BY <1>1, RestAgrees DEF less, fewer
<1>5. c \notin less /\ \A k \in fewer : c \notin {k[1], k[3]}
  BY <1>2 DEF less, fewer
<1>6. SameOn(pg'.concept, ref'.concept, less) /\ SameOn(pg'.vector, ref'.vector, less)
  BY <1>1, <1>4, <1>5 DEF SameOn, Without
<1>7. SameOn(pg'.edge, ref'.edge, fewer)
  BY <1>1, <1>4, <1>5 DEF SameOn, Without, Keeps
<1>8. SameOn(pg'.question, ref'.question, less)
  BY <1>1, <1>3, <1>4, <1>5 DEF SameOn, Without, Keeps
<1>9. SameOn(pg'.state, ref'.state, less) /\ SameOn(pg'.reviews, ref'.reviews, less)
  BY <1>1, <1>4, <1>5 DEF SameOn, Without, Keeps
<1>10. Steadily'
  BY <1>1, <1>6, <1>7, <1>8, <1>9 DEF Steadily, AgreeInv, Keeps, less, fewer
<1>11. TablesTyped(pg') /\ TablesTyped(ref') /\ DOMAIN pg'.vector \subseteq DOMAIN pg'.concept
  BY <1>1 DEF AgreeInv, TablesTyped, Keeps, Without
<1> QED BY <1>10, <1>11 DEF AgreeInv, BodyRead

LEMMA PutVectorAgrees ==
  ASSUME AgreeInv, StoresTyped, NEW c \in Concepts, NEW v \in Docs, PutVector(c, v), BodyRead
  PROVE  AgreeInv'
<1> DEFINE known == c \in DOMAIN pg.concept
<1>1. /\ Keeps(pg, pg', {"vector"}) /\ Keeps(ref, ref', {"vector"}) /\ strayed' = strayed \cup ({c} \ DOMAIN pg.concept)
      /\ pg'.vector = (IF known THEN Put(pg.vector, c, v) ELSE pg.vector)
      /\ ref'.vector = Put(ref.vector, c, v)
  BY PutVectorDoes DEF StoresTyped
<1>2. known \in BOOLEAN /\ (c \in Steady' => known)
  BY <1>1 DEF Steady
<1>3. TablesTyped(pg') /\ TablesTyped(ref') /\ DOMAIN pg'.vector \subseteq DOMAIN pg'.concept
  BY <1>1 DEF AgreeInv, TablesTyped, Keeps, Put
<1> DEFINE less == Steady'
<1> HIDE DEF known, less
<1>4. SameOn(pg.vector, ref.vector, less)
  BY <1>1, RestAgrees DEF less
<1>5. SameOn(pg'.vector, ref'.vector, less)
  BY <1>1, <1>2, <1>4, SameOnPut DEF less
<1>6. Steadily'
  BY <1>1, <1>5, RestAgrees DEF Steadily, AgreeInv, Keeps, less
<1> QED BY <1>3, <1>6 DEF AgreeInv, BodyRead

LEMMA EdgeAgrees ==
  ASSUME AgreeInv, NEW key, NEW r, NEW q, key \in Links => r = q,
         Keeps(pg, pg', {"edge"}), Keeps(ref, ref', {"edge"}),
         strayed' = strayed \cup ({key[1], key[3]} \ DOMAIN pg.concept),
         pg'.edge = (IF {key[1], key[3]} \subseteq DOMAIN pg.concept THEN Put(pg.edge, key, r) ELSE pg.edge),
         ref'.edge = Put(ref.edge, key, q), BodyRead
  PROVE  AgreeInv'
<1> DEFINE known == {key[1], key[3]} \subseteq DOMAIN pg.concept
           fewer == Links'
<1>1. known \in BOOLEAN /\ (key \in fewer => known /\ key \in Links)
  BY DEF Steady, Links
<1>2. TablesTyped(pg') /\ TablesTyped(ref') /\ DOMAIN pg'.vector \subseteq DOMAIN pg'.concept
  BY DEF AgreeInv, TablesTyped, Keeps
<1>3. pg'.edge = (IF known THEN Put(pg.edge, key, r) ELSE pg.edge)
  OBVIOUS
<1>4. SameOn(pg.edge, ref.edge, fewer)
  BY RestAgrees
<1> HIDE DEF known, fewer
<1>5. SameOn(pg'.edge, ref'.edge, fewer)
  BY <1>1, <1>3, <1>4, SameOnPut
<1>6. Steadily'
  BY <1>5, RestAgrees DEF Steadily, AgreeInv, Keeps, fewer
<1> QED BY <1>2, <1>6 DEF AgreeInv, BodyRead

LEMMA PutEdgeAgrees ==
  ASSUME AgreeInv, StoresTyped, NEW key, NEW row, PutEdge(key, row), BodyRead
  PROVE  AgreeInv'
BY PutEdgeDoes, EdgeAgrees DEF StoresTyped

LEMMA ExposeAgrees ==
  ASSUME AgreeInv, StoresTyped, NEW key, NEW skipped \in BOOLEAN, NEW at, at # Null, Expose(key, skipped, at), BodyRead
  PROVE  AgreeInv'
<1> DEFINE r == Exposed(pg.edge, key, skipped, at)
           q == Exposed(ref.edge, key, skipped, at)
<1>1. key \in Links => r = q
  <2>1. key \in Links => GetOr(pg.edge, key, Edge) = GetOr(ref.edge, key, Edge)
    BY DEF AgreeInv, Steadily, SameOn, GetOr
  <2> QED BY <2>1, Zenon DEF Exposed
<1>2. /\ Keeps(pg, pg', {"edge"}) /\ Keeps(ref, ref', {"edge"})
      /\ strayed' = strayed \cup ({key[1], key[3]} \ DOMAIN pg.concept)
      /\ pg'.edge = (IF {key[1], key[3]} \subseteq DOMAIN pg.concept THEN Put(pg.edge, key, r) ELSE pg.edge)
      /\ ref'.edge = Put(ref.edge, key, q)
  BY ExposeDoes DEF StoresTyped
<1> HIDE DEF r, q
<1> QED BY <1>1, <1>2, EdgeAgrees

LEMMA PutQuestionAgrees ==
  ASSUME AgreeInv, StoresTyped, NEW c \in Concepts, NEW row, row.concept = c, "concept" \in DOMAIN row,
         PutQuestion(c, row), BodyRead
  PROVE  AgreeInv'
<1> DEFINE known == {c} \subseteq DOMAIN pg.concept
           less == Steady'
<1>1. /\ Keeps(pg, pg', {"question"}) /\ Keeps(ref, ref', {"question"})
      /\ strayed' = strayed \cup ({c} \ DOMAIN pg.concept)
      /\ pg'.question = (IF known THEN Put(pg.question, c, row) ELSE pg.question)
      /\ ref'.question = Put(ref.question, c, row)
  BY PutQuestionDoes DEF StoresTyped
<1>2. known \in BOOLEAN /\ (c \in less => known)
  BY <1>1 DEF Steady
<1>3. TablesTyped(pg') /\ TablesTyped(ref') /\ DOMAIN pg'.vector \subseteq DOMAIN pg'.concept
  BY <1>1 DEF AgreeInv, TablesTyped, Keeps, Put
<1>4. SameOn(pg.question, ref.question, less)
  BY <1>1, RestAgrees
<1> HIDE DEF known, less
<1>5. SameOn(pg'.question, ref'.question, less)
  BY <1>1, <1>2, <1>4, SameOnPut
<1>6. Steadily'
  BY <1>1, <1>5, RestAgrees DEF Steadily, AgreeInv, Keeps, less
<1> QED BY <1>3, <1>6 DEF AgreeInv, BodyRead

LEMMA RetireQuestionAgrees ==
  ASSUME AgreeInv, StoresTyped, NEW q, RetireQuestion(q), BodyRead
  PROVE  AgreeInv'
<1> DEFINE off(row) == [row EXCEPT !.status = "retired"]
<1>1. /\ Keeps(pg, pg', {"question"}) /\ Keeps(ref, ref', {"question"}) /\ strayed' = strayed
      /\ pg'.question = Retired(pg.question, q)
      /\ ref'.question = (IF q \in DOMAIN ref.question THEN Put(ref.question, q, off(ref.question[q])) ELSE ref.question)
  BY RetireQuestionDoes DEF StoresTyped
<1>2. /\ DOMAIN pg'.question = DOMAIN pg.question /\ DOMAIN ref'.question = DOMAIN ref.question
      /\ \A r \in DOMAIN pg.question : pg'.question[r] = IF r = q THEN off(pg.question[r]) ELSE pg.question[r]
      /\ \A r \in DOMAIN ref.question : ref'.question[r] = IF r = q THEN off(ref.question[r]) ELSE ref.question[r]
  BY <1>1 DEF Retired, Put
<1>3. ASSUME NEW row, "concept" \in DOMAIN row PROVE "concept" \in DOMAIN off(row) /\ off(row).concept = row.concept
  BY <1>3
<1> HIDE DEF off
<1>4. SameOn(pg'.question, ref'.question, Steady')
  BY <1>1, <1>2, RestAgrees DEF SameOn
<1>5. Steadily'
  BY <1>1, <1>4, RestAgrees DEF Steadily, AgreeInv, Keeps
<1>6. TablesTyped(pg') /\ TablesTyped(ref') /\ DOMAIN pg'.vector \subseteq DOMAIN pg'.concept
  BY <1>1, <1>2, <1>3 DEF AgreeInv, TablesTyped, Keeps
<1> QED BY <1>5, <1>6 DEF AgreeInv, BodyRead

LEMMA PutStateAgrees ==
  ASSUME AgreeInv, StoresTyped, NEW c \in Concepts, NEW row, row.due \in Nat, PutState(c, row), BodyRead
  PROVE  AgreeInv'
<1> DEFINE known == {c} \subseteq DOMAIN pg.concept
           less == Steady'
<1>1. /\ Keeps(pg, pg', {"state"}) /\ Keeps(ref, ref', {"state"}) /\ strayed' = strayed \cup ({c} \ DOMAIN pg.concept)
      /\ pg'.state = (IF known THEN Put(pg.state, c, row) ELSE pg.state)
      /\ ref'.state = Put(ref.state, c, row)
  BY PutStateDoes DEF StoresTyped
<1>2. known \in BOOLEAN /\ (c \in less => known)
  BY <1>1 DEF Steady
<1>3. TablesTyped(pg') /\ TablesTyped(ref') /\ DOMAIN pg'.vector \subseteq DOMAIN pg'.concept
  BY <1>1 DEF AgreeInv, TablesTyped, Keeps, Put
<1>4. SameOn(pg.state, ref.state, less)
  BY <1>1, RestAgrees
<1> HIDE DEF known, less
<1>5. SameOn(pg'.state, ref'.state, less)
  BY <1>1, <1>2, <1>4, SameOnPut
<1>6. Steadily'
  BY <1>1, <1>5, RestAgrees DEF Steadily, AgreeInv, Keeps, less
<1> QED BY <1>3, <1>6 DEF AgreeInv, BodyRead

LEMMA LogReviewAgrees ==
  ASSUME AgreeInv, StoresTyped, NEW e, e.concept \in Concepts, LogReview(e), BodyRead
  PROVE  AgreeInv'
<1> DEFINE c == e.concept
           known == {c} \subseteq DOMAIN pg.concept
           less == Steady'
           r == Append(GetOr(pg.reviews, c, <<>>), e)
           q == Append(GetOr(ref.reviews, c, <<>>), e)
<1>1. /\ Keeps(pg, pg', {"reviews"}) /\ Keeps(ref, ref', {"reviews"})
      /\ strayed' = strayed \cup ({c} \ DOMAIN pg.concept)
      /\ pg'.reviews = (IF known THEN Put(pg.reviews, c, r) ELSE pg.reviews)
      /\ ref'.reviews = Put(ref.reviews, c, q)
  BY LogReviewDoes DEF StoresTyped
<1>2. known \in BOOLEAN /\ (c \in less => known)
  BY <1>1 DEF Steady
<1>3. TablesTyped(pg') /\ TablesTyped(ref') /\ DOMAIN pg'.vector \subseteq DOMAIN pg'.concept
  BY <1>1 DEF AgreeInv, TablesTyped, Keeps
<1>4. SameOn(pg.reviews, ref.reviews, less)
  BY <1>1, RestAgrees
<1>5. c \in less => r = q
  <2>1. c \in less => GetOr(pg.reviews, c, <<>>) = GetOr(ref.reviews, c, <<>>)
    BY <1>4 DEF SameOn, GetOr
  <2> QED BY <2>1
<1> HIDE DEF known, less, r, q
<1>6. SameOn(pg'.reviews, ref'.reviews, less)
  BY <1>1, <1>2, <1>4, <1>5, SameOnPut
<1>7. Steadily'
  BY <1>1, <1>6, RestAgrees DEF Steadily, AgreeInv, Keeps, less
<1> QED BY <1>3, <1>7 DEF AgreeInv, BodyRead

LEMMA LogEventAgrees ==
  ASSUME AgreeInv, StoresTyped, NEW e, LogEvent(e), BodyRead
  PROVE  AgreeInv'
<1>1. /\ Keeps(pg, pg', {"events"}) /\ Keeps(ref, ref', {"events"}) /\ strayed' = strayed
      /\ pg'.events = Append(pg.events, e) /\ ref'.events = Append(ref.events, e)
  BY LogEventDoes DEF StoresTyped
<1>2. Steadily'
  BY <1>1, RestAgrees DEF Steadily, AgreeInv, Keeps
<1>3. TablesTyped(pg') /\ TablesTyped(ref') /\ DOMAIN pg'.vector \subseteq DOMAIN pg'.concept
  BY <1>1 DEF AgreeInv, TablesTyped, Keeps
<1> QED BY <1>2, <1>3 DEF AgreeInv, BodyRead

LEMMA PutNoteAgrees ==
  ASSUME AgreeInv, StoresTyped, NEW n, NEW row, row.due \in Nat, PutNote(n, row), BodyRead
  PROVE  AgreeInv'
<1>1. /\ Keeps(pg, pg', {"note"}) /\ Keeps(ref, ref', {"note"}) /\ strayed' = strayed
      /\ pg'.note = Put(pg.note, n, row) /\ ref'.note = Put(ref.note, n, row)
  BY PutNoteDoes DEF StoresTyped
<1>2. Steadily'
  BY <1>1, RestAgrees DEF Steadily, AgreeInv, Keeps
<1>3. TablesTyped(pg') /\ TablesTyped(ref') /\ DOMAIN pg'.vector \subseteq DOMAIN pg'.concept
  BY <1>1 DEF AgreeInv, TablesTyped, Keeps, Put
<1> QED BY <1>2, <1>3 DEF AgreeInv, BodyRead

LEMMA PutProfileAgrees ==
  ASSUME AgreeInv, StoresTyped, NEW o, NEW row, PutProfile(o, row), BodyRead
  PROVE  AgreeInv'
<1>1. /\ Keeps(pg, pg', {"profile"}) /\ Keeps(ref, ref', {"profile"}) /\ strayed' = strayed
      /\ pg'.profile = Put(pg.profile, o, row) /\ ref'.profile = Put(ref.profile, o, row)
  BY PutProfileDoes DEF StoresTyped
<1>2. Steadily'
  BY <1>1, RestAgrees DEF Steadily, AgreeInv, Keeps
<1>3. TablesTyped(pg') /\ TablesTyped(ref') /\ DOMAIN pg'.vector \subseteq DOMAIN pg'.concept
  BY <1>1 DEF AgreeInv, TablesTyped, Keeps
<1> QED BY <1>2, <1>3 DEF AgreeInv, BodyRead

LEMMA StoresRestAgrees ==
  ASSUME AgreeInv, UNCHANGED stores, BodyRead
  PROVE  AgreeInv'
<1>1. pg' = pg /\ ref' = ref /\ strayed' = strayed
  BY DEF stores
<1>2. Steadily'
  BY <1>1, RestAgrees DEF Steadily, AgreeInv
<1>3. TablesTyped(pg') /\ TablesTyped(ref') /\ DOMAIN pg'.vector \subseteq DOMAIN pg'.concept
  BY <1>1 DEF AgreeInv, TablesTyped
<1> QED BY <1>2, <1>3 DEF AgreeInv, BodyRead

\* The body of any document that is read has a vector.
LEMMA BodyOfFile ==
  ASSUME FilesTyped, NEW c \in DOMAIN bundle
  PROVE  SplitConcept(bundle[c]).body \in Docs
<1>1. CASE bundle[c] = Torn
  <2>1. Fences(Torn) = {}
    <3>1. Len(Torn) = 1
      BY DEF Torn
    <3> QED BY <3>1 DEF Fences
  <2>2. SplitConcept(Torn) = [body |-> Torn, refs |-> <<>>]
    <3>1. Lf(Text("---")) = Text("---")
      BY LfOfOurs, Zenon DEF Text
    <3>2. ReadText(Torn) = Torn
      BY <3>1, ReadTextOfOne DEF Torn
    <3> QED BY <2>1, <3>2 DEF SplitConcept, SplitCitations
  <2>3. Torn \in Docs
    BY BodiesAreDocs
  <2> QED BY <1>1, <2>2, <2>3
<1>2. CASE bundle[c] # Torn
  <2>1. kept[c] \in Written /\ bundle[c] = ComposeConcept(kept[c])
    BY <1>2 DEF FilesTyped
  <2>2. \A n \in DOMAIN Contents : SplitConcept(ComposeConcept(Contents[n])).body \in Docs
    BY BodiesAreDocs
  <2> QED BY <2>1, <2>2 DEF Written
<1> QED BY <1>1, <1>2

LEMMA BodyReads ==
  ASSUME Typed, AgreeInv, [Next]_vars
  PROVE  BodyRead
<1>1. SyncKinds /\ SyncTyped /\ StoresTyped /\ FilesTyped
  BY TypedStays DEF Typed
<1>2. CASE UNCHANGED sync
  BY <1>2 DEF AgreeInv, BodyRead
<1>3. ASSUME sync'.phase # "embed" PROVE BodyRead
  BY <1>3 DEF BodyRead
<1>4. ASSUME NEW b \in Buckets, sync' = Reported(b) PROVE BodyRead
  BY <1>1, <1>3, <1>4, ReportedHas
<1>5. ASSUME NEW o, NEW d, StartSync(o, d) PROVE BodyRead
  BY <1>3, <1>5, StartDoes
<1>6. CASE Compare
  BY <1>1, <1>3, <1>4, <1>6, CompareDoes DEF SyncKeepsRest, Buckets
<1>7. CASE ProjectConcept
  <2>1. Readable(Current) /\ sync'.body = SplitConcept(bundle[Current]).body
    BY <1>1, <1>7, ProjectDoes
  <2> QED BY <1>1, <2>1, BodyOfFile DEF Readable, BodyRead
<1>8. CASE EmbedConcept
  BY <1>1, <1>4, <1>8, EmbedDoes DEF Buckets
<1>9. CASE ContentMissing \/ SyncFails
  <2>1. sync' = NoSync
    BY <1>9, GiveUpDoes
  <2> QED BY <1>3, <2>1 DEF NoSync
<1>10. CASE CollectOrphans
  BY <1>1, <1>3, <1>10, CollectDoes DEF SyncKeepsRest
<1>11. CASE DeleteOrphan
  BY <1>1, <1>3, <1>11, DeleteDoes DEF SyncKeepsRest
<1>12. ASSUME NEW c, NEW w, Curate(c, w) PROVE UNCHANGED sync
  BY <1>1, <1>12, CurateDoes
<1>13. CASE Quiet \/ Rewrites
  BY <1>2, <1>13 DEF Quiet, syncing, Rewrites
<1> QED BY <1>1, <1>2, <1>5, <1>6, <1>7, <1>8, <1>9, <1>10, <1>11, <1>12, <1>13 DEF SyncKinds, SyncStep

\* What the learner and the author put in has the fields that the readings ask for.
LEMMA LearnerAgrees ==
  ASSUME Typed, AgreeInv, LearnerCalls, BodyRead
  PROVE  AgreeInv'
<1> USE DEF Typed
<1>1. clock \in Nat /\ clock # Null /\ Null \in Nat
  BY DEF Counted, Null
<1>2. ASSUME NEW c \in Concepts, NEW n \in Intervals \cup {Null},
             PutState(c, [stability |-> n, due |-> IF n = Null THEN Null ELSE clock + n])
      PROVE  AgreeInv'
  <2> DEFINE due == IF n = Null THEN Null ELSE clock + n
             row == [stability |-> n, due |-> due]
  <2>1. due \in Nat
    BY <1>1, CallsType
  <2>2. row.due \in Nat
    BY <2>1
  <2> HIDE DEF row
  <2> QED BY <1>2, <2>2, PutStateAgrees DEF row
<1>3. ASSUME NEW c \in Concepts, LogReview([concept |-> c, at |-> clock]) PROVE AgreeInv'
  BY <1>3, LogReviewAgrees
<1>4. ASSUME NEW k, NEW skipped \in BOOLEAN, Expose(k, skipped, clock) PROVE AgreeInv'
  BY <1>1, <1>4, ExposeAgrees
<1>5. ASSUME NEW k, NEW row, PutEdge(k, row) PROVE AgreeInv'
  BY <1>5, PutEdgeAgrees
<1>6. ASSUME NEW c \in Concepts, NEW k,
             PutQuestion(c, [concept |-> c, edge |-> k, difficulty |-> c, hops |-> 1, status |-> "active"])
      PROVE  AgreeInv'
  <2> DEFINE row == [concept |-> c, edge |-> k, difficulty |-> c, hops |-> 1, status |-> "active"]
  <2>1. row.concept = c /\ "concept" \in DOMAIN row
    OBVIOUS
  <2> HIDE DEF row
  <2> QED BY <1>6, <2>1, PutQuestionAgrees DEF row
<1>7. ASSUME NEW s,
             PutNote(1, [course |-> 1, kind |-> "insight", status |-> s, created |-> clock, due |-> clock + 1])
      PROVE  AgreeInv'
  BY <1>1, <1>7, PutNoteAgrees
<1>8. CASE PutNote(2, [course |-> 2, kind |-> "goal", status |-> "active", created |-> clock, due |-> Null])
  BY <1>1, <1>8, PutNoteAgrees
<1>9. ASSUME NEW row, PutProfile(1, row) PROVE AgreeInv'
  BY <1>9, PutProfileAgrees
<1> HIDE DEF Typed
<1> QED BY <1>2, <1>3, <1>4, <1>5, <1>6, <1>7, <1>8, <1>9, Zenon DEF LearnerCalls

LEMMA SyncStepAgrees ==
  ASSUME Typed, AgreeInv, SyncStep, BodyRead
  PROVE  AgreeInv'
<1>1. StoresTyped /\ SyncTyped /\ FilesTyped
  BY DEF Typed
<1>2. CASE Compare \/ ContentMissing \/ SyncFails \/ CollectOrphans
  <2>1. UNCHANGED stores
    BY <1>1, <1>2, CompareDoes, GiveUpDoes, CollectDoes
  <2> QED BY <2>1, StoresRestAgrees
<1>3. CASE ProjectConcept
  <2>1. sync.phase = "project" /\ \E row : PutConcept(Current, row)
    BY <1>1, <1>3, ProjectDoes
  <2>2. Current \in Concepts
    BY <1>1, <2>1, CurrentIn DEF SyncTyped
  <2> QED BY <1>1, <2>1, <2>2, PutConceptAgrees
<1>4. CASE EmbedConcept
  <2>1. sync.phase = "embed" /\ PutVector(Current, sync.body)
    BY <1>1, <1>4, EmbedDoes
  <2>2. Current \in Concepts /\ sync.body \in Docs
    BY <1>1, <2>1, CurrentIn DEF SyncTyped, AgreeInv
  <2> QED BY <1>1, <2>1, <2>2, PutVectorAgrees
<1>5. CASE DeleteOrphan
  <2>1. PICK c : DropConcept(c)
    BY <1>1, <1>5, DeleteDoes
  <2> QED BY <1>1, <2>1, DropConceptAgrees
<1> QED BY <1>2, <1>3, <1>4, <1>5 DEF SyncStep

LEMMA AgreeInvStays ==
  ASSUME Typed, AgreeInv, [Next]_vars
  PROVE  AgreeInv'
<1>1. BodyRead /\ StoresTyped
  BY BodyReads DEF Typed
<1>2. CASE UNCHANGED stores
  BY <1>1, <1>2, StoresRestAgrees
<1>3. CASE Writes /\ UNCHANGED desks
  BY <1>2, <1>3, WritesRewrite DEF Rewrites
<1>4. ASSUME NEW o, NEW d, StartSync(o, d) PROVE AgreeInv'
  BY <1>2, <1>4, StartDoes
<1>5. ASSUME NEW c \in Concepts, NEW w, Curate(c, w) PROVE AgreeInv'
  <2>1. \E row : PutConcept(c, row)
    BY <1>1, <1>5, CurateDoes
  <2> QED BY <1>1, <2>1, PutConceptAgrees
<1>6. CASE HandlerSteps
  BY <1>1, <1>2, <1>6, HandlersCall, LogEventAgrees, RetireQuestionAgrees
<1>7. CASE LearnerCalls
  BY <1>1, <1>7, LearnerAgrees
<1>8. CASE SyncStep
  BY <1>1, <1>8, SyncStepAgrees
<1>9. CASE UNCHANGED vars
  BY <1>2, <1>9 DEF vars
<1> QED BY <1>3, <1>4, <1>5, <1>6, <1>7, <1>8, <1>9, StepKinds

LEMMA AgreeInvInit ==
  ASSUME Init
  PROVE  AgreeInv
<1>1. pg = Used /\ ref = Used /\ sync.phase = "idle"
  <2>1. pg = Used /\ ref = Used /\ sync = NoSync
    BY DEF Init
  <2> QED BY <2>1 DEF NoSync
<1>2. Steadily
  BY <1>1 DEF Steadily, SameOn
<1> DEFINE first == Contents[1]
           asked == [concept |-> 1, edge |-> <<1, "related", 2>>, difficulty |-> 1, hops |-> 1, status |-> "active"]
           learnt == [stability |-> 4, due |-> 6]
<1>3. first.body \in Docs
  <2> DEFINE S == [body : Docs, refs : Seq(Ref)]
  <2>1. Contents \in Seq(S) /\ Len(Contents) >= 2
    BY BodiesAreDocs
  <2> HIDE DEF S
  <2>2. first \in S
    BY <2>1
  <2> QED BY <2>2 DEF S
<1>4. asked.concept = 1 /\ "concept" \in DOMAIN asked /\ learnt.due \in Nat /\ 1 \in Concepts
  BY CallsType
<1> HIDE DEF first, asked, learnt
<1>5. /\ DOMAIN Used.concept = Concepts /\ Used.vector = [c \in Concepts |-> first.body]
      /\ Used.question = [q \in {1} |-> asked] /\ Used.state = [c \in {1} |-> learnt] /\ Used.note = <<>>
  BY UsedHas DEF first, asked, learnt
<1>6. TablesTyped(Used) /\ DOMAIN Used.vector \subseteq DOMAIN Used.concept
  BY <1>3, <1>4, <1>5 DEF TablesTyped
<1> QED BY <1>1, <1>2, <1>6 DEF AgreeInv

\* What the families answer agrees, and the numbers of a check-in add up.
THEOREM DeskInvariant == Spec => [](Typed /\ SyncInv /\ DeskInv /\ AgreeInv)
<1>1. Init => Typed /\ SyncInv /\ DeskInv /\ AgreeInv
  BY TypedInit, SyncInvInit, DeskInvInit, AgreeInvInit
<1>2. Typed /\ SyncInv /\ DeskInv /\ AgreeInv /\ [Next]_vars => (Typed /\ SyncInv /\ DeskInv /\ AgreeInv)'
  BY TypedStays, SyncInvStays, DeskInvStays, AgreeInvStays
<1> QED BY <1>1, <1>2, PTL DEF Spec

LEMMA NotBelow ==
  ASSUME NEW k \in Nat \ {0}, NEW p \in Int, NEW q \in Int, p < q
  PROVE  k * p + k <= k * q
<1>1. PICK d \in Nat : q = p + 1 + d
  <2>1. q - p - 1 \in Nat /\ q = p + 1 + (q - p - 1)
    OBVIOUS
  <2> QED BY <2>1
<1>2. k * q = k * p + k + k * d
  BY <1>1
<1>3. k * d >= 0 /\ k * p \in Int /\ k * d \in Int
  OBVIOUS
<1> QED BY <1>2, <1>3

\* An instant that is not later is not on a later day.
LEMMA DaysInOrder ==
  ASSUME NEW a \in Nat, NEW b \in Nat, a <= b
  PROVE  Day(a) <= Day(b) /\ Day(a) \in Int /\ Day(b) \in Int
<1> DEFINE k == InstantsPerDay
           p == a \div k
           q == b \div k
<1>1. k \in Nat \ {0}
  BY CalendarType
<1>2. p \in Int /\ q \in Int /\ k * p <= a /\ b < k * q + k
  BY <1>1
<1>3. k * p \in Int /\ k * q \in Int
  BY <1>1, <1>2
<1> HIDE DEF k, p, q
<1>4. ~(q < p)
  BY <1>1, <1>2, <1>3, NotBelow
<1> QED BY <1>2, <1>4 DEF Day, k, p, q

\* A finite list of concepts by a key has all of them.
LEMMA ListsAll ==
  ASSUME NEW key, key \in [DOMAIN key -> Int], DOMAIN key \subseteq Concepts
  PROVE  ToSet(ListedBy(key)) = DOMAIN key
<1>1. Concepts \subseteq Nat /\ IsFiniteSet(Concepts)
  BY StoreConstants
<1>2. IsFiniteSet(DOMAIN key)
  BY <1>1, FS_Subset
<1> QED BY <1>1, <1>2, ListedInOrder

\* What the database answers about the learner's states.
LEMMA StatesAre ==
  ASSUME AgreeInv, NEW o, NEW t
  PROVE  LET joined == {c \in DOMAIN pg.state \cap DOMAIN pg.concept : pg.concept[c].course = o}
         IN  /\ Pg!AllStates(pg, o) = ListedBy([c \in joined |-> c])
             /\ Pg!Due(pg, o, t) = ListedBy([c \in {d \in joined : pg.state[d].due \in 1 .. t} |-> pg.state[c].due])
<1> DEFINE joined == {c \in DOMAIN pg.state \cap DOMAIN pg.concept : pg.concept[c].course = o}
           ids == [c \in joined |-> c]
           dues == [c \in {d \in joined : pg.state[d].due \in 1 .. t} |-> pg.state[c].due]
<1>1. Pg!Joined(pg, o) = joined
  BY Zenon DEF Pg!Joined
<1>2. Pg!AllStates(pg, o) = Pg!ListedBy(ids)
  BY <1>1, Zenon DEF Pg!AllStates, Pg!Listed
<1>3. Pg!Due(pg, o, t) = Pg!ListedBy(dues)
  BY <1>1, Zenon DEF Pg!Due
<1> HIDE DEF ids, dues
<1>4. Pg!AllStates(pg, o) = ListedBy(ids) /\ Pg!Due(pg, o, t) = ListedBy(dues)
  BY <1>2, <1>3, SameListing
<1> QED BY <1>4 DEF ids, dues

\* The readings of the schedule of a course agree.
LEMMA SchedulesAgree ==
  ASSUME Counted, AgreeInv, NEW o
  PROVE  LET rows == [c \in ToSet(Pg!AllStates(pg, o)) |-> pg.state[c]]
             due == ToSet(Pg!Due(pg, o, clock))
             ripe == Ripeness(rows, clock)
         IN /\ due \subseteq ripe.ready_now
            /\ ripe.ready_tomorrow \cup ripe.ready_this_week \cup ripe.holding \subseteq Holding(rows, clock)
            /\ due \cup Holding(rows, clock) = UNION {ripe[b] : b \in DOMAIN ripe}
<1> DEFINE joined == {c \in DOMAIN pg.state \cap DOMAIN pg.concept : pg.concept[c].course = o}
           ids == [c \in joined |-> c]
           dues == [c \in {d \in joined : pg.state[d].due \in 1 .. clock} |-> pg.state[c].due]
           rows == [c \in ToSet(Pg!AllStates(pg, o)) |-> pg.state[c]]
           due == ToSet(Pg!Due(pg, o, clock))
           ripe == Ripeness(rows, clock)
           ahead(c) == Day(pg.state[c].due) - Day(clock)
<1>1. joined \subseteq Concepts /\ joined \subseteq Nat /\ \A c \in joined : pg.state[c].due \in Nat
  BY StoreConstants DEF AgreeInv, TablesTyped
<1>2. clock \in Nat
  BY DEF Counted
<1>3. ToSet(Pg!AllStates(pg, o)) = joined
  <2>1. Pg!AllStates(pg, o) = ListedBy(ids)
    BY StatesAre
  <2>2. ids \in [DOMAIN ids -> Int] /\ DOMAIN ids = joined
    BY <1>1
  <2> HIDE DEF ids
  <2> QED BY <1>1, <2>1, <2>2, ListsAll
<1>4. due = {d \in joined : pg.state[d].due \in 1 .. clock}
  <2>1. Pg!Due(pg, o, clock) = ListedBy(dues)
    BY StatesAre
  <2>2. dues \in [DOMAIN dues -> Int] /\ DOMAIN dues = {d \in joined : pg.state[d].due \in 1 .. clock}
    BY <1>1
  <2>3. DOMAIN dues \subseteq Concepts
    BY <1>1, <2>2
  <2> HIDE DEF dues
  <2> QED BY <2>1, <2>2, <2>3, ListsAll
<1>5. rows = [c \in joined |-> pg.state[c]]
  BY <1>3
<1> HIDE DEF joined, rows, due
<1>6. DOMAIN rows = joined /\ \A c \in joined : rows[c].due = pg.state[c].due
  BY <1>5
<1> DEFINE now == {c \in joined : pg.state[c].due # Null /\ ahead(c) <= 0}
           tomorrow == {c \in joined : pg.state[c].due # Null /\ ahead(c) = 1}
           week == {c \in joined : pg.state[c].due # Null /\ 1 < ahead(c) /\ ahead(c) <= DaysPerWeek}
           later == {c \in joined : pg.state[c].due # Null /\ ahead(c) > DaysPerWeek}
           sorted == [ready_now |-> now, ready_tomorrow |-> tomorrow, ready_this_week |-> week, holding |-> later]
<1>7. ripe = sorted
  <2> DEFINE scheduled == {c \in DOMAIN rows : rows[c].due # Null}
             far(c) == Day(rows[c].due) - Day(clock)
  <2>1. {c \in scheduled : far(c) <= 0} = now
    BY <1>6
  <2>2. {c \in scheduled : far(c) = 1} = tomorrow
    BY <1>6
  <2>3. {c \in scheduled : 1 < far(c) /\ far(c) <= DaysPerWeek} = week
    BY <1>6
  <2>4. {c \in scheduled : far(c) > DaysPerWeek} = later
    BY <1>6
  <2>5. ripe = [ready_now       |-> {c \in scheduled : far(c) <= 0},
                ready_tomorrow  |-> {c \in scheduled : far(c) = 1},
                ready_this_week |-> {c \in scheduled : 1 < far(c) /\ far(c) <= DaysPerWeek},
                holding         |-> {c \in scheduled : far(c) > DaysPerWeek}]
    BY Zenon DEF Ripeness
  <2> QED BY <2>1, <2>2, <2>3, <2>4, <2>5, Zenon
<1>8. Holding(rows, clock) = {c \in joined : pg.state[c].due # Null /\ pg.state[c].due > clock}
  BY <1>6 DEF Holding
<1>9. ASSUME NEW c \in joined
      PROVE  /\ ahead(c) \in Int
             /\ pg.state[c].due <= clock => ahead(c) <= 0
             /\ pg.state[c].due > clock => ahead(c) >= 0
  <2> DEFINE x == pg.state[c].due
  <2>1. x \in Nat
    BY <1>1
  <2> HIDE DEF x
  <2>2. Day(x) \in Int /\ Day(clock) \in Int
    BY <1>2, <2>1, DaysInOrder
  <2>3. x <= clock => Day(x) <= Day(clock)
    BY <1>2, <2>1, DaysInOrder
  <2>4. x > clock => Day(clock) <= Day(x)
    BY <1>2, <2>1, DaysInOrder
  <2> QED BY <2>2, <2>3, <2>4 DEF x
<1>10. DaysPerWeek \in Nat
  BY CalendarType
<1> HIDE DEF ahead
<1>11. due \subseteq now
  BY <1>4, <1>9 DEF Null
<1> DEFINE holding == {c \in joined : pg.state[c].due # Null /\ pg.state[c].due > clock}
<1>12. ASSUME NEW c \in joined
       PROVE  /\ c \in tomorrow \cup week \cup later => c \in holding
              /\ c \in due \/ c \in holding <=> c \in now \cup tomorrow \cup week \cup later
  <2> DEFINE x == pg.state[c].due
             n == ahead(c)
  <2>1. x \in Nat /\ n \in Int /\ (x <= clock => n <= 0) /\ (x > clock => n >= 0)
    BY <1>1, <1>9
  <2>2. (c \in due <=> x \in 1 .. clock) /\ (c \in holding <=> x # Null /\ x > clock)
    BY <1>4
  <2>3. /\ c \in now <=> x # Null /\ n <= 0
        /\ c \in tomorrow <=> x # Null /\ n = 1
        /\ c \in week <=> x # Null /\ 1 < n /\ n <= DaysPerWeek
        /\ c \in later <=> x # Null /\ n > DaysPerWeek
    OBVIOUS
  <2> HIDE DEF x, n, now, tomorrow, week, later, holding
  <2> QED BY <1>2, <1>10, <2>1, <2>2, <2>3 DEF Null
<1> HIDE DEF now, tomorrow, week, later, ripe, holding
<1>13. /\ tomorrow \cup week \cup later \subseteq holding
       /\ due \cup holding = now \cup tomorrow \cup week \cup later
  <2>1. now \subseteq joined /\ tomorrow \subseteq joined /\ week \subseteq joined /\ later \subseteq joined
        /\ due \subseteq joined /\ holding \subseteq joined
    BY <1>4 DEF now, tomorrow, week, later, holding
  <2> QED BY <1>12, <2>1
<1>14. UNION {ripe[b] : b \in DOMAIN ripe} = now \cup tomorrow \cup week \cup later
  <2>1. DOMAIN sorted = {"ready_now", "ready_tomorrow", "ready_this_week", "holding"}
        /\ sorted["ready_now"] = now /\ sorted["ready_tomorrow"] = tomorrow
        /\ sorted["ready_this_week"] = week /\ sorted["holding"] = later
    OBVIOUS
  <2> HIDE DEF sorted
  <2> QED BY <1>7, <2>1
<1>15. ripe.ready_now = now /\ ripe.ready_tomorrow = tomorrow /\ ripe.ready_this_week = week /\ ripe.holding = later
  BY <1>7
<1> QED BY <1>8, <1>11, <1>13, <1>14, <1>15 DEF rows, due, ripe, holding

\* The deltas of check-ins that did not overlap add up, and the readings of the
\* schedule agree.
THEOREM ChecksAddUpHolds == Spec => []ChecksAddUp
<1>1. ASSUME Typed, DeskInv, AgreeInv PROVE ChecksAddUp
  <2>1. AddUp /\ Counted
    BY <1>1 DEF DeskInv, Typed
  <2>2. \A o \in Courses :
          LET rows == [c \in ToSet(Pg!AllStates(pg, o)) |-> pg.state[c]]
              due == ToSet(Pg!Due(pg, o, clock))
              ripe == Ripeness(rows, clock)
          IN /\ due \subseteq ripe.ready_now
             /\ ripe.ready_tomorrow \cup ripe.ready_this_week \cup ripe.holding \subseteq Holding(rows, clock)
             /\ due \cup Holding(rows, clock) = UNION {ripe[b] : b \in DOMAIN ripe}
    BY <1>1, <2>1, SchedulesAgree
  <2> QED BY <2>1, <2>2, Zenon DEF ChecksAddUp, AddUp
<1> QED BY <1>1, DeskInvariant, PTL

---------------------------------------------------------------------------
\* The answers of the two families

LEMMA SameListed ==
  ASSUME NEW ids
  PROVE  Pg!Listed(ids) = Listed(ids) /\ Memory!Listed(ids) = Listed(ids)
<1> DEFINE key == [x \in ids |-> x]
<1>1. Pg!Listed(ids) = Pg!ListedBy(key) /\ Memory!Listed(ids) = Memory!ListedBy(key) /\ Listed(ids) = ListedBy(key)
  BY Zenon DEF Pg!Listed, Memory!Listed, Listed
<1> HIDE DEF key
<1> QED BY <1>1, SameListing

LEMMA SameRows ==
  ASSUME NEW s, NEW t, NEW K, SameOn(s, t, K)
  PROVE  Rows(s, K) = Rows(t, K)
BY DEF SameOn, Rows

\* Two keys that agree on the steady concepts list them in the same order.
LEMMA SameLists ==
  ASSUME NEW f, f \in [DOMAIN f -> Int], DOMAIN f \subseteq Concepts,
         NEW g, g \in [DOMAIN g -> Int], DOMAIN g \subseteq Concepts,
         SameOn(f, g, Steady)
  PROVE  SameList(ListedBy(f), ListedBy(g))
<1> DEFINE s == ListedBy(f)
           t == ListedBy(g)
<1>1. Concepts \subseteq Nat /\ IsFiniteSet(DOMAIN f) /\ IsFiniteSet(DOMAIN g)
  <2>1. Concepts \subseteq Nat /\ IsFiniteSet(Concepts)
    BY StoreConstants
  <2> QED BY <2>1, FS_Subset
<1>2. DOMAIN f \subseteq Nat /\ DOMAIN g \subseteq Nat
  BY <1>1
<1>3. /\ DOMAIN s = 1 .. Len(s) /\ Len(s) \in Nat /\ s \in Seq(DOMAIN f) /\ ToSet(s) = DOMAIN f
      /\ \A m, n \in DOMAIN s : m < n => Before(f, s[m], s[n])
  BY <1>1, <1>2, ListedInOrder
<1>4. /\ DOMAIN t = 1 .. Len(t) /\ Len(t) \in Nat /\ t \in Seq(DOMAIN g) /\ ToSet(t) = DOMAIN g
      /\ \A m, n \in DOMAIN t : m < n => Before(g, t[m], t[n])
  BY <1>1, <1>2, ListedInOrder
<1> HIDE DEF s, t
<1>5. ToSet(s) \cap Steady = ToSet(t) \cap Steady
  BY <1>3, <1>4 DEF SameOn
<1>6. ASSUME NEW m \in DOMAIN s, NEW n \in DOMAIN s, NEW i \in DOMAIN t, NEW j \in DOMAIN t,
             s[m] = t[i], s[n] = t[j], {s[m], s[n]} \subseteq Steady
      PROVE  m < n <=> i < j
  <2> DEFINE x == s[m]
             y == s[n]
  <2>1. x \in DOMAIN f /\ y \in DOMAIN f /\ x \in DOMAIN g /\ y \in DOMAIN g /\ x \in Steady /\ y \in Steady
    <3>1. s[m] \in DOMAIN f /\ s[n] \in DOMAIN f /\ t[i] \in DOMAIN g /\ t[j] \in DOMAIN g
      BY <1>3, <1>4
    <3> QED BY <1>6, <3>1
  <2>2. f[x] = g[x] /\ f[y] = g[y]
    BY <2>1 DEF SameOn
  <2>3. /\ m < n => Before(f, x, y)
        /\ n < m => Before(f, y, x)
        /\ i < j => Before(g, x, y)
        /\ j < i => Before(g, y, x)
    BY <1>3, <1>4, <1>6
  <2>4. m \in Nat /\ n \in Nat /\ i \in Nat /\ j \in Nat
    BY <1>3, <1>4
  <2>5. (m = n => x = y) /\ (i = j => x = y)
    BY <1>6
  <2> HIDE DEF x, y
  <2>6. (Before(f, x, y) <=> Before(g, x, y)) /\ (Before(f, y, x) <=> Before(g, y, x))
    BY <2>2 DEF Before
  <2>7. ~(Before(f, x, y) /\ Before(f, y, x)) /\ (x = y => ~Before(f, x, y) /\ ~Before(f, y, x))
    BY <1>2, <2>1, BeforeOrders
  <2> QED BY <2>3, <2>4, <2>5, <2>6, <2>7
<1>7. SameList(s, t)
  BY <1>5, <1>6, Zenon DEF SameList
<1> QED BY <1>7 DEF s, t

\* Steady concepts are of the same course in both.
LEMMA SameCourse ==
  ASSUME AgreeInv, NEW c \in Steady, NEW o
  PROVE  /\ c \in DOMAIN pg.concept <=> c \in DOMAIN ref.concept
         /\ c \in DOMAIN pg.concept => pg.concept[c] = ref.concept[c]
         /\ c \in DOMAIN pg.concept /\ pg.concept[c].course = o <=> Memory!InCourse(ref, c, o)
<1>1. (c \in DOMAIN pg.concept <=> c \in DOMAIN ref.concept)
      /\ (c \in DOMAIN pg.concept => pg.concept[c] = ref.concept[c])
  BY DEF AgreeInv, Steadily, SameOn
<1> QED BY <1>1 DEF Memory!InCourse

\* Without any foreign key's doing all concepts are steady.
LEMMA AllSteady ==
  ASSUME AgreeInv, strayed = {}
  PROVE  Steady = Concepts
BY DEF Steady

LEMMA ConceptsAgree ==
  ASSUME Typed, AgreeInv
  PROVE  SameConcepts
<1>1. Rows(pg.concept, Steady) = Rows(ref.concept, Steady)
  BY SameRows DEF AgreeInv, Steadily
<1>2. Concepts \subseteq Nat
  BY StoreConstants
<1>3. ASSUME NEW o \in Courses PROVE SameList(Pg!ListConcepts(pg, o), Memory!ListConcepts(ref, o))
  <2> DEFINE S == {c \in DOMAIN pg.concept : pg.concept[c].course = o}
             T == {c \in DOMAIN ref.concept : Memory!InCourse(ref, c, o)}
             f == [c \in S |-> c]
             g == [c \in T |-> c]
  <2>1. Pg!ListConcepts(pg, o) = Listed(S) /\ Memory!ListConcepts(ref, o) = Listed(T)
    <3>1. Pg!ListConcepts(pg, o) = Pg!Listed(S)
      BY Zenon DEF Pg!ListConcepts, Pg!OfCourse
    <3>2. Memory!ListConcepts(ref, o) = Memory!Listed(T)
      BY Zenon DEF Memory!ListConcepts
    <3> HIDE DEF S, T
    <3> QED BY <3>1, <3>2, SameListed
  <2>2. Listed(S) = ListedBy(f) /\ Listed(T) = ListedBy(g)
    BY Zenon DEF Listed
  <2>3. S \subseteq Concepts /\ T \subseteq Concepts
    BY DEF AgreeInv, TablesTyped
  <2>4. S \cap Steady = T \cap Steady
    BY SameCourse
  <2> HIDE DEF S, T
  <2>5. f \in [DOMAIN f -> Int] /\ g \in [DOMAIN g -> Int] /\ DOMAIN f \subseteq Concepts /\ DOMAIN g \subseteq Concepts
    BY <1>2, <2>3
  <2>6. SameOn(f, g, Steady)
    BY <2>4 DEF SameOn
  <2> HIDE DEF f, g
  <2>7. SameList(ListedBy(f), ListedBy(g))
    BY <2>5, <2>6, SameLists
  <2> QED BY <2>1, <2>2, <2>7
<1>4. ASSUME strayed = {} PROVE Pg!ListCourses(pg) = Memory!ListCourses(ref)
  <2> DEFINE S == {pg.concept[c].course : c \in DOMAIN pg.concept}
             T == {ref.concept[c].course : c \in DOMAIN ref.concept}
  <2>1. DOMAIN pg.concept = DOMAIN ref.concept /\ \A c \in DOMAIN pg.concept : pg.concept[c] = ref.concept[c]
    <3>1. DOMAIN pg.concept \subseteq Steady /\ DOMAIN ref.concept \subseteq Steady
      BY <1>4, AllSteady DEF AgreeInv, TablesTyped
    <3> QED BY <3>1, SameCourse
  <2>2. S = T
    BY <2>1
  <2>3. Pg!ListCourses(pg) = Pg!Listed(S) /\ Memory!ListCourses(ref) = Memory!Listed(T)
    BY Zenon DEF Pg!ListCourses, Memory!ListCourses
  <2> HIDE DEF S, T
  <2> QED BY <2>2, <2>3, SameListed
<1> QED BY <1>1, <1>3, <1>4 DEF SameConcepts

LEMMA EdgesAgree ==
  ASSUME Typed, AgreeInv
  PROVE  SameEdges
<1>1. SameOn(pg.edge, ref.edge, Links)
  BY DEF AgreeInv, Steadily
<1>2. Rows(pg.edge, Links) = Rows(ref.edge, Links)
  BY <1>1, SameRows
<1>3. \A k \in Links : k \in DOMAIN pg.edge <=> k \in DOMAIN ref.edge
  BY <1>1 DEF SameOn
<1>4. ASSUME NEW c, NEW t
      PROVE  /\ Pg!OutEdges(pg, c, t) \cap Links = Memory!OutEdges(ref, c, t) \cap Links
             /\ Pg!InEdges(pg, c, t) \cap Links = Memory!InEdges(ref, c, t) \cap Links
  <2>1. /\ Pg!OutEdges(pg, c, t) = {k \in DOMAIN pg.edge : k[1] = c /\ (t = Every \/ k[2] = t)}
        /\ Pg!InEdges(pg, c, t) = {k \in DOMAIN pg.edge : k[3] = c /\ (t = Every \/ k[2] = t)}
    BY Zenon DEF Pg!OutEdges, Pg!InEdges, Pg!Every, Every
  <2>2. /\ Memory!OutEdges(ref, c, t) = {k \in DOMAIN ref.edge : k[1] = c /\ t \in {Every, k[2]}}
        /\ Memory!InEdges(ref, c, t) = {k \in DOMAIN ref.edge : k[3] = c /\ t \in {Every, k[2]}}
    BY Zenon DEF Memory!OutEdges, Memory!InEdges, Memory!Every, Every
  <2> DEFINE links == Links
  <2> HIDE DEF links
  <2>3. \A k \in links : k \in DOMAIN pg.edge <=> k \in DOMAIN ref.edge
    BY <1>3 DEF links
  <2>4. /\ Pg!OutEdges(pg, c, t) \cap links = Memory!OutEdges(ref, c, t) \cap links
        /\ Pg!InEdges(pg, c, t) \cap links = Memory!InEdges(ref, c, t) \cap links
    BY <2>1, <2>2, <2>3
  <2> QED BY <2>4 DEF links
<1>5. ASSUME NEW o \in Courses PROVE Pg!ListEdges(pg, o) \cap Links = Memory!ListEdges(ref, o) \cap Links
  <2>1. Pg!ListEdges(pg, o) = {k \in DOMAIN pg.edge : \E c \in DOMAIN pg.concept : k[1] = c /\ pg.concept[c].course = o}
    BY Zenon DEF Pg!ListEdges
  <2>2. Memory!ListEdges(ref, o) = {k \in DOMAIN ref.edge : Memory!InCourse(ref, k[1], o)}
    BY Zenon DEF Memory!ListEdges
  <2>3. \A k \in Links : k[1] \in Steady
    BY DEF Links
  <2>4. \A c \in Steady : c \in DOMAIN pg.concept /\ pg.concept[c].course = o <=> Memory!InCourse(ref, c, o)
    BY SameCourse
  <2> DEFINE links == Links
             all == Steady
  <2> HIDE DEF links, all
  <2>5. \A k \in links : (k \in DOMAIN pg.edge <=> k \in DOMAIN ref.edge) /\ k[1] \in all
    BY <1>3, <2>3 DEF links, all
  <2>6. \A k \in links : k \in Pg!ListEdges(pg, o) <=> k \in Memory!ListEdges(ref, o)
    BY <2>1, <2>2, <2>4, <2>5 DEF all
  <2> QED BY <2>6 DEF links
<1> QED BY <1>2, <1>4, <1>5 DEF SameEdges

LEMMA QuestionsAgree ==
  ASSUME Typed, AgreeInv
  PROVE  SameQuestions
<1>1. SameOn(pg.question, ref.question, Steady)
  BY DEF AgreeInv, Steadily
<1>2. /\ \A q \in DOMAIN pg.question : pg.question[q].concept = q /\ q \in Concepts
      /\ \A q \in DOMAIN ref.question : ref.question[q].concept = q /\ q \in Concepts
  BY DEF AgreeInv, TablesTyped
<1>3. QuestionsOn(pg) = DOMAIN pg.question \cap Steady /\ QuestionsOn(ref) = DOMAIN ref.question \cap Steady
  BY <1>2 DEF QuestionsOn
<1>4. Rows(pg.question, QuestionsOn(pg)) = Rows(ref.question, QuestionsOn(ref))
  BY <1>1, <1>3 DEF SameOn, Rows
<1>5. ASSUME NEW c \in Steady, NEW n, NEW h PROVE Pg!ByConcept(pg, c, n, h) = Memory!ByConcept(ref, c, n, h)
  <2> DEFINE S == {q \in DOMAIN pg.question :
                     /\ pg.question[q].concept = c /\ pg.question[q].status # "retired"
                     /\ n = Null \/ pg.question[q].difficulty = n
                     /\ h = Null \/ pg.question[q].hops = h}
             served == {q \in DOMAIN ref.question : ref.question[q].status # "retired"}
             T == {q \in served : /\ ref.question[q].concept = c
                                  /\ n \in {Null, ref.question[q].difficulty}
                                  /\ h \in {Null, ref.question[q].hops}}
  <2>1. Pg!ByConcept(pg, c, n, h) = Pg!Listed(S)
    BY Zenon DEF Pg!ByConcept, Pg!Null, Null
  <2>2. Memory!ByConcept(ref, c, n, h) = Memory!Listed(T)
    BY Zenon DEF Memory!ByConcept, Memory!Served, Memory!Null, Null
  <2>3. S = T
    <3>1. ASSUME NEW q, q # c PROVE q \notin S /\ q \notin T
      BY <1>2, <3>1
    <3>2. c \in S <=> c \in T
      BY <1>1 DEF SameOn
    <3> HIDE DEF S, T
    <3> QED BY <3>1, <3>2
  <2> HIDE DEF S, T
  <2> QED BY <2>1, <2>2, <2>3, SameListed
<1>6. ASSUME strayed = {}, NEW k PROVE Pg!ByEdge(pg, k) = Memory!ByEdge(ref, k)
  <2> DEFINE S == {q \in DOMAIN pg.question : pg.question[q].edge = k /\ pg.question[q].status # "retired"}
             served == {q \in DOMAIN ref.question : ref.question[q].status # "retired"}
             T == {q \in served : ref.question[q].edge = k}
  <2>1. Pg!ByEdge(pg, k) = Pg!Listed(S)
    BY Zenon DEF Pg!ByEdge
  <2>2. Memory!ByEdge(ref, k) = Memory!Listed(T)
    BY Zenon DEF Memory!ByEdge, Memory!Served
  <2>3. DOMAIN pg.question \subseteq Steady /\ DOMAIN ref.question \subseteq Steady
    BY <1>2, <1>6, AllSteady
  <2>4. S = T
    BY <1>1, <2>3 DEF SameOn
  <2> HIDE DEF S, T
  <2> QED BY <2>1, <2>2, <2>4, SameListed
<1> QED BY <1>4, <1>5, <1>6 DEF SameQuestions

LEMMA LearnerStatesAgree ==
  ASSUME Typed, AgreeInv
  PROVE  SameLearner(clock)
<1>1. SameOn(pg.state, ref.state, Steady) /\ SameOn(pg.reviews, ref.reviews, Steady)
  BY DEF AgreeInv, Steadily
<1>2. /\ DOMAIN pg.state \subseteq Concepts /\ \A c \in DOMAIN pg.state : pg.state[c].due \in Nat
      /\ DOMAIN ref.state \subseteq Concepts /\ \A c \in DOMAIN ref.state : ref.state[c].due \in Nat
  BY DEF AgreeInv, TablesTyped
<1>3. Concepts \subseteq Nat /\ clock \in Nat
  BY StoreConstants DEF Typed, Counted
<1>4. ASSUME NEW o \in Courses PROVE SameList(Pg!AllStates(pg, o), Memory!AllStates(ref, o))
  <2> DEFINE S == {c \in DOMAIN pg.state \cap DOMAIN pg.concept : pg.concept[c].course = o}
             T == {c \in DOMAIN ref.state : Memory!InCourse(ref, c, o)}
             f == [c \in S |-> c]
             g == [c \in T |-> c]
  <2>1. Pg!AllStates(pg, o) = ListedBy(f)
    BY StatesAre
  <2>2. Memory!AllStates(ref, o) = ListedBy(g)
    <3>1. Memory!AllStates(ref, o) = Memory!Listed(T)
      BY Zenon DEF Memory!AllStates
    <3>2. Memory!Listed(T) = Listed(T)
      BY SameListed
    <3>3. Listed(T) = ListedBy(g)
      BY Zenon DEF Listed
    <3> QED BY <3>1, <3>2, <3>3
  <2>3. S \cap Steady = T \cap Steady
    <3>1. \A c \in Steady : c \in DOMAIN pg.state <=> c \in DOMAIN ref.state
      BY <1>1 DEF SameOn
    <3> QED BY <3>1, SameCourse
  <2>4. S \subseteq Concepts /\ T \subseteq Concepts
    BY <1>2
  <2> HIDE DEF S, T
  <2>5. f \in [DOMAIN f -> Int] /\ g \in [DOMAIN g -> Int] /\ DOMAIN f \subseteq Concepts /\ DOMAIN g \subseteq Concepts
    BY <1>3, <2>4
  <2>6. SameOn(f, g, Steady)
    BY <2>3 DEF SameOn
  <2> HIDE DEF f, g
  <2> QED BY <2>1, <2>2, <2>5, <2>6, SameLists
<1>5. ASSUME NEW o \in Courses, NEW t \in Nat PROVE SameList(Pg!Due(pg, o, t), Memory!Due(ref, o, t))
  <2> DEFINE joined == {c \in DOMAIN pg.state \cap DOMAIN pg.concept : pg.concept[c].course = o}
             S == {d \in joined : pg.state[d].due \in 1 .. t}
             T == {c \in DOMAIN ref.state : ref.state[c].due # Null /\ ref.state[c].due <= t /\ Memory!InCourse(ref, c, o)}
             f == [c \in S |-> pg.state[c].due]
             g == [c \in T |-> ref.state[c].due]
  <2>1. Pg!Due(pg, o, t) = ListedBy(f)
    BY StatesAre
  <2>2. Memory!Due(ref, o, t) = ListedBy(g)
    <3>1. Memory!Due(ref, o, t) = Memory!ListedBy(g)
      BY Zenon DEF Memory!Due, Memory!Null, Null
    <3> HIDE DEF g
    <3> QED BY <3>1, SameListing
  <2>3. \A c \in Steady : (c \in DOMAIN pg.state <=> c \in DOMAIN ref.state) /\ (c \in DOMAIN pg.state => pg.state[c] = ref.state[c])
    BY <1>1 DEF SameOn
  <2>4. \A c \in Steady : c \in S <=> c \in T
    BY <1>2, <2>3, SameCourse DEF Null
  <2>5. S \subseteq Concepts /\ T \subseteq Concepts /\ S \subseteq DOMAIN pg.state /\ T \subseteq DOMAIN ref.state
    BY <1>2
  <2> HIDE DEF S, T
  <2>6. f \in [DOMAIN f -> Int] /\ g \in [DOMAIN g -> Int] /\ DOMAIN f \subseteq Concepts /\ DOMAIN g \subseteq Concepts
    BY <1>2, <2>5
  <2>7. SameOn(f, g, Steady)
    BY <2>3, <2>4, <2>5 DEF SameOn
  <2> HIDE DEF f, g
  <2> QED BY <2>1, <2>2, <2>6, <2>7, SameLists
<1>6. ASSUME NEW c \in Steady PROVE Pg!ReviewsOf(pg, c) = Memory!ReviewsOf(ref, c)
  <2>1. Pg!ReviewsOf(pg, c) = GetOr(pg.reviews, c, <<>>) /\ Memory!ReviewsOf(ref, c) = GetOr(ref.reviews, c, <<>>)
    BY Zenon DEF Pg!ReviewsOf, Memory!ReviewsOf, Pg!GetOr, Memory!GetOr, GetOr
  <2>2. GetOr(pg.reviews, c, <<>>) = GetOr(ref.reviews, c, <<>>)
    BY <1>1 DEF SameOn, GetOr
  <2> QED BY <2>1, <2>2
<1>7. Rows(pg.state, Steady) = Rows(ref.state, Steady)
  BY <1>1, SameRows
<1>8. clock + 1 \in Nat
  BY <1>3
<1> QED BY <1>3, <1>4, <1>5, <1>6, <1>7, <1>8 DEF SameLearner

LEMMA EventsAgree ==
  ASSUME Typed, AgreeInv, NEW kinds
  PROVE  SameEvents(kinds)
<1>1. pg.events = ref.events
  BY DEF AgreeInv, Steadily
<1>2. ASSUME NEW o PROVE Pg!EventsOf(pg, o) = Memory!EventsOf(ref, o)
  BY <1>1, Zenon DEF Pg!EventsOf, Memory!EventsOf, Pg!EntriesOf, Memory!EntriesOf
<1>3. ASSUME NEW o, NEW k PROVE Pg!LastEvent(pg, k, o) = Memory!LastEvent(ref, k, o)
  <2> DEFINE log == pg.events
             rows == {n \in DOMAIN log : log[n].kind = k /\ log[n].course = o}
             key == [n \in rows |-> log[n].at]
  <2>1. /\ Pg!LastEvent(pg, k, o) = IF rows = {} THEN <<>> ELSE <<log[Pg!LastBy(key)]>>
        /\ Memory!LastEvent(ref, k, o) = IF rows = {} THEN <<>> ELSE <<log[Memory!LastBy(key)]>>
    BY <1>1, Zenon DEF Pg!LastEvent, Memory!LastEvent
  <2>2. Pg!LastBy(key) = Memory!LastBy(key)
    BY SameLast
  <2> HIDE DEF key, rows
  <2> QED BY <2>1, <2>2
<1> QED BY <1>2, <1>3 DEF SameEvents

LEMMA NotesAgree ==
  ASSUME Typed, AgreeInv
  PROVE  SameNotes(clock)
<1> DEFINE table == pg.note
<1>1. ref.note = table /\ pg.profile = ref.profile
  BY DEF AgreeInv, Steadily
<1>2. \A n \in DOMAIN table : table[n].due \in Nat
  BY DEF AgreeInv, TablesTyped
<1>3. Pg!NoteCourses(pg) = Memory!NoteCourses(ref)
  <2> DEFINE S == {table[n].course : n \in DOMAIN table}
  <2>1. Pg!NoteCourses(pg) = Pg!Listed(S) /\ Memory!NoteCourses(ref) = Memory!Listed(S)
    BY <1>1, Zenon DEF Pg!NoteCourses, Memory!NoteCourses
  <2> HIDE DEF S
  <2> QED BY <2>1, SameListed
<1>4. ASSUME NEW o, NEW ks, NEW s PROVE Pg!ListNotes(pg, o, ks, s) = Memory!ListNotes(ref, o, ks, s)
  <2> DEFINE S == {n \in DOMAIN table : /\ table[n].course = o /\ table[n].kind \in ks
                                        /\ s = Every \/ table[n].status = s}
             T == {n \in DOMAIN table : /\ table[n].course = o /\ table[n].kind \in ks
                                        /\ s \in {Every, table[n].status}}
             key == [n \in S |-> table[n].created]
  <2>1. Pg!ListNotes(pg, o, ks, s) = Pg!ListedBy([n \in S |-> table[n].created])
    BY Zenon DEF Pg!ListNotes, Pg!Every, Every
  <2>2. Memory!ListNotes(ref, o, ks, s) = Memory!ListedBy([n \in T |-> table[n].created])
    BY <1>1, Zenon DEF Memory!ListNotes, Memory!Every, Every
  <2>3. S = T
    BY Zenon
  <2> HIDE DEF S, T
  <2>4. Pg!ListNotes(pg, o, ks, s) = Pg!ListedBy(key) /\ Memory!ListNotes(ref, o, ks, s) = Memory!ListedBy(key)
    BY <2>1, <2>2, <2>3, Zenon
  <2> HIDE DEF key
  <2> QED BY <2>4, SameListing
<1>5. ASSUME NEW o, NEW t \in Nat PROVE Pg!DueNotes(pg, o, t) = Memory!DueNotes(ref, o, t)
  <2> DEFINE S == {n \in DOMAIN table : /\ table[n].course = o /\ table[n].status = "active"
                                        /\ table[n].kind \in {"insight", "misconception_fixed"}
                                        /\ table[n].due \in 1 .. t}
             T == {n \in DOMAIN table : /\ table[n].course = o
                                        /\ table[n].status = "active" /\ table[n].kind \in {"insight", "misconception_fixed"}
                                        /\ table[n].due # Null /\ table[n].due <= t}
             key == [n \in S |-> table[n].due]
  <2>1. Pg!DueNotes(pg, o, t) = Pg!ListedBy([n \in S |-> table[n].due])
    BY Zenon DEF Pg!DueNotes
  <2>2. Memory!DueNotes(ref, o, t) = Memory!ListedBy([n \in T |-> table[n].due])
    BY <1>1, Zenon DEF Memory!DueNotes, Memory!Reviewable, Memory!Null, Null
  <2>3. S = T
    BY <1>2 DEF Null
  <2> HIDE DEF S, T
  <2>4. Pg!DueNotes(pg, o, t) = Pg!ListedBy(key) /\ Memory!DueNotes(ref, o, t) = Memory!ListedBy(key)
    BY <2>1, <2>2, <2>3, Zenon
  <2> HIDE DEF key
  <2> QED BY <2>4, SameListing
<1>6. clock \in Nat /\ clock + 1 \in Nat
  BY DEF Typed, Counted
<1> QED BY <1>1, <1>3, <1>4, <1>5, <1>6 DEF SameNotes

---------------------------------------------------------------------------
\* The nearest concepts

\* Concepts by their similarity, the most alike first.
Distance(ids, sim) == [c \in ids |-> -sim[c]]
Closer(ids, sim) == ListedBy(Distance(ids, sim))
Ranked(ids, sim) == [n \in DOMAIN Closer(ids, sim) |-> <<Closer(ids, sim)[n], sim[Closer(ids, sim)[n]]>>]

\* p lists ids in the order of key, each with its similarity.
RanksAll(ids, sim, key, order, p) ==
  /\ p \in Seq(ids \X Int) /\ Len(p) \in Nat /\ DOMAIN order = 1 .. Len(p)
  /\ \A n \in 1 .. Len(p) : order[n] \in ids /\ p[n] = <<order[n], sim[order[n]]>>
  /\ \A m, n \in 1 .. Len(p) : m < n => Before(key, order[m], order[n])
  /\ \A c \in ids : \E n \in 1 .. Len(p) : order[n] = c
  /\ key \in [DOMAIN key -> Int] /\ DOMAIN key = ids /\ DOMAIN key \subseteq Nat

LEMMA RankedIs ==
  ASSUME NEW ids, ids \subseteq Concepts, NEW sim, \A c \in ids : sim[c] \in Int
  PROVE  RanksAll(ids, sim, Distance(ids, sim), Closer(ids, sim), Ranked(ids, sim))
<1> DEFINE p == Ranked(ids, sim)
           key == Distance(ids, sim)
           order == Closer(ids, sim)
<1>1. Concepts \subseteq Nat /\ IsFiniteSet(ids)
  <2>1. Concepts \subseteq Nat /\ IsFiniteSet(Concepts)
    BY StoreConstants
  <2> QED BY <2>1, FS_Subset
<1>2. key \in [DOMAIN key -> Int] /\ DOMAIN key = ids /\ DOMAIN key \subseteq Nat
  BY <1>1 DEF Distance
<1>3. p = [n \in DOMAIN order |-> <<order[n], sim[order[n]]>>] /\ order = ListedBy(key)
  BY Zenon DEF Ranked, Closer
<1> HIDE DEF key, p, order
<1>4. /\ DOMAIN order = 1 .. Len(order) /\ Len(order) \in Nat /\ order \in Seq(ids) /\ ToSet(order) = ids
      /\ \A m, n \in DOMAIN order : m < n => Before(key, order[m], order[n])
  BY <1>1, <1>2, <1>3, ListedInOrder
<1>5. \A n \in 1 .. Len(order) : order[n] \in ids
  BY <1>4
<1>6. p \in [1 .. Len(order) -> ids \X Int]
  BY <1>3, <1>4, <1>5
<1> DEFINE pair == ids \X Int
<1> HIDE DEF pair
<1>7. p \in Seq(pair) /\ Len(p) = Len(order) /\ DOMAIN p = 1 .. Len(p)
  BY <1>4, <1>6 DEF pair
<1>8. \A c \in ids : \E n \in 1 .. Len(p) : order[n] = c
  BY <1>4, <1>7 DEF ToSet
<1>9. \A n \in 1 .. Len(p) : order[n] \in ids /\ p[n] = <<order[n], sim[order[n]]>>
  BY <1>3, <1>4, <1>5, <1>7
<1>10. \A m, n \in 1 .. Len(p) : m < n => Before(key, order[m], order[n])
  BY <1>4, <1>7
<1>11. Len(p) \in Nat /\ DOMAIN order = 1 .. Len(p)
  BY <1>4, <1>7
<1>12. RanksAll(ids, sim, key, order, p)
  BY <1>2, <1>7, <1>8, <1>9, <1>10, <1>11, Zenon DEF RanksAll, pair
<1> QED BY <1>12 DEF p, order, key

LEMMA RankedAlike ==
  ASSUME NEW ids, ids \subseteq Concepts, NEW s, NEW t, \A c \in ids : s[c] \in Int /\ s[c] = t[c]
  PROVE  Ranked(ids, s) = Ranked(ids, t)
<1> DEFINE order == Closer(ids, s)
<1>1. Distance(ids, s) = Distance(ids, t)
  BY DEF Distance
<1>2. Closer(ids, t) = order
  BY <1>1 DEF Closer
<1>3. RanksAll(ids, s, Distance(ids, s), order, Ranked(ids, s))
  BY RankedIs
<1> HIDE DEF order
<1>4. \A n \in DOMAIN order : s[order[n]] = t[order[n]]
  BY <1>3 DEF RanksAll
<1>5. /\ Ranked(ids, s) = [n \in DOMAIN order |-> <<order[n], s[order[n]]>>]
      /\ Ranked(ids, t) = [n \in DOMAIN order |-> <<order[n], t[order[n]]>>]
  BY <1>2, Zenon DEF Ranked, order
<1> QED BY <1>4, <1>5

LEMMA OneOf ==
  ASSUME NEW S, NEW p \in Seq(S), NEW n \in 1 .. Len(p)
  PROVE  SubSeq(p, n, n) = <<p[n]>>
<1>1. n \in n .. Len(p) /\ n \in Int /\ n + 1 \in Int /\ n < n + 1 /\ p[n] \in S
  OBVIOUS
<1>2. SubSeq(p, n, n) = <<p[n]>> \o SubSeq(p, n + 1, n)
  BY <1>1, SubSeqRecursiveFirst
<1>3. SubSeq(p, n + 1, n) = <<>>
  BY <1>1, SubSeqEmpty
<1>4. <<p[n]>> \in Seq(S)
  BY <1>1
<1> QED BY <1>2, <1>3, <1>4, ConcatEmptySeq

LEMMA FirstOne ==
  ASSUME NEW S, NEW p \in Seq(S)
  PROVE  First(p, 1) = IF Len(p) = 0 THEN <<>> ELSE <<p[1]>>
<1>1. First(p, 1) = SubSeq(p, 1, IF 1 < Len(p) THEN 1 ELSE Len(p))
  BY DEF First
<1>2. Len(p) \in Nat
  OBVIOUS
<1>3. Len(p) = 0 => SubSeq(p, 1, 0) = <<>>
  BY SubSeqEmpty
<1>4. Len(p) # 0 => SubSeq(p, 1, 1) = <<p[1]>>
  BY <1>2, OneOf
<1>5. (IF 1 < Len(p) THEN 1 ELSE Len(p)) = IF Len(p) = 0 THEN 0 ELSE 1
  BY <1>2
<1> QED BY <1>1, <1>3, <1>4, <1>5

LEMMA PairOf ==
  ASSUME NEW a, NEW b
  PROVE  <<a>> \o <<b>> = <<a, b>>
<1> DEFINE S == {a, b}
           p == <<a>>
           q == <<b>>
           r == <<a, b>>
<1>1. /\ p \in Seq(S) /\ Len(p) = 1 /\ p[1] = a
      /\ q \in Seq(S) /\ Len(q) = 1 /\ q[1] = b
      /\ r \in Seq(S) /\ Len(r) = 2 /\ r[1] = a /\ r[2] = b
  OBVIOUS
<1> HIDE DEF S, p, q, r
<1>2. /\ p \o q \in Seq(S) /\ Len(p \o q) = 2
      /\ \A i \in 1 .. 2 : (p \o q)[i] = IF i <= 1 THEN p[i] ELSE q[i - 1]
  <2>1. /\ p \o q \in Seq(S) /\ Len(p \o q) = Len(p) + Len(q)
        /\ \A i \in 1 .. Len(p) + Len(q) : (p \o q)[i] = IF i <= Len(p) THEN p[i] ELSE q[i - Len(p)]
    BY <1>1, ConcatProperties
  <2>2. Len(p) + Len(q) = 2
    BY <1>1
  <2> QED BY <1>1, <2>1, <2>2
<1>3. \A i \in 1 .. 2 : (p \o q)[i] = r[i]
  BY <1>1, <1>2
<1>4. p \o q = r
  BY <1>1, <1>2, <1>3, SeqEqual
<1> QED BY <1>4 DEF p, q, r

LEMMA FirstTwo ==
  ASSUME NEW S, NEW p \in Seq(S)
  PROVE  First(p, 2) = IF Len(p) = 0 THEN <<>> ELSE IF Len(p) = 1 THEN <<p[1]>> ELSE <<p[1], p[2]>>
<1> DEFINE n == Len(p)
<1>1. First(p, 2) = SubSeq(p, 1, IF 2 < n THEN 2 ELSE n)
  BY DEF First
<1>2. n \in Nat
  OBVIOUS
<1>3. SubSeq(p, 1, 0) = <<>>
  BY SubSeqEmpty
<1>4. n # 0 => SubSeq(p, 1, 1) = <<p[1]>>
  BY <1>2, OneOf
<1>5. ASSUME n >= 2 PROVE SubSeq(p, 1, 2) = <<p[1], p[2]>>
  <2>1. 1 \in 1 .. n /\ 2 \in 1 .. n
    BY <1>2, <1>5
  <2>2. SubSeq(p, 1, 2) = <<p[1]>> \o SubSeq(p, 2, 2)
    BY <2>1, SubSeqRecursiveFirst
  <2>3. SubSeq(p, 2, 2) = <<p[2]>>
    BY <2>1, OneOf
  <2> QED BY <2>2, <2>3, PairOf
<1> HIDE DEF n
<1>6. (IF 2 < n THEN 2 ELSE n) = IF n = 0 THEN 0 ELSE IF n = 1 THEN 1 ELSE 2
  BY <1>2
<1>7. n # 0 /\ n # 1 => n >= 2
  BY <1>2
<1> DEFINE k == IF 2 < n THEN 2 ELSE n
<1> HIDE DEF k
<1>8. First(p, 2) = SubSeq(p, 1, k) /\ k = (IF n = 0 THEN 0 ELSE IF n = 1 THEN 1 ELSE 2)
  BY <1>1, <1>6 DEF k
<1>9. First(p, 2) = IF n = 0 THEN <<>> ELSE IF n = 1 THEN <<p[1]>> ELSE <<p[1], p[2]>>
  BY <1>3, <1>4, <1>5, <1>7, <1>8
<1> QED BY <1>9 DEF n

LEMMA RemovedAre ==
  ASSUME NEW a, NEW b
  PROVE  RemoveAt(<<a>>, 1) = <<>> /\ RemoveAt(<<a, b>>, 1) = <<b>> /\ RemoveAt(<<a, b>>, 2) = <<a>>
<1> DEFINE p == <<a>>
           q == <<a, b>>
           S == {a, b}
<1>1. p \in Seq(S) /\ Len(p) = 1 /\ p[1] = a
  OBVIOUS
<1>2. q \in Seq(S) /\ Len(q) = 2 /\ q[1] = a /\ q[2] = b
  OBVIOUS
<1>3. <<>> \in Seq(S) /\ <<a>> \in Seq(S) /\ <<b>> \in Seq(S)
  OBVIOUS
<1> HIDE DEF p, q, S
<1>4. RemoveAt(p, 1) = SubSeq(p, 1, 0) \o SubSeq(p, 2, 1)
  BY <1>1 DEF RemoveAt
<1>5. RemoveAt(q, 1) = SubSeq(q, 1, 0) \o SubSeq(q, 2, 2)
  BY <1>2 DEF RemoveAt
<1>6. RemoveAt(q, 2) = SubSeq(q, 1, 1) \o SubSeq(q, 3, 2)
  BY <1>2 DEF RemoveAt
<1>7. SubSeq(p, 1, 0) = <<>> /\ SubSeq(p, 2, 1) = <<>> /\ SubSeq(q, 1, 0) = <<>> /\ SubSeq(q, 3, 2) = <<>>
  BY SubSeqEmpty
<1>8. SubSeq(q, 2, 2) = <<b>> /\ SubSeq(q, 1, 1) = <<a>>
  <2>1. 1 \in 1 .. Len(q) /\ 2 \in 1 .. Len(q)
    BY <1>2
  <2>2. SubSeq(q, 1, 1) = <<q[1]>> /\ SubSeq(q, 2, 2) = <<q[2]>>
    BY <1>2, <2>1, OneOf
  <2> QED BY <1>2, <2>2
<1>9. <<>> \o <<>> = <<>> /\ <<>> \o <<b>> = <<b>> /\ <<a>> \o <<>> = <<a>>
  BY <1>3, ConcatEmptySeq
<1>10. RemoveAt(p, 1) = <<>> /\ RemoveAt(q, 1) = <<b>> /\ RemoveAt(q, 2) = <<a>>
  BY <1>4, <1>5, <1>6, <1>7, <1>8, <1>9
<1> QED BY <1>10 DEF p, q

LEMMA FirstOfFew ==
  ASSUME NEW a, NEW b
  PROVE  First(<<>>, 1) = <<>> /\ First(<<a>>, 1) = <<a>> /\ First(<<a, b>>, 1) = <<a>>
<1> DEFINE S == {a, b}
           o == <<>>
           p == <<a>>
           q == <<a, b>>
<1>1. o \in Seq(S) /\ Len(o) = 0
  OBVIOUS
<1>2. p \in Seq(S) /\ Len(p) = 1 /\ p[1] = a
  OBVIOUS
<1>3. q \in Seq(S) /\ Len(q) = 2 /\ q[1] = a
  OBVIOUS
<1> HIDE DEF S, o, p, q
<1>4. First(o, 1) = <<>>
  BY <1>1, FirstOne
<1>5. First(p, 1) = <<a>>
  <2>1. First(p, 1) = IF Len(p) = 0 THEN <<>> ELSE <<p[1]>>
    BY <1>2, FirstOne
  <2> QED BY <1>2, <2>1
<1>6. First(q, 1) = <<a>>
  <2>1. First(q, 1) = IF Len(q) = 0 THEN <<>> ELSE <<q[1]>>
    BY <1>3, FirstOne
  <2> QED BY <1>3, <2>1
<1> QED BY <1>4, <1>5, <1>6 DEF o, p, q

LEMMA FirstTwoAre ==
  ASSUME NEW S, NEW p \in Seq(S)
  PROVE  /\ DOMAIN First(p, 2) = {n \in 1 .. Len(p) : n <= 2}
         /\ \A n \in DOMAIN First(p, 2) : First(p, 2)[n] = p[n]
<1> DEFINE N == Len(p)
           f == First(p, 2)
           u == <<p[1]>>
           v == <<p[1], p[2]>>
           a == p[1]
           b == p[2]
<1>1. N \in Nat
  OBVIOUS
<1>2. f = IF N = 0 THEN <<>> ELSE IF N = 1 THEN u ELSE v
  BY FirstTwo
<1>3. DOMAIN u = {1} /\ u[1] = a
  OBVIOUS
<1>4. DOMAIN v = {1, 2} /\ v[1] = a /\ v[2] = b
  OBVIOUS
<1> HIDE DEF N, f, u, v
<1>5. CASE N = 0
  BY <1>1, <1>2, <1>5 DEF N, f
<1>6. CASE N = 1
  BY <1>1, <1>2, <1>3, <1>6 DEF N, f
<1>7. CASE N >= 2
  <2>1. f = v /\ {n \in 1 .. N : n <= 2} = {1, 2}
    BY <1>1, <1>2, <1>7
  <2> QED BY <1>4, <2>1 DEF N, f
<1> QED BY <1>1, <1>5, <1>6, <1>7

\* A list of pairs without that of c.
OwnTaken(pairs, c) ==
  LET own == {n \in DOMAIN pairs : pairs[n][1] = c}
  IN IF own = {} THEN pairs ELSE RemoveAt(pairs, CHOOSE n \in own : TRUE)

\* One of a list of two that has been taken out leaves what a list without it has.
LEMMA WithoutOwn ==
  ASSUME NEW ids, ids \subseteq Concepts, NEW sim, \A c \in ids : sim[c] \in Int, NEW c
  PROVE  First(OwnTaken(First(Ranked(ids, sim), 2), c), 1) = First(Ranked(ids \ {c}, sim), 1)
<1> DEFINE others == ids \ {c}
           P == Ranked(ids, sim)
           Q == Ranked(others, sim)
           f == Distance(ids, sim)
           g == Distance(others, sim)
           s == Closer(ids, sim)
           t == Closer(others, sim)
           pairs == First(P, 2)
           own == {n \in DOMAIN pairs : pairs[n][1] = c}
           left == OwnTaken(pairs, c)
<1>1. RanksAll(ids, sim, f, s, P)
  BY RankedIs
<1>2. RanksAll(others, sim, g, t, Q)
  <2>1. others \subseteq Concepts /\ \A d \in others : sim[d] \in Int
    OBVIOUS
  <2> HIDE DEF others
  <2> QED BY <2>1, RankedIs
<1>3. \A d, e \in others : Before(g, d, e) => Before(f, d, e)
  BY DEF Before, Distance
<1>4. /\ \A d \in ids : ~Before(f, d, d)
      /\ \A d, e \in ids : ~(Before(f, d, e) /\ Before(f, e, d))
  <2> HIDE DEF f
  <2>1. f \in [DOMAIN f -> Int] /\ DOMAIN f = ids /\ DOMAIN f \subseteq Nat
    BY <1>1 DEF RanksAll
  <2> QED BY <2>1, BeforeOrders
<1> DEFINE X == ids \X Int
           Y == others \X Int
<1> HIDE DEF P, Q, f, g, s, t
<1>5. /\ Len(P) \in Nat
      /\ \A n \in 1 .. Len(P) : s[n] \in ids /\ P[n] = <<s[n], sim[s[n]]>>
      /\ \A m, n \in 1 .. Len(P) : m < n => Before(f, s[m], s[n])
      /\ \A d \in ids : \E n \in 1 .. Len(P) : s[n] = d
  BY <1>1, Zenon DEF RanksAll
<1>6. /\ Len(Q) \in Nat
      /\ \A n \in 1 .. Len(Q) : t[n] \in others /\ Q[n] = <<t[n], sim[t[n]]>>
      /\ \A m, n \in 1 .. Len(Q) : m < n => Before(g, t[m], t[n])
      /\ \A d \in others : \E n \in 1 .. Len(Q) : t[n] = d
  BY <1>2, Zenon DEF RanksAll
<1>7. P \in Seq(X) /\ Q \in Seq(Y)
  BY <1>1, <1>2, Zenon DEF RanksAll
<1> HIDE DEF X, Y
<1>8. /\ pairs = IF Len(P) = 0 THEN <<>> ELSE IF Len(P) = 1 THEN <<P[1]>> ELSE <<P[1], P[2]>>
      /\ First(Q, 1) = IF Len(Q) = 0 THEN <<>> ELSE <<Q[1]>>
  BY <1>7, FirstOne, FirstTwo
<1>9. own = {n \in 1 .. Len(P) : n <= 2 /\ s[n] = c}
  <2>1. \A n \in 1 .. Len(P) : P[n][1] = s[n]
    BY <1>5
  <2>2. DOMAIN pairs = {n \in 1 .. Len(P) : n <= 2} /\ \A n \in DOMAIN pairs : pairs[n] = P[n]
    BY <1>7, FirstTwoAre
  <2> HIDE DEF pairs
  <2> QED BY <2>1, <2>2
<1> HIDE DEF own, pairs
<1>10. /\ own = {} => left = pairs
       /\ \A n : own = {n} => left = RemoveAt(pairs, n)
  <2>1. left = IF own = {} THEN pairs ELSE RemoveAt(pairs, CHOOSE n \in own : TRUE)
    BY Zenon DEF OwnTaken, own
  <2> QED BY <2>1
<1> DEFINE N == Len(P)
           first == First(left, 1)
           same == first = First(Q, 1)
<1> HIDE DEF N, left, first, same
<1>11. /\ N \in Nat
       /\ N = 0 => pairs = <<>>
       /\ N = 1 => pairs = <<P[1]>>
       /\ N >= 2 => pairs = <<P[1], P[2]>>
  BY <1>5, <1>8 DEF N
<1>12. own = {n \in 1 .. N : n <= 2 /\ s[n] = c}
  BY <1>9 DEF N
<1>13. /\ \A n \in 1 .. N : s[n] \in ids /\ P[n] = <<s[n], sim[s[n]]>>
       /\ \A m, n \in 1 .. N : m < n => Before(f, s[m], s[n])
       /\ \A d \in ids : \E n \in 1 .. N : s[n] = d
  BY <1>5 DEF N
<1>14. ASSUME Len(Q) = 0 PROVE same
  <2>1. \A d \in ids : d = c
    BY <1>6, <1>14
  <2>2. N = 0 \/ N = 1
    <3>1. N >= 2 => s[1] = c /\ s[2] = c /\ c \in ids /\ Before(f, s[1], s[2])
      BY <1>11, <1>13, <2>1
    <3> QED BY <1>4, <1>11, <3>1
  <2>3. left = <<>>
    <3>1. CASE N = 0
      <4>1. own = {}
        BY <1>12, <3>1
      <4> QED BY <1>10, <1>11, <3>1, <4>1
    <3>2. CASE N = 1
      <4>1. s[1] = c
        BY <1>13, <2>1, <3>2
      <4>2. own = {1}
        BY <1>12, <3>2, <4>1
      <4>3. left = RemoveAt(pairs, 1) /\ pairs = <<P[1]>>
        BY <1>10, <1>11, <3>2, <4>2
      <4>4. RemoveAt(<<P[1]>>, 1) = <<>>
        BY RemovedAre
      <4> QED BY <4>3, <4>4
    <3> QED BY <2>2, <3>1, <3>2
  <2>4. first = <<>>
    BY <2>3, FirstOfFew DEF first
  <2> QED BY <1>8, <1>14, <2>4 DEF same
<1>15. ASSUME Len(Q) >= 1 PROVE same
  <2> DEFINE x == t[1]
  <2>1. x \in others /\ Q[1] = <<x, sim[x]>>
    BY <1>6, <1>15
  <2>2. \A d \in others : d = x \/ Before(f, x, d)
    <3>1. ASSUME NEW d \in others, d # x PROVE Before(f, x, d)
      <4>1. PICK n \in 1 .. Len(Q) : t[n] = d
        BY <1>6
      <4>2. 1 \in 1 .. Len(Q) /\ n # 1 /\ 1 < n
        BY <1>6, <1>15, <3>1, <4>1
      <4>3. Before(g, x, d)
        BY <1>6, <4>1, <4>2
      <4> QED BY <1>3, <2>1, <4>3
    <3> QED BY <3>1
  <2>3. x \in ids /\ x # c
    BY <2>1
  <2> DEFINE y == <<x, sim[x]>>
  <2> HIDE DEF x
  <2>4. \A d \in ids : d = x \/ d = c \/ Before(f, x, d)
    BY <2>2
  <2>5. PICK i \in 1 .. N : s[i] = x
    BY <1>13, <2>3
  <2>6. N >= 1 /\ i \in Nat /\ i >= 1 /\ i <= N
    BY <1>11, <2>5
  <2>7. \A n \in 1 .. N : n < i => s[n] = c
    <3>1. ASSUME NEW n \in 1 .. N, n < i PROVE s[n] = c
      <4>1. Before(f, s[n], x) /\ s[n] \in ids
        BY <1>13, <2>5, <3>1
      <4> QED BY <1>4, <2>3, <2>4, <4>1
    <3> QED BY <3>1
  <2>8. i = 1 \/ i = 2
    <3>1. i >= 3 => s[1] = c /\ s[2] = c /\ Before(f, s[1], s[2]) /\ s[1] \in ids
      BY <1>11, <1>13, <2>6, <2>7
    <3> QED BY <1>4, <2>6, <3>1
  <2>9. P[i] = y
    BY <1>13, <2>5
  <2> HIDE DEF y
  <2>10. ASSUME i = 1 PROVE first = <<y>>
    <3>1. own \subseteq {2} /\ (own # {} => N >= 2)
      BY <1>11, <1>12, <2>3, <2>5, <2>10
    <3>2. left = <<y>> \/ \E z : left = <<y, z>>
      <4>1. CASE own = {}
        BY <1>10, <1>11, <2>6, <2>9, <2>10, <4>1
      <4>2. CASE own # {}
        <5>1. own = {2} /\ pairs = <<y, P[2]>>
          BY <1>11, <2>9, <2>10, <3>1, <4>2
        <5> QED BY <1>10, <5>1, RemovedAre
      <4> QED BY <4>1, <4>2
    <3> QED BY <3>2, FirstOfFew DEF first
  <2>11. ASSUME i = 2 PROVE first = <<y>>
    <3>1. s[1] = c /\ s[2] # c /\ N >= 2
      BY <1>11, <2>3, <2>5, <2>6, <2>7, <2>11
    <3>2. own = {1}
      BY <1>11, <1>12, <3>1
    <3>3. pairs = <<P[1], y>>
      BY <1>11, <2>9, <2>11, <3>1
    <3>4. left = <<y>>
      BY <1>10, <3>2, <3>3, RemovedAre
    <3> QED BY <3>4, FirstOfFew DEF first
  <2>12. first = <<y>>
    BY <2>8, <2>10, <2>11
  <2>13. First(Q, 1) = <<y>>
    BY <1>6, <1>8, <1>15, <2>1 DEF y
  <2> QED BY <2>12, <2>13 DEF same
<1>16. same
  BY <1>6, <1>14, <1>15
<1> QED BY <1>16 DEF same, first, left, pairs, P, Q

\* The k most alike of some concepts.
Chosen(ids, sim, k) == IF k <= 0 THEN <<>> ELSE First(Ranked(ids, sim), k)

\* What the statement of nearest() selects, by whatever tells the same similarity.
LEMMA ClosestIs ==
  ASSUME NEW ids, ids \subseteq Concepts, NEW w, NEW k, NEW sim,
         \A c \in ids : sim[c] \in Int /\ sim[c] = Alike[pg.vector[c]][w]
  PROVE  Pg!Closest(pg, ids, w, k) = Chosen(ids, sim, k)
<1> DEFINE distance == [c \in ids |-> -Alike[pg.vector[c]][w]]
           order == Closer(ids, sim)
<1>1. distance = Distance(ids, sim)
  BY DEF Distance
<1>2. RanksAll(ids, sim, Distance(ids, sim), order, Ranked(ids, sim))
  BY RankedIs
<1>3. Pg!ListedBy(distance) = order
  BY <1>1, SameListing DEF Closer
<1>4. Pg!Closest(pg, ids, w, k)
        = LET ordered == Pg!ListedBy(distance)
          IN  IF k <= 0 THEN <<>> ELSE First([n \in DOMAIN ordered |-> <<ordered[n], -distance[ordered[n]]>>], k)
  BY Zenon DEF Pg!Closest, Pg!First, First
<1>5. \A c \in ids : -distance[c] = sim[c]
  OBVIOUS
<1> HIDE DEF distance, order
<1>6. \A n \in DOMAIN order : order[n] \in ids
  BY <1>2 DEF RanksAll
<1>7. [n \in DOMAIN order |-> <<order[n], -distance[order[n]]>>] = [n \in DOMAIN order |-> <<order[n], sim[order[n]]>>]
  BY <1>5, <1>6
<1>8. Ranked(ids, sim) = [n \in DOMAIN order |-> <<order[n], sim[order[n]]>>]
  BY Zenon DEF Ranked, order
<1> QED BY <1>3, <1>4, <1>7, <1>8, Zenon DEF Chosen

\* What nearest() of the reference returns.
LEMMA NearestIs ==
  ASSUME NEW w, NEW o, NEW k,
         \A c \in DOMAIN ref.vector : Alike[w][ref.vector[c]] \in Int,
         DOMAIN ref.vector \subseteq Concepts
  PROVE  Memory!Nearest(ref, w, o, k)
           = Chosen({c \in DOMAIN ref.vector : Memory!InCourse(ref, c, o)},
                    [c \in DOMAIN ref.vector |-> Alike[w][ref.vector[c]]], k)
<1> DEFINE known == {c \in DOMAIN ref.vector : Memory!InCourse(ref, c, o)}
           sim == [c \in DOMAIN ref.vector |-> Alike[w][ref.vector[c]]]
           similarity == [c \in known |-> Alike[w][ref.vector[c]]]
           scored == Memory!ListedBy([c \in known |-> -similarity[c]])
           order == Closer(known, similarity)
<1>1. Memory!Nearest(ref, w, o, k)
        = IF k <= 0 THEN <<>> ELSE First([n \in DOMAIN scored |-> <<scored[n], similarity[scored[n]]>>], k)
  BY Zenon DEF Memory!Nearest, Memory!First, First
<1>2. scored = order
  <2>1. [c \in known |-> -similarity[c]] = Distance(known, similarity)
    BY Zenon DEF Distance
  <2> QED BY <2>1, SameListing DEF Closer
<1>3. known \subseteq Concepts /\ \A c \in known : similarity[c] \in Int /\ similarity[c] = sim[c]
  OBVIOUS
<1> HIDE DEF known, sim, similarity
<1>4. Ranked(known, similarity) = Ranked(known, sim)
  BY <1>3, RankedAlike
<1>5. Ranked(known, similarity) = [n \in DOMAIN order |-> <<order[n], similarity[order[n]]>>]
  BY Zenon DEF Ranked
<1>6. Memory!Nearest(ref, w, o, k) = Chosen(known, sim, k)
  BY <1>1, <1>2, <1>4, <1>5, Zenon DEF Chosen
<1> QED BY <1>6 DEF known, sim

\* The vectors of both, while every concept is steady.
LEMMA VectorsAgree ==
  ASSUME AgreeInv, strayed = {}
  PROVE  /\ DOMAIN pg.vector = DOMAIN ref.vector /\ DOMAIN pg.vector \subseteq Concepts
         /\ \A c \in DOMAIN pg.vector : pg.vector[c] = ref.vector[c] /\ pg.vector[c] \in Docs
         /\ \A o : {c \in DOMAIN pg.vector : pg.concept[c].course = o}
                     = {c \in DOMAIN ref.vector : Memory!InCourse(ref, c, o)}
<1>1. Steady = Concepts
  BY AllSteady
<1>2. /\ SameOn(pg.vector, ref.vector, Steady) /\ DOMAIN pg.vector \subseteq DOMAIN pg.concept
      /\ DOMAIN pg.vector \subseteq Concepts /\ DOMAIN ref.vector \subseteq Concepts
      /\ \A c \in DOMAIN pg.vector : pg.vector[c] \in Docs
  BY DEF AgreeInv, Steadily, TablesTyped
<1>3. DOMAIN pg.vector = DOMAIN ref.vector /\ \A c \in DOMAIN pg.vector : pg.vector[c] = ref.vector[c]
  BY <1>1, <1>2 DEF SameOn
<1>4. ASSUME NEW o
      PROVE  {c \in DOMAIN pg.vector : pg.concept[c].course = o} = {c \in DOMAIN ref.vector : Memory!InCourse(ref, c, o)}
  <2>1. \A c \in DOMAIN pg.vector : pg.concept[c].course = o <=> Memory!InCourse(ref, c, o)
    BY <1>1, <1>2, SameCourse
  <2> QED BY <1>3, <2>1
<1> QED BY <1>2, <1>3, <1>4

LEMMA NeighboursAgree ==
  ASSUME AgreeInv
  PROVE  SameNeighbours
<1> SUFFICES ASSUME strayed = {}, NEW o \in Courses, NEW k \in {0, 1}
             PROVE  /\ \A d \in Docs : Pg!Nearest(pg, d, o, k) = Memory!Nearest(ref, d, o, k)
                    /\ \A c \in Concepts : Pg!NearestTo(pg, c, o, k) = Memory!NearestTo(ref, c, o, k)
  BY DEF SameNeighbours
<1>1. \A d, e \in Docs : Alike[d][e] \in Int /\ Alike[d][e] = Alike[e][d]
  BY StoreConstants
<1> DEFINE inPg == {c \in DOMAIN pg.vector : pg.concept[c].course = o}
           ids == {c \in DOMAIN ref.vector : Memory!InCourse(ref, c, o)}
           to(w) == [c \in DOMAIN ref.vector |-> Alike[w][ref.vector[c]]]
<1>2. /\ DOMAIN pg.vector = DOMAIN ref.vector /\ DOMAIN pg.vector \subseteq Concepts
      /\ \A c \in DOMAIN pg.vector : pg.vector[c] = ref.vector[c] /\ pg.vector[c] \in Docs
      /\ inPg = ids
  BY VectorsAgree
<1>3. ids \subseteq DOMAIN ref.vector /\ ids \subseteq Concepts
  BY <1>2
<1>4. ASSUME NEW w \in Docs
      PROVE  \A c \in DOMAIN ref.vector : to(w)[c] \in Int /\ to(w)[c] = Alike[pg.vector[c]][w]
  BY <1>1, <1>2
<1>5. ASSUME NEW w \in Docs, NEW n
      PROVE  Memory!Nearest(ref, w, o, n) = Chosen(ids, to(w), n)
  BY <1>1, <1>2, NearestIs
<1>6. ASSUME NEW w \in Docs PROVE Pg!Nearest(pg, w, o, k) = Memory!Nearest(ref, w, o, k)
  <2>1. Pg!Nearest(pg, w, o, k) = Pg!Closest(pg, inPg, w, k)
    BY Zenon DEF Pg!Nearest
  <2> DEFINE sim == to(w)
  <2>2. \A c \in ids : sim[c] \in Int /\ sim[c] = Alike[pg.vector[c]][w]
    BY <1>3, <1>4
  <2>3. Memory!Nearest(ref, w, o, k) = Chosen(ids, sim, k)
    BY <1>5
  <2> HIDE DEF sim, ids, inPg
  <2>4. Pg!Closest(pg, ids, w, k) = Chosen(ids, sim, k)
    BY <1>3, <2>2, ClosestIs, Zenon
  <2> QED BY <1>2, <2>1, <2>3, <2>4
<1>7. ASSUME NEW c \in Concepts PROVE Pg!NearestTo(pg, c, o, k) = Memory!NearestTo(ref, c, o, k)
  <2> DEFINE w == ref.vector[c]
             sim == to(w)
             others == {d \in DOMAIN pg.vector : pg.concept[d].course = o /\ d # c}
             pairs == Memory!Nearest(ref, w, o, k + 1)
             left == OwnTaken(pairs, c)
  <2>1. Pg!NearestTo(pg, c, o, k) = IF c \notin DOMAIN pg.vector THEN <<>> ELSE Pg!Closest(pg, others, pg.vector[c], k)
    BY Zenon DEF Pg!NearestTo
  <2>2. Memory!NearestTo(ref, c, o, k) = IF c \notin DOMAIN ref.vector \/ k <= 0 THEN <<>> ELSE First(left, k)
    BY Zenon DEF Memory!NearestTo, Memory!First, First, Memory!RemoveAt, RemoveAt, OwnTaken
  <2>3. CASE c \notin DOMAIN ref.vector
    BY <1>2, <2>1, <2>2, <2>3
  <2>4. CASE c \in DOMAIN ref.vector
    <3>1. w \in Docs /\ pg.vector[c] = w
      BY <1>2, <2>4
    <3>2. others = ids \ {c}
      BY <1>2
    <3>3. \A d \in ids : sim[d] \in Int /\ sim[d] = Alike[pg.vector[d]][w]
      BY <1>3, <1>4, <3>1
    <3>4. pairs = Chosen(ids, sim, k + 1)
      BY <1>5, <3>1
    <3> DEFINE rest == ids \ {c}
    <3> HIDE DEF sim, ids, inPg, others, w
    <3>5. Pg!Closest(pg, rest, w, k) = Chosen(rest, sim, k)
      <4>1. rest \subseteq Concepts /\ \A d \in rest : sim[d] \in Int /\ sim[d] = Alike[pg.vector[d]][w]
        BY <1>3, <3>3
      <4> HIDE DEF rest
      <4> QED BY <4>1, ClosestIs, Zenon
    <3>6. k = 0 \/ k = 1
      OBVIOUS
    <3>7. CASE k = 0
      BY <2>1, <2>2, <2>4, <1>2, <3>1, <3>2, <3>5, <3>7 DEF Chosen
    <3>8. CASE k = 1
      <4>1. First(left, 1) = First(Ranked(rest, sim), 1)
        <5>1. pairs = First(Ranked(ids, sim), 2)
          BY <3>4, <3>8 DEF Chosen
        <5>2. \A d \in ids : sim[d] \in Int
          BY <3>3
        <5>3. First(OwnTaken(First(Ranked(ids, sim), 2), c), 1) = First(Ranked(ids \ {c}, sim), 1)
          BY <1>3, <5>2, WithoutOwn
        <5> QED BY <5>1, <5>3 DEF rest
      <4> HIDE DEF left
      <4> QED BY <1>2, <2>1, <2>2, <2>4, <3>1, <3>2, <3>5, <3>8, <4>1 DEF Chosen
    <3> QED BY <3>6, <3>7, <3>8
  <2> QED BY <2>3, <2>4
<1> QED BY <1>6, <1>7

\* The database answers every query as the reference does, except about
\* concepts that a foreign key has treated differently.
THEOREM AdaptersAgreeHolds == Spec => []AdaptersAgree
<1>1. Typed /\ AgreeInv => AdaptersAgree
  BY ConceptsAgree, NeighboursAgree, EdgesAgree, QuestionsAgree, LearnerStatesAgree, EventsAgree, NotesAgree
  DEF AdaptersAgree
<1> QED BY <1>1, DeskInvariant, PTL
=============================================================================

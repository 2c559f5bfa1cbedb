------------------------------ MODULE FireProofs ------------------------------
(***************************************************************************)
(* Proofs about Fire: on any graph, cyclic ones included, and for any order  *)
(* of the rows of its queries, the walk keeps its depth cap and its cycle     *)
(* guard, and what propagate() returns is the closed form Credit that the     *)
(* modules of the service use.                                              *)
(***************************************************************************)
EXTENDS Fire, CourseGraphLemmas, FiniteSetTheorems

---------------------------------------------------------------------------
\* The inductive invariant

FirstHop ==
  {e \in EncompassesOut(edges, event.concept) :
      e.dst # event.concept /\ LinkRating(edges[e], 1) # AGAIN}

SecondHop(e) ==
  {f \in EncompassesOut(edges, e.dst) :
      f.dst \notin {event.concept, f.src} /\ LinkRating(edges[f], 2) # AGAIN}

\* The links an activation has not looked at yet.
Left(i) == IF i \in DOMAIN stack THEN stack[i].left ELSE {}

\* The walk is of a pass, starts at the origin, and is never three hops deep
\* with anything to credit: the ratings have decayed by then.
WellPlaced ==
  /\ Len(stack) <= 3
  /\ stack # <<>> => /\ event.rating >= GOOD
                     /\ stack[1].at = event.concept /\ stack[1].path = {event.concept}
  /\ Len(stack) >= 2 => \E e \in FirstHop \ stack[1].left :
                           stack[2].at = e.dst /\ stack[2].path = {event.concept, e.dst}
  /\ \A i \in DOMAIN stack :
        /\ stack[i].left \subseteq EncompassesOut(edges, stack[i].at)
        /\ stack[i].hops >= maxDepth => stack[i].left = {}

\* What is emitted is of the closed form.
Sound == Emitted \subseteq Emissions(edges, event.concept, event.rating)

\* A link that is worth a rating and was left behind has emitted it, and so has
\* every link of its target, but those the walk of that target still has left.
FirstHopCredited ==
  \A e \in FirstHop \ Left(1) : <<e.dst, LinkRating(edges[e], 1)>> \in Emitted

SecondHopCredited ==
  \A e \in FirstHop \ Left(1) : \A f \in SecondHop(e) \ Left(2) :
     <<f.dst, LinkRating(edges[f], 2)>> \in Emitted

Complete ==
  event.rating >= GOOD /\ maxDepth >= 2 => FirstHopCredited /\ SecondHopCredited

\* The dict holds the strongest rating so far of every concept but the origin,
\* and the loop that fills it starts when everything is emitted.
Folded ==
  /\ DOMAIN best = {emissions[i][1] : i \in 1 .. folded} \ {event.concept}
  /\ \A x \in DOMAIN best : \E i \in 1 .. folded : emissions[i] = <<x, best[x]>>
  /\ \A i \in 1 .. folded : emissions[i][1] # event.concept => emissions[i][2] <= best[emissions[i][1]]
  /\ folded > 0 \/ done => Collected
  /\ done => folded = Len(emissions)

IInv == TypeOK /\ WellPlaced /\ Sound /\ Complete /\ Folded

---------------------------------------------------------------------------
\* What the walk computes, and what it is built from

\* The rating of the walk is the rating of the closed form, and the third hop
\* is worth nothing.
LEMMA WalkRating ==
  ASSUME NEW row \in EdgeRow
  PROVE  /\ \A hop \in {1, 2} :
              LinkRating(row, hop) = IF DownRating(row) = AGAIN THEN AGAIN ELSE Discounted(DownRating(row), hop)
         /\ DownRating(row) = AGAIN \/ Discounted(DownRating(row), 3) = AGAIN
BY DEF LinkRating, DownRating, Discounted, EdgeRow, Weights, AGAIN, HARD, GOOD

LEMMA DirectlyEmitted ==
  ASSUME event.rating >= GOOD, NEW e \in FirstHop
  PROVE  <<e.dst, LinkRating(edges[e], 1)>> \in Emissions(edges, event.concept, event.rating)
BY DEF FirstHop, Emissions

LEMMA IndirectlyEmitted ==
  ASSUME event.rating >= GOOD, NEW e \in FirstHop, NEW f \in SecondHop(e)
  PROVE  <<f.dst, LinkRating(edges[f], 2)>> \in Emissions(edges, event.concept, event.rating)
BY DEF FirstHop, SecondHop, Emissions

\* The closed form has nothing else for a pass.
LEMMA EmissionsOfPass ==
  ASSUME event.rating >= GOOD, NEW m \in Emissions(edges, event.concept, event.rating)
  PROVE  \/ \E e \in FirstHop : m = <<e.dst, LinkRating(edges[e], 1)>>
         \/ \E e \in FirstHop : \E f \in SecondHop(e) : m = <<f.dst, LinkRating(edges[f], 2)>>
BY DEF FirstHop, SecondHop, Emissions

LEMMA EmittedAppend ==
  ASSUME emissions \in Seq(Concepts \X Rating), NEW m \in Concepts \X Rating, emissions' = Append(emissions, m)
  PROVE  /\ emissions' \in Seq(Concepts \X Rating) /\ Len(emissions') = Len(emissions) + 1
         /\ Emitted' = Emitted \cup {m}
         /\ \A i \in DOMAIN emissions : emissions'[i] = emissions[i]
<1>1. /\ emissions' \in Seq(Concepts \X Rating) /\ Len(emissions') = Len(emissions) + 1
      /\ DOMAIN emissions = 1 .. Len(emissions) /\ DOMAIN emissions' = 1 .. Len(emissions')
      /\ \A i \in DOMAIN emissions : emissions'[i] = emissions[i]
      /\ emissions'[Len(emissions) + 1] = m
  OBVIOUS
<1>2. Len(emissions) \in Nat
  OBVIOUS
<1>3. Emitted' = {emissions'[i] : i \in DOMAIN emissions'}
  BY DEF Emitted
<1>4. \A i \in DOMAIN emissions' : i \in DOMAIN emissions \/ i = Len(emissions) + 1
  BY <1>1, <1>2
<1>5. DOMAIN emissions \cup {Len(emissions) + 1} \subseteq DOMAIN emissions'
  BY <1>1, <1>2
<1>6. Emitted' = Emitted \cup {m}
  BY <1>1, <1>3, <1>4, <1>5 DEF Emitted
<1> QED BY <1>1, <1>6

LEMMA Activations ==
  ASSUME TypeOK
  PROVE  /\ Len(stack) \in Nat /\ DOMAIN stack = 1 .. Len(stack) /\ stack \in Seq(Activation)
         /\ stack # <<>> => Len(stack) \in DOMAIN stack
         /\ \A i \in DOMAIN stack :
               /\ stack[i] \in Activation
               /\ stack[i].path \subseteq Concepts /\ IsFiniteSet(stack[i].path)
               /\ stack[i].left \subseteq DOMAIN edges
<1>1. stack \in Seq(Activation)
  BY DEF TypeOK
<1>2. /\ Len(stack) \in Nat /\ DOMAIN stack = 1 .. Len(stack)
      /\ stack # <<>> => Len(stack) \in DOMAIN stack
      /\ \A i \in DOMAIN stack : stack[i] \in Activation
  BY <1>1
<1>3. ASSUME NEW i \in DOMAIN stack
      PROVE  stack[i].path \subseteq Concepts /\ stack[i].left \subseteq DOMAIN edges
  <2>1. stack[i] \in Activation
    BY <1>2
  <2> QED BY <2>1 DEF Activation
<1> QED BY <1>1, <1>2, <1>3, ConceptsFinite, FS_Subset

\* The links of a concept are links of the graph.
LEMMA OutEdges ==
  ASSUME EdgeTable(edges), NEW c, NEW e \in EncompassesOut(edges, c)
  PROVE  e \in DOMAIN edges /\ edges[e] \in EdgeRow /\ e.src = c /\ e.dst \in Concepts
BY DEF EncompassesOut, EdgeTable, EdgeKeys

LEMMA FrameTyped ==
  ASSUME EdgeTable(edges), NEW c \in Concepts, NEW hops \in Nat, NEW path \in SUBSET Concepts
  PROVE  /\ Frame(c, hops, path) \in Activation
         /\ Frame(c, hops, path).at = c /\ Frame(c, hops, path).hops = hops
         /\ Frame(c, hops, path).path = path
         /\ Frame(c, hops, path).left = IF hops >= maxDepth THEN {} ELSE EncompassesOut(edges, c)
<1>1. EncompassesOut(edges, c) \subseteq DOMAIN edges
  BY DEF EncompassesOut
<1> QED BY <1>1 DEF Frame, Activation

---------------------------------------------------------------------------
\* Steps of the walk

\* While the walk is on, nothing is folded.
LEMMA NothingFolded ==
  ASSUME IInv, ~Collected
  PROVE  folded = 0 /\ ~done /\ DOMAIN best = {}
BY DEF IInv, TypeOK, Folded

\* What the loop of _dedup has built stays right when it is not running.
LEMMA FoldingKept ==
  ASSUME IInv, UNCHANGED <<Called, Folding>>, ~Collected,
         emissions' \in Seq(Concepts \X Rating)
  PROVE  Folded' /\ (folded \in 0 .. Len(emissions))'
         /\ (DOMAIN best \subseteq Concepts)' /\ (best \in [DOMAIN best -> Rating])' /\ done' \in BOOLEAN
<1>1. folded = 0 /\ ~done /\ DOMAIN best = {} /\ UNCHANGED <<folded, best, done>>
  BY NothingFolded DEF Folding
<1>2. 1 .. folded' = {}
  BY <1>1
<1>3. Folded'
  BY <1>1, <1>2 DEF Folded
<1> QED BY <1>1, <1>3 DEF IInv, TypeOK

\* The link an activation of the walk looks at leaves the concept it is at.
LEMMA LinkInHand ==
  ASSUME IInv, Walking, NEW e \in Top.left
  PROVE  /\ Len(stack) \in Nat /\ Len(stack) >= 1 /\ Len(stack) <= 3 /\ Top = stack[Len(stack)]
         /\ e \in EncompassesOut(edges, Top.at) /\ edges[e] \in EdgeRow /\ e.src = Top.at
         /\ e \in DOMAIN edges /\ e.dst \in Concepts
         /\ Top.hops = Len(stack) - 1 /\ Top.hops < maxDepth
         /\ Len(stack) = 1 => Top.at = event.concept /\ Top.path = {event.concept}
         /\ Len(stack) = 2 => Top.path = {event.concept, Top.at}
<1>1. /\ Len(stack) \in DOMAIN stack /\ Len(stack) \in Nat /\ stack # <<>>
      /\ Len(stack) >= 1 /\ Len(stack) <= 3
  BY Activations DEF Walking, IInv, WellPlaced
<1>2. Top = stack[Len(stack)]
  BY DEF Top
<1>3. e \in EncompassesOut(edges, Top.at) /\ ~(Top.hops >= maxDepth)
  BY <1>1, <1>2 DEF IInv, WellPlaced
<1>4. edges[e] \in EdgeRow /\ e.src = Top.at /\ e \in DOMAIN edges /\ e.dst \in Concepts
  BY <1>3, OutEdges DEF IInv, TypeOK
<1>5. Top.hops = Len(stack) - 1 /\ maxDepth \in Nat
  BY <1>1, <1>2, MaxDepthsType DEF IInv, TypeOK
<1>6. Len(stack) = 1 => Top.at = event.concept /\ Top.path = {event.concept}
  BY <1>1, <1>2 DEF IInv, WellPlaced
<1>7. Len(stack) = 2 => Top.path = {event.concept, Top.at}
  BY <1>1, <1>2 DEF IInv, WellPlaced
<1>8. Top.hops < maxDepth
  BY <1>1, <1>3, <1>5
<1> QED BY <1>1, <1>2, <1>3, <1>4, <1>5, <1>6, <1>7, <1>8

\* A link the walk prunes has no place in the closed form.
LEMMA PrunedIsWorthless ==
  ASSUME IInv, NEW e \in DOMAIN edges, Prune(e)
  PROVE  /\ Len(stack) = 1 => e \notin FirstHop
         /\ Len(stack) = 2 => \A e1 \in FirstHop : e \notin SecondHop(e1)
<1>1. Walking /\ e \in Top.left
  BY DEF Prune
<1>2. /\ Len(stack) \in Nat /\ Len(stack) >= 1 /\ Len(stack) <= 3 /\ edges[e] \in EdgeRow /\ e.src = Top.at /\ Top.hops = Len(stack) - 1
      /\ Len(stack) = 1 => Top.path = {event.concept}
      /\ Len(stack) = 2 => Top.path = {event.concept, Top.at}
  BY <1>1, LinkInHand
<1>3. e.dst \in Top.path \/ DownRating(edges[e]) = AGAIN \/ Discounted(DownRating(edges[e]), Top.hops + 1) = AGAIN
  BY DEF Prune
<1>4. ASSUME Len(stack) = 1
      PROVE  e \notin FirstHop
  <2>1. e.dst = event.concept \/ LinkRating(edges[e], 1) = AGAIN
    BY <1>2, <1>3, <1>4, WalkRating
  <2> QED BY <2>1 DEF FirstHop
<1>5. ASSUME Len(stack) = 2, NEW e1 \in FirstHop
      PROVE  e \notin SecondHop(e1)
  <2>1. e.dst \in {event.concept, e.src} \/ LinkRating(edges[e], 2) = AGAIN
    BY <1>2, <1>3, <1>5, WalkRating
  <2> QED BY <2>1 DEF SecondHop
<1> QED BY <1>4, <1>5

LEMMA PruneKeeps ==
  ASSUME IInv, NEW e \in DOMAIN edges, Prune(e)
  PROVE  IInv'
<1> DEFINE n == Len(stack)
<1>0. /\ EdgeTable(edges) /\ maxDepth \in Nat /\ event.concept \in Concepts
      /\ event \in [concept : Concepts, rating : Rating]
  BY MaxDepthsType DEF IInv, TypeOK
<1>1. UNCHANGED <<edges, maxDepth, event, emissions, folded, best, done>>
  BY DEF Prune, Called, Folding
<1>2. /\ n \in DOMAIN stack /\ n \in Nat /\ DOMAIN stack = 1 .. n /\ stack \in Seq(Activation)
      /\ stack[n] \in Activation /\ stack[n].left \subseteq DOMAIN edges
  BY Activations DEF Prune, Walking, IInv
<1> DEFINE f == [stack[n] EXCEPT !.left = @ \ {e}]
<1>3. /\ f \in Activation /\ f.at = stack[n].at /\ f.hops = stack[n].hops /\ f.path = stack[n].path
      /\ f.left = stack[n].left \ {e}
  BY <1>2 DEF Activation
<1>4. stack' = [stack EXCEPT ![n] = f]
  BY DEF Prune
<1> HIDE DEF f
<1>5. /\ stack' \in Seq(Activation) /\ Len(stack') = n /\ DOMAIN stack' = DOMAIN stack
      /\ stack'[n] = f /\ \A i \in DOMAIN stack \ {n} : stack'[i] = stack[i]
  BY <1>2, <1>3, <1>4
<1>6. \A i \in DOMAIN stack :
        /\ stack'[i].at = stack[i].at /\ stack'[i].hops = stack[i].hops /\ stack'[i].path = stack[i].path
        /\ stack'[i].left = IF i = n THEN stack[i].left \ {e} ELSE stack[i].left
  BY <1>3, <1>5
<1>7. stack # <<>> /\ stack' # <<>>
  BY <1>2, <1>5
<1>8. Folded' /\ (folded \in 0 .. Len(emissions))'
         /\ (DOMAIN best \subseteq Concepts)' /\ (best \in [DOMAIN best -> Rating])' /\ done' \in BOOLEAN
  BY <1>1, <1>7, FoldingKept DEF Collected, IInv, TypeOK, Called, Folding
<1>9. TypeOK'
  <2>1. Activation' = Activation
    BY <1>1 DEF Activation
  <2>2. n <= maxDepth + 1 /\ \A i \in DOMAIN stack : stack[i].hops = i - 1 /\ Cardinality(stack[i].path) = i
    BY DEF IInv, TypeOK
  <2>3. (Len(stack) <= maxDepth + 1)' /\ (stack \in Seq(Activation))'
        /\ (\A i \in DOMAIN stack : stack[i].hops = i - 1 /\ Cardinality(stack[i].path) = i)'
    BY <1>1, <1>5, <1>6, <2>1, <2>2
  <2>4. (/\ EdgeTable(edges) /\ maxDepth \in MaxDepths /\ event \in [concept : Concepts, rating : Rating]
         /\ emissions \in Seq(Concepts \X Rating))'
    BY <1>1 DEF IInv, TypeOK
  <2> QED BY <1>8, <2>3, <2>4 DEF TypeOK
<1>10. WellPlaced'
  <2>1. Len(stack') = Len(stack) /\ Len(stack) <= 3
    BY <1>5 DEF IInv, WellPlaced
  <2>2. FirstHop' = FirstHop
    BY <1>1 DEF FirstHop
  <2>3. 1 \in DOMAIN stack /\ event.rating >= GOOD /\ stack[1].at = event.concept /\ stack[1].path = {event.concept}
    BY <1>2, <1>7 DEF IInv, WellPlaced
  <2>4. event'.rating >= GOOD /\ stack'[1].at = event'.concept /\ stack'[1].path = {event'.concept}
    BY <1>1, <1>6, <2>3
  <2>5. ASSUME Len(stack') >= 2
        PROVE  \E e1 \in FirstHop' \ stack'[1].left : stack'[2].at = e1.dst /\ stack'[2].path = {event'.concept, e1.dst}
    <3>1. PICK e1 \in FirstHop \ stack[1].left : stack[2].at = e1.dst /\ stack[2].path = {event.concept, e1.dst}
      BY <2>1, <2>5 DEF IInv, WellPlaced
    <3>2. 2 \in DOMAIN stack
      BY <1>2, <2>1, <2>5
    <3>3. stack'[1].left \subseteq stack[1].left
      BY <1>6, <2>3
    <3> QED BY <1>1, <1>6, <2>2, <3>1, <3>2, <3>3
  <2>6. ASSUME NEW i \in DOMAIN stack'
        PROVE  /\ stack'[i].left \subseteq EncompassesOut(edges', stack'[i].at)
               /\ stack'[i].hops >= maxDepth' => stack'[i].left = {}
    <3>1. /\ stack[i].left \subseteq EncompassesOut(edges, stack[i].at)
          /\ stack[i].hops >= maxDepth => stack[i].left = {}
      BY <1>5 DEF IInv, WellPlaced
    <3>2. stack'[i].at = stack[i].at /\ stack'[i].hops = stack[i].hops /\ stack'[i].left \subseteq stack[i].left
      BY <1>5, <1>6
    <3> QED BY <1>1, <3>1, <3>2
  <2> QED BY <2>1, <2>4, <2>5, <2>6 DEF WellPlaced
<1>11. Sound'
  BY <1>1 DEF IInv, Sound, Emitted
<1>12. Complete'
  <2> SUFFICES ASSUME event.rating >= GOOD, maxDepth >= 2
               PROVE  (FirstHopCredited /\ SecondHopCredited)'
    BY <1>1 DEF Complete
  <2>1. FirstHopCredited /\ SecondHopCredited
    BY DEF IInv, Complete
  <2>2. FirstHop' = FirstHop /\ Emitted' = Emitted
    BY <1>1 DEF FirstHop, Emitted
  <2>3. \A e1 : SecondHop(e1)' = SecondHop(e1)
    BY <1>1 DEF SecondHop
  <2>4. FirstHop \ Left(1)' = FirstHop \ Left(1)
    BY <1>2, <1>5, <1>6, PrunedIsWorthless DEF Left
  <2>5. \A e1 \in FirstHop : SecondHop(e1) \ Left(2)' = SecondHop(e1) \ Left(2)
    BY <1>2, <1>5, <1>6, PrunedIsWorthless DEF Left
  <2>6. FirstHopCredited'
    BY <1>1, <2>1, <2>2, <2>4 DEF FirstHopCredited
  <2>7. SecondHopCredited'
    BY <1>1, <2>1, <2>2, <2>3, <2>4, <2>5 DEF SecondHopCredited
  <2> QED BY <2>6, <2>7
<1> QED BY <1>8, <1>9, <1>10, <1>11, <1>12 DEF IInv

LEMMA AscendKeeps ==
  ASSUME IInv, Ascend
  PROVE  IInv'
<1> DEFINE n == Len(stack)
<1>1. UNCHANGED <<edges, maxDepth, event, emissions, folded, best, done>>
  BY DEF Ascend, Called, Folding
<1>2. /\ n \in DOMAIN stack /\ n \in Nat /\ DOMAIN stack = 1 .. n /\ stack \in Seq(Activation)
      /\ stack # <<>> /\ n <= 3 /\ n >= 1
  BY Activations DEF Ascend, Walking, IInv, WellPlaced
<1>3. stack' = SubSeq(stack, 1, n - 1) /\ stack[n].left = {}
  BY DEF Ascend, Top
<1>4. /\ stack' \in Seq(Activation) /\ Len(stack') = n - 1 /\ DOMAIN stack' = 1 .. n - 1
      /\ \A i \in 1 .. n - 1 : stack'[i] = stack[i]
  BY <1>2, <1>3
<1>5. Folded' /\ (folded \in 0 .. Len(emissions))'
         /\ (DOMAIN best \subseteq Concepts)' /\ (best \in [DOMAIN best -> Rating])' /\ done' \in BOOLEAN
  BY <1>1, <1>2, FoldingKept DEF Collected, IInv, TypeOK, Called, Folding
<1>6. TypeOK'
  <2>1. Activation' = Activation
    BY <1>1 DEF Activation
  <2>2. maxDepth \in Nat /\ n <= maxDepth + 1
        /\ \A i \in DOMAIN stack : stack[i].hops = i - 1 /\ Cardinality(stack[i].path) = i
    BY MaxDepthsType DEF IInv, TypeOK
  <2>3. (Len(stack) <= maxDepth + 1)' /\ (stack \in Seq(Activation))'
    BY <1>1, <1>2, <1>4, <2>1, <2>2
  <2>4. (\A i \in DOMAIN stack : stack[i].hops = i - 1 /\ Cardinality(stack[i].path) = i)'
    BY <1>2, <1>4, <2>2
  <2>5. (/\ EdgeTable(edges) /\ maxDepth \in MaxDepths /\ event \in [concept : Concepts, rating : Rating]
         /\ emissions \in Seq(Concepts \X Rating))'
    BY <1>1 DEF IInv, TypeOK
  <2> QED BY <1>5, <2>3, <2>4, <2>5 DEF TypeOK
<1>7. WellPlaced'
  <2>1. Len(stack') <= 3
    BY <1>2, <1>4
  <2>2. ASSUME stack' # <<>>
        PROVE  event'.rating >= GOOD /\ stack'[1].at = event'.concept /\ stack'[1].path = {event'.concept}
    <3>1. 1 \in 1 .. n - 1
      BY <1>2, <1>4, <2>2
    <3> QED BY <1>1, <1>2, <1>4, <3>1 DEF IInv, WellPlaced
  <2>3. ASSUME Len(stack') >= 2
        PROVE  (\E e1 \in FirstHop \ stack[1].left : stack[2].at = e1.dst /\ stack[2].path = {event.concept, e1.dst})'
    <3>1. n >= 2 /\ 1 \in 1 .. n - 1 /\ 2 \in 1 .. n - 1
      BY <1>2, <1>4, <2>3
    <3> QED BY <1>1, <1>4, <3>1 DEF IInv, WellPlaced, FirstHop
  <2>4. (\A i \in DOMAIN stack :
           /\ stack[i].left \subseteq EncompassesOut(edges, stack[i].at)
           /\ stack[i].hops >= maxDepth => stack[i].left = {})'
    BY <1>1, <1>2, <1>4 DEF IInv, WellPlaced
  <2> QED BY <2>1, <2>2, <2>3, <2>4 DEF WellPlaced
<1>8. Sound'
  BY <1>1 DEF IInv, Sound, Emitted
<1>9. Complete'
  <2>1. ASSUME NEW i \in Nat
        PROVE  Left(i)' = Left(i)
    <3>1. CASE i \in 1 .. n - 1
      BY <1>2, <1>4, <3>1 DEF Left
    <3>2. CASE i = n
      BY <1>2, <1>3, <1>4, <3>2 DEF Left
    <3>3. CASE i \notin 1 .. n
      BY <1>2, <1>4, <3>3 DEF Left
    <3>4. \A k \in Nat : i \in 1 .. k => i \in 1 .. k - 1 \/ i = k
      OBVIOUS
    <3> QED BY <1>2, <3>1, <3>2, <3>3, <3>4
  <2>2. FirstHop' = FirstHop /\ Emitted' = Emitted /\ \A e1 : SecondHop(e1)' = SecondHop(e1)
    BY <1>1 DEF FirstHop, SecondHop, Emitted
  <2>3. FirstHopCredited' <=> FirstHopCredited
    BY <1>1, <2>1, <2>2 DEF FirstHopCredited
  <2>4. SecondHopCredited' <=> SecondHopCredited
    BY <1>1, <2>1, <2>2 DEF SecondHopCredited
  <2> QED BY <1>1, <2>3, <2>4 DEF IInv, Complete
<1> QED BY <1>5, <1>6, <1>7, <1>8, <1>9 DEF IInv

\* What descending along e emits.
Rated(e) == Discounted(DownRating(edges[e]), Top.hops + 1)

LEMMA DescendEmits ==
  ASSUME IInv, NEW e \in DOMAIN edges, Descend(e)
  PROVE  /\ Len(stack) \in Nat /\ (Len(stack) = 1 \/ Len(stack) = 2)
         /\ e.dst \in Concepts /\ e.dst \notin Top.path
         /\ Rated(e) \in Rating /\ Rated(e) # AGAIN
         /\ Len(stack) = 1 => e \in FirstHop /\ Rated(e) = LinkRating(edges[e], 1)
         /\ Len(stack) = 2 => \E e1 \in FirstHop \ stack[1].left :
                                 stack[2].at = e1.dst /\ e \in SecondHop(e1) /\ Rated(e) = LinkRating(edges[e], 2)
<1>1. Walking /\ e \in Top.left /\ e.dst \notin Top.path /\ DownRating(edges[e]) # AGAIN /\ Rated(e) # AGAIN
  BY DEF Descend, Rated
<1>2. /\ Len(stack) \in Nat /\ Len(stack) >= 1 /\ Len(stack) <= 3 /\ edges[e] \in EdgeRow /\ e.src = Top.at /\ Top.hops = Len(stack) - 1
      /\ e \in EncompassesOut(edges, Top.at) /\ e.dst \in Concepts /\ Top = stack[Len(stack)]
      /\ Len(stack) = 1 => Top.at = event.concept /\ Top.path = {event.concept}
      /\ Len(stack) = 2 => Top.path = {event.concept, Top.at}
  BY <1>1, LinkInHand
<1>3. Len(stack) # 3
  <2>1. Len(stack) = 3 => Top.hops + 1 = 3
    BY <1>2
  <2>2. Discounted(DownRating(edges[e]), 3) = AGAIN
    BY <1>1, <1>2, WalkRating
  <2> QED BY <1>1, <2>1, <2>2 DEF Rated
<1>4. Len(stack) = 1 => Rated(e) = LinkRating(edges[e], 1)
  BY <1>1, <1>2, WalkRating DEF Rated
<1>5. Len(stack) = 2 => Rated(e) = LinkRating(edges[e], 2)
  BY <1>1, <1>2, WalkRating DEF Rated
<1>6. Len(stack) \in Nat /\ (Len(stack) = 1 \/ Len(stack) = 2)
  <2>1. \A k \in Nat : k >= 1 /\ k <= 3 /\ k # 3 => k = 1 \/ k = 2
    OBVIOUS
  <2> QED BY <1>2, <1>3, <2>1
<1>7. Rated(e) \in Rating
  <2>1. LinkRating(edges[e], 1) \in Rating /\ LinkRating(edges[e], 2) \in Rating
    BY <1>2, LinkRatingTyped
  <2> QED BY <1>4, <1>5, <1>6, <2>1
<1>8. Len(stack) = 1 => e \in FirstHop
  BY <1>1, <1>2, <1>4 DEF FirstHop
<1>9. ASSUME Len(stack) = 2
      PROVE  \E e1 \in FirstHop \ stack[1].left : stack[2].at = e1.dst /\ e \in SecondHop(e1)
  <2>1. PICK e1 \in FirstHop \ stack[1].left : stack[2].at = e1.dst
    BY <1>9 DEF IInv, WellPlaced
  <2>2. e \in SecondHop(e1)
    BY <1>1, <1>2, <1>5, <1>9, <2>1 DEF SecondHop
  <2> QED BY <2>1, <2>2
<1> QED BY <1>1, <1>2, <1>4, <1>5, <1>6, <1>7, <1>8, <1>9

LEMMA ReplaceTopAndPush ==
  ASSUME NEW S, NEW seq \in Seq(S), NEW n \in Nat, n = Len(seq), n = 1 \/ n = 2,
         NEW f \in S, NEW g \in S, NEW pushed, pushed = Append([seq EXCEPT ![n] = f], g)
  PROVE  /\ pushed \in Seq(S) /\ Len(pushed) = n + 1 /\ DOMAIN pushed = 1 .. n + 1
         /\ pushed[n + 1] = g /\ pushed[n] = f
         /\ \A i \in 1 .. n : i # n => pushed[i] = seq[i]
<1> DEFINE top == [seq EXCEPT ![n] = f]
<1>1. /\ top \in Seq(S) /\ Len(top) = n /\ top[n] = f /\ n \in 1 .. n
      /\ \A i \in 1 .. n : i # n => top[i] = seq[i]
  OBVIOUS
<1>0. pushed = Append(top, g)
  OBVIOUS
<1> HIDE DEF top
<1>2. /\ pushed \in Seq(S) /\ Len(pushed) = n + 1 /\ pushed[n + 1] = g
      /\ \A i \in 1 .. n : pushed[i] = top[i]
  BY <1>0, <1>1
<1>3. DOMAIN pushed = 1 .. n + 1
  BY <1>2
<1>4. \A i \in 1 .. n : i # n => pushed[i] = seq[i]
  BY <1>1, <1>2
<1>5. pushed[n] = f
  BY <1>1, <1>2
<1> QED BY <1>2, <1>3, <1>4, <1>5

LEMMA DescendKeeps ==
  ASSUME IInv, NEW e \in DOMAIN edges, Descend(e)
  PROVE  IInv'
<1> DEFINE n == Len(stack)
<1>1. UNCHANGED <<edges, maxDepth, event, folded, best, done>>
  BY DEF Descend, Called, Folding
<1>0. n = Len(stack) /\ n \in Nat /\ (n = 1 \/ n = 2)
  BY DescendEmits
<1>2. /\ n \in DOMAIN stack /\ DOMAIN stack = 1 .. n /\ stack \in Seq(Activation)
      /\ stack # <<>> /\ stack[n] \in Activation /\ Top = stack[n]
      /\ stack[n].path \subseteq Concepts /\ IsFiniteSet(stack[n].path)
  BY <1>0, Activations, DescendEmits DEF Descend, Walking, IInv, Top
<1>3. /\ e.dst \in Concepts /\ e.dst \notin Top.path /\ Rated(e) \in Rating
      /\ e \in Top.left /\ stack[n].hops = n - 1 /\ n - 1 < maxDepth /\ maxDepth \in Nat
  BY <1>0, <1>2, DescendEmits, LinkInHand, MaxDepthsType DEF Descend, IInv, TypeOK
<1> DEFINE f == [stack[n] EXCEPT !.left = @ \ {e}]
           g == Frame(e.dst, n, Top.path \cup {e.dst})
<1>4. /\ f \in Activation /\ f.at = stack[n].at /\ f.hops = stack[n].hops /\ f.path = stack[n].path
      /\ f.left = stack[n].left \ {e}
  BY <1>2 DEF Activation
<1>5. /\ g \in Activation /\ g.at = e.dst /\ g.hops = n /\ g.path = stack[n].path \cup {e.dst}
      /\ g.left = IF n >= maxDepth THEN {} ELSE EncompassesOut(edges, e.dst)
  BY <1>0, <1>2, <1>3, FrameTyped DEF IInv, TypeOK
<1>6. stack' = Append([stack EXCEPT ![n] = f], g)
  <2>1. Top.hops + 1 = n
    BY <1>0, <1>2, <1>3
  <2> QED BY <1>2, <2>1 DEF Descend
<1> HIDE DEF f, g, n
<1>7. /\ stack' \in Seq(Activation) /\ Len(stack') = n + 1 /\ DOMAIN stack' = 1 .. n + 1
      /\ stack'[n + 1] = g /\ stack'[n] = f /\ \A i \in 1 .. n : i # n => stack'[i] = stack[i]
  BY <1>0, <1>2, <1>4, <1>5, <1>6, ReplaceTopAndPush
<1>8. \A i \in 1 .. n :
        /\ stack'[i].at = stack[i].at /\ stack'[i].hops = stack[i].hops /\ stack'[i].path = stack[i].path
        /\ stack'[i].left = IF i = n THEN stack[i].left \ {e} ELSE stack[i].left
  BY <1>2, <1>4, <1>7
<1>9. /\ emissions' = Append(emissions, <<e.dst, Rated(e)>>) /\ emissions' \in Seq(Concepts \X Rating)
      /\ Emitted' = Emitted \cup {<<e.dst, Rated(e)>>}
  BY <1>3, EmittedAppend DEF Descend, Rated, IInv, TypeOK
<1>10. Folded' /\ (folded \in 0 .. Len(emissions))'
         /\ (DOMAIN best \subseteq Concepts)' /\ (best \in [DOMAIN best -> Rating])' /\ done' \in BOOLEAN
  BY <1>1, <1>2, <1>9, FoldingKept DEF Collected, Called, Folding
<1>11. FirstHop' = FirstHop /\ \A e1 : SecondHop(e1)' = SecondHop(e1)
  BY <1>1 DEF FirstHop, SecondHop
<1>12. TypeOK'
  <2>1. Activation' = Activation
    BY <1>1 DEF Activation
  <2>2. \A i \in 1 .. n : stack[i].hops = i - 1 /\ Cardinality(stack[i].path) = i
    BY <1>0, <1>2 DEF IInv, TypeOK
  <2>3. Cardinality(g.path) = n + 1
    <3>1. Cardinality(stack[n].path) = n /\ e.dst \notin stack[n].path
      BY <1>0, <1>2, <1>3, <2>2
    <3>2. IsFiniteSet(stack[n].path) /\ g.path = stack[n].path \cup {e.dst}
      BY <1>2, <1>5
    <3>3. Cardinality(stack[n].path \cup {e.dst}) = Cardinality(stack[n].path) + 1
      BY <3>1, <3>2, FS_AddElement
    <3> QED BY <3>1, <3>2, <3>3
  <2>4. (Len(stack) <= maxDepth + 1)' /\ (stack \in Seq(Activation))'
    BY <1>0, <1>1, <1>3, <1>7, <2>1
  <2>5. ASSUME NEW i \in 1 .. n + 1
        PROVE  stack'[i].hops = i - 1 /\ Cardinality(stack'[i].path) = i
    <3>1. CASE i = n + 1
      <4>1. i - 1 = n /\ stack'[i] = g
        BY <1>0, <1>7, <3>1
      <4> QED BY <1>5, <2>3, <3>1, <4>1
    <3>2. CASE i \in 1 .. n
      BY <1>8, <2>2, <3>2
    <3> QED BY <1>0, <3>1, <3>2
  <2>6. (/\ EdgeTable(edges) /\ maxDepth \in MaxDepths /\ event \in [concept : Concepts, rating : Rating])'
    BY <1>1 DEF IInv, TypeOK
  <2> QED BY <1>0, <1>7, <1>9, <1>10, <2>4, <2>5, <2>6 DEF TypeOK
<1>13. WellPlaced'
  <2>1. event.rating >= GOOD /\ stack[1].at = event.concept /\ stack[1].path = {event.concept}
    BY <1>0, <1>2 DEF IInv, WellPlaced
  <2>2. Len(stack') <= 3 /\ 1 \in 1 .. n /\ 2 \in DOMAIN stack'
    BY <1>0, <1>7
  <2>3. event'.rating >= GOOD /\ stack'[1].at = event'.concept /\ stack'[1].path = {event'.concept}
    BY <1>1, <1>8, <2>1, <2>2
  <2>4. \E e1 \in FirstHop \ stack'[1].left : stack'[2].at = e1.dst /\ stack'[2].path = {event.concept, e1.dst}
    <3>1. CASE n = 1
      <4>1. e \in FirstHop
        BY <1>0, <3>1, DescendEmits
      <4>2. stack'[2] = g /\ g.at = e.dst /\ g.path = {event.concept, e.dst} /\ e \notin stack'[1].left
        BY <1>5, <1>7, <1>8, <2>1, <2>2, <3>1
      <4> QED BY <4>1, <4>2
    <3>2. CASE n = 2
      <4>1. PICK e1 \in FirstHop \ stack[1].left : stack[2].at = e1.dst /\ stack[2].path = {event.concept, e1.dst}
        BY <1>0, <3>2 DEF IInv, WellPlaced
      <4>2. stack'[2].at = stack[2].at /\ stack'[2].path = stack[2].path /\ stack'[1].left = stack[1].left
        BY <1>8, <3>2
      <4> QED BY <4>1, <4>2
    <3> QED BY <1>0, <3>1, <3>2
  <2>5. ASSUME NEW i \in 1 .. n + 1
        PROVE  /\ stack'[i].left \subseteq EncompassesOut(edges, stack'[i].at)
               /\ stack'[i].hops >= maxDepth => stack'[i].left = {}
    <3>1. CASE i = n + 1
      BY <1>5, <1>7, <3>1
    <3>2. CASE i \in 1 .. n
      <4>1. /\ stack[i].left \subseteq EncompassesOut(edges, stack[i].at)
            /\ stack[i].hops >= maxDepth => stack[i].left = {}
        BY <1>0, <1>2, <3>2 DEF IInv, WellPlaced
      <4>2. /\ stack'[i].at = stack[i].at /\ stack'[i].hops = stack[i].hops
            /\ stack'[i].left \subseteq stack[i].left
        BY <1>8, <3>2
      <4> QED BY <4>1, <4>2
    <3> QED BY <1>0, <3>1, <3>2
  <2> QED BY <1>0, <1>1, <1>7, <1>11, <2>2, <2>3, <2>4, <2>5 DEF WellPlaced
<1>14. Sound'
  <2>1. event.rating >= GOOD
    BY <1>0, <1>2 DEF IInv, WellPlaced
  <2>2. <<e.dst, Rated(e)>> \in Emissions(edges, event.concept, event.rating)
    <3>1. CASE n = 1
      BY <1>0, <2>1, <3>1, DescendEmits, DirectlyEmitted
    <3>2. CASE n = 2
      BY <1>0, <2>1, <3>2, DescendEmits, IndirectlyEmitted
    <3> QED BY <1>0, <3>1, <3>2
  <2> QED BY <1>1, <1>9, <2>2 DEF IInv, Sound
<1>15. Complete'
  <2> SUFFICES ASSUME event.rating >= GOOD, maxDepth >= 2
               PROVE  (FirstHopCredited /\ SecondHopCredited)'
    BY <1>1 DEF Complete
  <2>1. FirstHopCredited /\ SecondHopCredited
    BY DEF IInv, Complete
  <2>2. CASE n = 1
    <3>1. e \in FirstHop /\ Rated(e) = LinkRating(edges[e], 1)
      BY <1>0, <2>2, DescendEmits
    <3>2. Left(1)' = Left(1) \ {e} /\ Left(2) = {} /\ Left(2)' = EncompassesOut(edges, e.dst)
      <4>1. 1 \in DOMAIN stack /\ 1 \in DOMAIN stack' /\ 2 \notin DOMAIN stack /\ 2 \in DOMAIN stack'
        BY <1>2, <1>7, <2>2
      <4>2. stack'[1].left = stack[1].left \ {e} /\ stack'[2] = g
        BY <1>7, <1>8, <2>2
      <4>3. ~(1 >= maxDepth)
        BY <1>3
      <4> QED BY <1>5, <2>2, <4>1, <4>2, <4>3 DEF Left
    <3>3. FirstHopCredited'
      BY <1>1, <1>9, <1>11, <2>1, <3>1, <3>2 DEF FirstHopCredited
    <3>4. SecondHop(e) \ Left(2)' = {}
      BY <3>2 DEF SecondHop
    <3>5. SecondHopCredited'
      BY <1>1, <1>9, <1>11, <2>1, <3>2, <3>4 DEF SecondHopCredited
    <3> QED BY <3>3, <3>5
  <2>3. CASE n = 2
    <3>1. Left(1)' = Left(1) /\ Left(2)' = Left(2) \ {e}
      BY <1>2, <1>7, <1>8, <2>3 DEF Left
    <3>2. Rated(e) = LinkRating(edges[e], 2)
      BY <1>0, <2>3, DescendEmits
    <3>3. FirstHopCredited'
      BY <1>1, <1>9, <1>11, <2>1, <3>1 DEF FirstHopCredited
    <3>4. SecondHopCredited'
      BY <1>1, <1>9, <1>11, <2>1, <3>1, <3>2 DEF SecondHopCredited
    <3> QED BY <3>3, <3>4
  <2> QED BY <1>0, <2>2, <2>3
<1> QED BY <1>10, <1>12, <1>13, <1>14, <1>15 DEF IInv

---------------------------------------------------------------------------
\* Steps around the walk

LEMMA BlameKeeps ==
  ASSUME IInv, Blame
  PROVE  IInv'
<1>1. UNCHANGED <<edges, maxDepth, event, stack, folded, best, done>> /\ event.rating = AGAIN /\ stack = <<>>
  BY DEF Blame, Called, Folding
<1>2. PICK e \in EncompassesIn(edges, event.concept) :
         <<e.src, AGAIN>> \notin Emitted /\ emissions' = Append(emissions, <<e.src, AGAIN>>)
  BY DEF Blame
<1>3. <<e.src, AGAIN>> \in Concepts \X Rating
  <2>1. e \in EdgeKeys
    BY DEF IInv, TypeOK, EdgeTable, EncompassesIn
  <2> QED BY <2>1 DEF EdgeKeys, Rating, AGAIN, EASY
<1>4. emissions' \in Seq(Concepts \X Rating) /\ Emitted' = Emitted \cup {<<e.src, AGAIN>>}
  BY <1>2, <1>3, EmittedAppend DEF IInv, TypeOK
<1>5. ~Collected
  BY <1>1, <1>2 DEF Collected, Blamed
<1>6. Folded' /\ (folded \in 0 .. Len(emissions))'
         /\ (DOMAIN best \subseteq Concepts)' /\ (best \in [DOMAIN best -> Rating])' /\ done' \in BOOLEAN
  BY <1>1, <1>4, <1>5, FoldingKept DEF Called, Folding
<1>7. TypeOK'
  <2>1. (/\ EdgeTable(edges) /\ maxDepth \in MaxDepths /\ event \in [concept : Concepts, rating : Rating]
         /\ Len(stack) <= maxDepth + 1 /\ stack \in Seq(Activation)
         /\ \A i \in DOMAIN stack : stack[i].hops = i - 1 /\ Cardinality(stack[i].path) = i)'
    BY <1>1 DEF IInv, TypeOK, Activation
  <2> QED BY <1>4, <1>6, <2>1 DEF TypeOK
<1>8. WellPlaced'
  <2>1. WellPlaced
    BY DEF IInv
  <2> QED BY <1>1, <2>1 DEF WellPlaced, FirstHop
<1>9. Sound'
  <2>1. Emissions(edges, event.concept, event.rating) =
          {<<g.src, AGAIN>> : g \in EncompassesIn(edges, event.concept)}
    BY <1>1 DEF Emissions, AGAIN, GOOD
  <2> QED BY <1>1, <1>2, <1>4, <2>1 DEF IInv, Sound
<1>10. Complete'
  BY <1>1 DEF Complete, AGAIN, GOOD
<1> QED BY <1>6, <1>7, <1>8, <1>9, <1>10 DEF IInv

\* What only _dedup changes leaves the walk as it was.
LEMMA WalkKept ==
  ASSUME IInv, UNCHANGED <<Called, stack, emissions>>
  PROVE  /\ (WellPlaced /\ Sound /\ Complete)'
         /\ (/\ EdgeTable(edges) /\ maxDepth \in MaxDepths /\ event \in [concept : Concepts, rating : Rating]
             /\ Len(stack) <= maxDepth + 1 /\ stack \in Seq(Activation)
             /\ \A i \in DOMAIN stack : stack[i].hops = i - 1 /\ Cardinality(stack[i].path) = i
             /\ emissions \in Seq(Concepts \X Rating))'
<1>1. UNCHANGED <<edges, maxDepth, event, stack, emissions>>
  BY DEF Called
<1>2. FirstHop' = FirstHop /\ Emitted' = Emitted /\ \A e1 : SecondHop(e1)' = SecondHop(e1)
  BY <1>1 DEF FirstHop, SecondHop, Emitted
<1>3. \A i : Left(i)' = Left(i)
  BY <1>1 DEF Left
<1>4. WellPlaced'
  BY <1>1, <1>2 DEF IInv, WellPlaced
<1>5. Sound'
  BY <1>1, <1>2 DEF IInv, Sound
<1>6. Complete'
  BY <1>1, <1>2, <1>3 DEF IInv, Complete, FirstHopCredited, SecondHopCredited
<1>7. (/\ EdgeTable(edges) /\ maxDepth \in MaxDepths /\ event \in [concept : Concepts, rating : Rating]
       /\ Len(stack) <= maxDepth + 1 /\ stack \in Seq(Activation)
       /\ \A i \in DOMAIN stack : stack[i].hops = i - 1 /\ Cardinality(stack[i].path) = i
       /\ emissions \in Seq(Concepts \X Rating))'
  BY <1>1 DEF IInv, TypeOK, Activation
<1> QED BY <1>4, <1>5, <1>6, <1>7

\* One emission more in the dict.
LEMMA TakeKeepsStrongest ==
  ASSUME NEW m \in Concepts \X Rating, DOMAIN best \subseteq Concepts, best \in [DOMAIN best -> Rating],
         event.concept \in Concepts
  PROVE  /\ DOMAIN Take(m) = DOMAIN best \cup ({m[1]} \ {event.concept})
         /\ DOMAIN Take(m) \subseteq Concepts /\ Take(m) \in [DOMAIN Take(m) -> Rating]
         /\ \A x \in DOMAIN best : best[x] <= Take(m)[x]
         /\ m[1] # event.concept => m[2] <= Take(m)[m[1]]
         /\ \A x \in DOMAIN Take(m) :
               \/ x \in DOMAIN best /\ Take(m)[x] = best[x]
               \/ m = <<x, Take(m)[x]>>
<1>1. m[1] \in Concepts /\ m[2] \in Rating /\ m = <<m[1], m[2]>>
  OBVIOUS
<1>2. \A r \in Rating : r \in Int
  BY DEF Rating, AGAIN, EASY
<1>3. CASE m[1] = event.concept \/ (m[1] \in DOMAIN best /\ m[2] <= best[m[1]])
  <2>1. Take(m) = best
    BY <1>3 DEF Take
  <2>2. \A x \in DOMAIN best : best[x] <= best[x]
    BY <1>2
  <2> QED BY <1>1, <1>3, <2>1, <2>2
<1>4. CASE ~(m[1] = event.concept \/ (m[1] \in DOMAIN best /\ m[2] <= best[m[1]]))
  <2>1. Take(m) = Upsert(best, [x \in {m[1]} |-> m[2]])
    BY <1>4 DEF Take
  <2>2. /\ DOMAIN Take(m) = DOMAIN best \cup {m[1]} /\ Take(m)[m[1]] = m[2]
        /\ \A x \in DOMAIN best \ {m[1]} : Take(m)[x] = best[x]
        /\ Take(m) \in [DOMAIN Take(m) -> Rating]
    BY <1>1, <2>1 DEF Upsert
  <2>3. m[1] \in DOMAIN best => best[m[1]] <= m[2]
    BY <1>1, <1>2, <1>4
  <2>4. \A r \in Rating : r <= r
    BY <1>2
  <2>5. \A x \in DOMAIN best : best[x] <= Take(m)[x]
    BY <2>2, <2>3, <2>4
  <2> QED BY <1>1, <1>4, <2>2, <2>4, <2>5
<1> QED BY <1>3, <1>4

LEMMA DedupKeeps ==
  ASSUME IInv, Dedup
  PROVE  IInv'
<1> DEFINE m == emissions[folded + 1]
<1>1. /\ Collected /\ ~done /\ folded < Len(emissions) /\ folded' = folded + 1 /\ best' = Take(m)
      /\ UNCHANGED <<Called, stack, emissions, done>>
  BY DEF Dedup
<1>2. /\ folded \in Nat /\ emissions \in Seq(Concepts \X Rating) /\ Len(emissions) \in Nat
      /\ DOMAIN best \subseteq Concepts /\ best \in [DOMAIN best -> Rating] /\ event.concept \in Concepts
  BY DEF IInv, TypeOK
<1>3. m \in Concepts \X Rating
  BY <1>1, <1>2
<1>4. /\ DOMAIN best' = DOMAIN best \cup ({m[1]} \ {event.concept})
      /\ DOMAIN best' \subseteq Concepts /\ best' \in [DOMAIN best' -> Rating]
      /\ \A x \in DOMAIN best : best[x] <= best'[x]
      /\ m[1] # event.concept => m[2] <= best'[m[1]]
      /\ \A x \in DOMAIN best' :
            \/ x \in DOMAIN best /\ best'[x] = best[x]
            \/ m = <<x, best'[x]>>
  BY <1>1, <1>2, <1>3, TakeKeepsStrongest
<1>5. /\ 1 .. folded' = (1 .. folded) \cup {folded + 1} /\ folded + 1 \in 1 .. folded'
      /\ 1 .. folded \subseteq 1 .. Len(emissions)
  BY <1>1, <1>2
<1>6. UNCHANGED <<emissions, event, stack, edges>>
  BY <1>1 DEF Called
<1>7. DOMAIN best' = {emissions[i][1] : i \in 1 .. folded'} \ {event.concept}
  BY <1>4, <1>5 DEF IInv, Folded
<1>8. ASSUME NEW x \in DOMAIN best'
      PROVE  \E i \in 1 .. folded' : emissions[i] = <<x, best'[x]>>
  BY <1>4, <1>5 DEF IInv, Folded
<1>9. ASSUME NEW i \in 1 .. folded', emissions[i][1] # event.concept
      PROVE  emissions[i][2] <= best'[emissions[i][1]]
  <2>1. CASE i = folded + 1
    BY <1>4, <1>9, <2>1
  <2>2. CASE i \in 1 .. folded
    <3>1. emissions[i] \in Concepts \X Rating
      BY <1>2, <1>5, <2>2
    <3>2. emissions[i][1] \in DOMAIN best /\ emissions[i][2] <= best[emissions[i][1]]
      BY <1>9, <2>2 DEF IInv, Folded
    <3>3. emissions[i][2] \in Int /\ best[emissions[i][1]] \in Int /\ best'[emissions[i][1]] \in Int
      BY <1>2, <1>4, <3>1, <3>2 DEF Rating, AGAIN, EASY
    <3>4. best[emissions[i][1]] <= best'[emissions[i][1]]
      BY <1>4, <3>2
    <3> QED BY <3>2, <3>3, <3>4
  <2> QED BY <1>5, <2>1, <2>2
<1>10. Collected'
  BY <1>1, <1>6 DEF Collected, Blamed, Emitted
<1>11. Folded'
  <2>1. event' = event /\ emissions' = emissions /\ ~done'
    BY <1>1, <1>6
  <2>2. (DOMAIN best = {emissions[i][1] : i \in 1 .. folded} \ {event.concept})'
    BY <1>7, <2>1
  <2>3. (\A x \in DOMAIN best : \E i \in 1 .. folded : emissions[i] = <<x, best[x]>>)'
    BY <1>8, <2>1
  <2>4. (\A i \in 1 .. folded : emissions[i][1] # event.concept => emissions[i][2] <= best[emissions[i][1]])'
    BY <1>9, <2>1
  <2> QED BY <1>10, <2>1, <2>2, <2>3, <2>4 DEF Folded
<1>12. (folded \in 0 .. Len(emissions))' /\ done' \in BOOLEAN
  BY <1>1, <1>2, <1>6 DEF IInv, TypeOK
<1>13. TypeOK'
  BY <1>1, <1>4, <1>12, WalkKept DEF TypeOK
<1> QED BY <1>1, <1>11, <1>13, WalkKept DEF IInv

LEMMA ReturnKeeps ==
  ASSUME IInv, Return
  PROVE  IInv'
<1>1. /\ Collected /\ folded = Len(emissions) /\ done' = TRUE
      /\ UNCHANGED <<Called, stack, emissions, folded, best>>
  BY DEF Return
<1>2. UNCHANGED <<emissions, event, stack, edges>>
  BY <1>1 DEF Called
<1>3. Collected'
  BY <1>1, <1>2 DEF Collected, Blamed, Emitted
<1>4. Folded'
  BY <1>1, <1>2, <1>3 DEF IInv, Folded
<1>5. TypeOK'
  BY <1>1, WalkKept DEF IInv, TypeOK
<1> QED BY <1>1, <1>4, <1>5, WalkKept DEF IInv

---------------------------------------------------------------------------
\* Theorems

LEMMA Inductive == IInv /\ [Next]_vars => IInv'
<1> SUFFICES ASSUME IInv, [Next]_vars
             PROVE  IInv'
  OBVIOUS
<1>1. CASE UNCHANGED vars
  <2>1. UNCHANGED <<Called, stack, emissions>> /\ UNCHANGED <<event, edges, folded, best, done>>
    BY <1>1 DEF vars, Called
  <2>2. Folded'
    BY <2>1 DEF IInv, Folded, Collected, Blamed, Emitted
  <2>3. TypeOK'
    BY <2>1, WalkKept DEF IInv, TypeOK
  <2> QED BY <2>1, <2>2, <2>3, WalkKept DEF IInv
<1>2. ASSUME NEW e \in DOMAIN edges, Prune(e) \/ Descend(e)
      PROVE  IInv'
  BY <1>2, PruneKeeps, DescendKeeps
<1>3. CASE Ascend \/ Blame \/ Dedup \/ Return
  BY <1>3, AscendKeeps, BlameKeeps, DedupKeeps, ReturnKeeps
<1> QED BY <1>1, <1>2, <1>3 DEF Next

LEMMA GraphsAreTables ==
  ASSUME NEW t \in Graphs
  PROVE  EdgeTable(t)
<1>1. PICK w \in UNION {[links -> Weights] : links \in SUBSET DOMAIN InitEdges} :
         t = [e \in DOMAIN w |-> [InitEdges[e] EXCEPT !.weight = w[e]]]
  BY DEF Graphs
<1>2. DOMAIN w \subseteq DOMAIN InitEdges /\ \A e \in DOMAIN w : w[e] \in Weights
  BY <1>1
<1>3. \A e \in DOMAIN InitEdges : InitEdges[e] \in EdgeRow /\ e \in EdgeKeys
  BY InitEdgesIsTable DEF EdgeTable
<1>4. ASSUME NEW e \in DOMAIN w
      PROVE  [InitEdges[e] EXCEPT !.weight = w[e]] \in EdgeRow
  BY <1>2, <1>3 DEF EdgeRow
<1> QED BY <1>1, <1>2, <1>3, <1>4 DEF EdgeTable

LEMMA Initial == Init => IInv
<1> SUFFICES ASSUME Init
             PROVE  IInv
  OBVIOUS
<1>1. /\ EdgeTable(edges) /\ maxDepth \in MaxDepths /\ maxDepth \in Nat
      /\ event \in [concept : Concepts, rating : Rating] /\ event.concept \in Concepts
      /\ emissions = <<>> /\ folded = 0 /\ done = FALSE /\ DOMAIN best = {}
      /\ best = [x \in {} |-> AGAIN]
      /\ stack = IF event.rating >= GOOD THEN <<Frame(event.concept, 0, {event.concept})>> ELSE <<>>
  BY GraphsAreTables, MaxDepthsType DEF Init
<1> DEFINE g == Frame(event.concept, 0, {event.concept})
<1>2. /\ g \in Activation /\ g.at = event.concept /\ g.hops = 0 /\ g.path = {event.concept}
      /\ g.left = IF 0 >= maxDepth THEN {} ELSE EncompassesOut(edges, event.concept)
  <2>1. {event.concept} \in SUBSET Concepts /\ 0 \in Nat
    BY <1>1
  <2> QED BY <1>1, <2>1, FrameTyped
<1>3. Cardinality(g.path) = 1
  BY <1>2, FS_Singleton
<1>4. /\ stack \in Seq(Activation) /\ Len(stack) \in Nat /\ Len(stack) <= 1
      /\ stack # <<>> => event.rating >= GOOD /\ stack[1] = g
      /\ event.rating >= GOOD => 1 \in DOMAIN stack
      /\ \A i \in DOMAIN stack : i = 1 /\ stack[i] = g
  <2>1. CASE event.rating >= GOOD
    <3>1. stack = <<g>>
      BY <1>1, <2>1
    <3> HIDE DEF g
    <3>2. <<g>> \in Seq(Activation) /\ Len(<<g>>) = 1 /\ DOMAIN <<g>> = {1} /\ <<g>>[1] = g
      BY <1>2
    <3> QED BY <2>1, <3>1, <3>2
  <2>2. CASE ~(event.rating >= GOOD)
    <3>1. stack = <<>>
      BY <1>1, <2>2
    <3>2. <<>> \in Seq(Activation) /\ Len(<<>>) = 0 /\ DOMAIN <<>> = {}
      OBVIOUS
    <3> QED BY <2>2, <3>1, <3>2
  <2> QED BY <2>1, <2>2
<1> HIDE DEF g
<1>5. emissions \in Seq(Concepts \X Rating) /\ Len(emissions) = 0 /\ 1 .. 0 = {} /\ DOMAIN emissions = {}
  BY <1>1
<1>6. TypeOK
  <2>1. Len(stack) <= maxDepth + 1
    BY <1>1, <1>4
  <2>2. \A i \in DOMAIN stack : stack[i].hops = i - 1 /\ Cardinality(stack[i].path) = i
    <3>1. g.hops = 1 - 1 /\ Cardinality(g.path) = 1
      BY <1>2, <1>3
    <3> QED BY <1>4, <3>1
  <2>3. folded \in 0 .. Len(emissions) /\ done \in BOOLEAN /\ DOMAIN best \subseteq Concepts
        /\ best \in [DOMAIN best -> Rating]
    <3>1. folded \in 0 .. Len(emissions)
      <4>1. 0 \in 0 .. 0
        OBVIOUS
      <4> QED BY <1>1, <1>5, <4>1
    <3>2. best \in [{} -> Rating]
      BY <1>1
    <3>3. done \in BOOLEAN /\ DOMAIN best \subseteq Concepts
      BY <1>1
    <3> QED BY <1>1, <3>1, <3>2, <3>3
  <2> QED BY <1>1, <1>4, <1>5, <2>1, <2>2, <2>3 DEF TypeOK
<1>7. WellPlaced
  <2>1. Len(stack) <= 3 /\ ~(Len(stack) >= 2)
    BY <1>4
  <2>2. stack # <<>> => event.rating >= GOOD /\ stack[1].at = event.concept /\ stack[1].path = {event.concept}
    BY <1>2, <1>4
  <2>3. \A i \in DOMAIN stack :
          /\ stack[i].left \subseteq EncompassesOut(edges, stack[i].at)
          /\ stack[i].hops >= maxDepth => stack[i].left = {}
    BY <1>2, <1>4
  <2> QED BY <2>1, <2>2, <2>3 DEF WellPlaced
<1>8. Sound
  BY <1>5 DEF Sound, Emitted
<1>9. Complete
  <2> SUFFICES ASSUME event.rating >= GOOD, maxDepth >= 2
               PROVE  FirstHop \ Left(1) = {}
    BY DEF Complete, FirstHopCredited, SecondHopCredited
  <2>1. ~(0 >= maxDepth)
    BY <1>1
  <2> QED BY <1>2, <1>4, <2>1 DEF FirstHop, Left
<1>10. Folded
  BY <1>1, <1>5 DEF Folded
<1> QED BY <1>6, <1>7, <1>8, <1>9, <1>10 DEF IInv

LEMMA Invariance == Spec => []IInv
BY Initial, Inductive, PTL DEF Spec

\* For any graph, any depth cap and any order of the rows, the walk stays within
\* the cap, walks no concept twice on a path, and emits ratings of the scale.
THEOREM TypeCorrect == Spec => []TypeOK
BY Invariance, PTL DEF IInv

\* When everything is emitted, it is exactly what the closed form emits.
LEMMA EmittedIsEmissions ==
  ASSUME IInv, Collected, maxDepth >= 2
  PROVE  Emitted = Emissions(edges, event.concept, event.rating)
<1>1. Emitted \subseteq Emissions(edges, event.concept, event.rating) /\ event.rating \in Rating
  BY DEF IInv, Sound, TypeOK
<1>2. CASE event.rating >= GOOD
  <2>1. Left(1) = {} /\ Left(2) = {}
    BY DEF Left, Collected
  <2>2. FirstHopCredited /\ SecondHopCredited
    BY <1>2 DEF IInv, Complete
  <2>3. ASSUME NEW m \in Emissions(edges, event.concept, event.rating)
        PROVE  m \in Emitted
    BY <1>2, <2>1, <2>2, EmissionsOfPass DEF FirstHopCredited, SecondHopCredited
  <2> QED BY <1>1, <2>3
<1>3. CASE event.rating = AGAIN
  <2>1. Emissions(edges, event.concept, event.rating) = {<<e.src, AGAIN>> : e \in EncompassesIn(edges, event.concept)}
    BY <1>3 DEF Emissions, AGAIN, GOOD
  <2>2. \A e \in EncompassesIn(edges, event.concept) : <<e.src, AGAIN>> \in Emitted
    BY <1>3 DEF Collected, Blamed
  <2> QED BY <1>1, <2>1, <2>2
<1>4. CASE ~(event.rating >= GOOD) /\ event.rating # AGAIN
  BY <1>1, <1>4 DEF Emissions
<1> QED BY <1>2, <1>3, <1>4

LEMMA WalkComputesCredit == IInv => WalkIsCredit
<1> SUFFICES ASSUME IInv, done, maxDepth >= 2
             PROVE  best = Credit(edges, event.concept, event.rating)
  BY DEF WalkIsCredit
<1> DEFINE emitted == Emissions(edges, event.concept, event.rating)
<1>1. /\ Emitted = emitted /\ emitted = {emissions[i] : i \in 1 .. Len(emissions)}
      /\ folded = Len(emissions) /\ emissions \in Seq(Concepts \X Rating)
  <2>1. Collected /\ folded = Len(emissions) /\ emissions \in Seq(Concepts \X Rating)
    BY DEF IInv, Folded, TypeOK
  <2>2. Emitted = emitted
    BY <2>1, EmittedIsEmissions
  <2>3. DOMAIN emissions = 1 .. Len(emissions)
    BY <2>1
  <2> QED BY <2>1, <2>2, <2>3 DEF Emitted
<1>2. Credit(edges, event.concept, event.rating)
        = [x \in {m[1] : m \in emitted} \ {event.concept} |-> Strongest(emitted, x)]
  BY DEF Credit
<1> HIDE DEF emitted
<1>3. DOMAIN best = {m[1] : m \in emitted} \ {event.concept} /\ best \in [DOMAIN best -> Rating]
  BY <1>1 DEF IInv, Folded, TypeOK
<1>4. ASSUME NEW x \in DOMAIN best
      PROVE  best[x] = Strongest(emitted, x)
  <2> DEFINE Best(r) == <<x, r>> \in emitted /\ \A q \in Rating : <<x, q>> \in emitted => q <= r
  <2>1. best[x] \in Rating /\ x # event.concept
    BY <1>3, <1>4
  <2>2. <<x, best[x]>> \in emitted
    BY <1>1, <1>4 DEF IInv, Folded
  <2>3. ASSUME NEW q \in Rating, <<x, q>> \in emitted
        PROVE  q <= best[x]
    <3>1. PICK i \in 1 .. Len(emissions) : emissions[i] = <<x, q>>
      BY <1>1, <2>3
    <3> QED BY <1>1, <2>1, <3>1 DEF IInv, Folded
  <2>4. Best(best[x])
    BY <2>2, <2>3
  <2>5. ASSUME NEW r \in Rating, Best(r)
        PROVE  r = best[x]
    <3>1. r <= best[x] /\ best[x] <= r
      BY <2>1, <2>4, <2>5
    <3> QED BY <2>1, <3>1 DEF Rating, AGAIN, EASY
  <2>6. Strongest(emitted, x) = CHOOSE r \in Rating : Best(r)
    BY DEF Strongest
  <2> HIDE DEF Best
  <2> QED BY <2>1, <2>4, <2>5, <2>6
<1> QED BY <1>2, <1>3, <1>4

\* propagate() returns the closed form on every graph, cyclic or not, whatever
\* the order of its rows and for every depth cap from the default on: no path is
\* lost to the cycle guard and no duplicate to the loop of _dedup.
THEOREM WalkIsAlwaysCredit == Spec => []WalkIsCredit
BY Invariance, WalkComputesCredit, PTL
=============================================================================

-------------------------------- MODULE Fire --------------------------------
(***************************************************************************)
(* FirePropagation.propagate() (engine/fire.py) edge by edge: the depth-    *)
(* first walk of _spread_down over the ENCOMPASSES links, with its depth     *)
(* cap, its cycle guard and its floor, and the loop of _dedup. Module        *)
(* CourseGraph gives the same result in closed form (Credit), which is what  *)
(* the modules of the service use.                                          *)
(*                                                                          *)
(* The rows of an edge query come in no particular order, so a frame takes   *)
(* any edge of those it has left.                                           *)
(***************************************************************************)
EXTENDS CourseGraph

CONSTANTS
  MaxDepths    \* the values of the constructor's max_depth

ASSUME MaxDepthsType == MaxDepths \subseteq Nat

VARIABLES
  edges,       \* the edge table, some of the links of InitEdges with any weights
  maxDepth,    \* self.max_depth
  event,       \* the grade that is propagated
  stack,       \* the activations of _spread_down, innermost last
  emissions,   \* the list of (concept, rating) pairs
  folded,      \* how many of them the loop of _dedup has taken
  best,        \* the dict it builds
  done         \* propagate() has returned best

vars == <<edges, maxDepth, event, stack, emissions, folded, best, done>>

Called == <<edges, maxDepth, event>>

Folding == <<folded, best, done>>

Emitted == {emissions[i] : i \in DOMAIN emissions}

\* The tier of a link, AGAIN where the evidence is too weak to count.
DownRating(row) ==
  CASE row.weight = "strong" -> GOOD
    [] row.weight = "medium" -> HARD
    [] row.weight = "weak" -> AGAIN

\* Seeded variant: nothing is lost on the second hop.
LateDiscounted(rating, hops) ==
  IF rating - (hops - 2) < HARD THEN AGAIN ELSE rating - (hops - 2)

\* One tier less for every hop beyond the first; below HARD is no repetition.
Discounted(rating, hops) ==
  IF rating - (hops - 1) < HARD THEN AGAIN ELSE rating - (hops - 1)

\* The list of out-edges is fetched once; at the depth cap it is not.
Frame(c, hops, path) ==
  [at |-> c, hops |-> hops, path |-> path,
   left |-> IF hops >= maxDepth THEN {} ELSE EncompassesOut(edges, c)]

Top == stack[Len(stack)]

Walking == stack # <<>>

---------------------------------------------------------------------------
\* An edge that adds nothing: its target is on the path, or it decayed.
Prune(e) ==
  /\ Walking
  /\ e \in Top.left
  /\ \/ e.dst \in Top.path
     \/ DownRating(edges[e]) = AGAIN
     \/ Discounted(DownRating(edges[e]), Top.hops + 1) = AGAIN
  /\ stack' = [stack EXCEPT ![Len(stack)].left = @ \ {e}]
  /\ UNCHANGED <<Called, emissions, Folding>>

\* Seeded variant: the loop never leaves the edge it has descended.
DescendAgain(e) ==
  LET rating == Discounted(DownRating(edges[e]), Top.hops + 1)
  IN /\ Walking
     /\ e \in Top.left
     /\ e.dst \notin Top.path
     /\ DownRating(edges[e]) # AGAIN
     /\ rating # AGAIN
     /\ emissions' = IF <<e.dst, rating>> \in Emitted THEN emissions
                     ELSE Append(emissions, <<e.dst, rating>>)
     /\ stack' = Append(stack, Frame(e.dst, Top.hops + 1, Top.path \cup {e.dst}))
     /\ UNCHANGED <<Called, Folding>>

\* Seeded variant: the cycle guard is lost.
DescendAnywhere(e) ==
  LET rating == Discounted(DownRating(edges[e]), Top.hops + 1)
  IN /\ Walking
     /\ e \in Top.left
     /\ DownRating(edges[e]) # AGAIN
     /\ rating # AGAIN
     /\ emissions' = Append(emissions, <<e.dst, rating>>)
     /\ stack' = Append([stack EXCEPT ![Len(stack)].left = @ \ {e}],
                        Frame(e.dst, Top.hops + 1, Top.path \cup {e.dst}))
     /\ UNCHANGED <<Called, Folding>>

\* An edge that emits: its target is credited and its own links are walked.
Descend(e) ==
  LET rating == Discounted(DownRating(edges[e]), Top.hops + 1)
  IN /\ Walking
     /\ e \in Top.left
     /\ e.dst \notin Top.path
     /\ DownRating(edges[e]) # AGAIN
     /\ rating # AGAIN
     /\ emissions' = Append(emissions, <<e.dst, rating>>)
     /\ stack' = Append([stack EXCEPT ![Len(stack)].left = @ \ {e}],
                        Frame(e.dst, Top.hops + 1, Top.path \cup {e.dst}))
     /\ UNCHANGED <<Called, Folding>>

Ascend ==
  /\ Walking
  /\ Top.left = {}
  /\ stack' = SubSeq(stack, 1, Len(stack) - 1)
  /\ UNCHANGED <<Called, emissions, Folding>>

\* A failure walks nothing: the loop over the parents, in any order.
Blame ==
  /\ stack = <<>> /\ ~done
  /\ event.rating = AGAIN
  /\ \E e \in EncompassesIn(edges, event.concept) :
        /\ <<e.src, AGAIN>> \notin Emitted
        /\ emissions' = Append(emissions, <<e.src, AGAIN>>)
  /\ UNCHANGED <<Called, stack, Folding>>

Blamed == \A e \in EncompassesIn(edges, event.concept) : <<e.src, AGAIN>> \in Emitted

\* Every emission there will be is there.
Collected == stack = <<>> /\ (event.rating = AGAIN => Blamed)

\* Seeded variant: the last emission of a concept wins, not the strongest.
TakeLast(m) ==
  IF m[1] = event.concept THEN best ELSE Upsert(best, [x \in {m[1]} |-> m[2]])

\* Drop the origin and keep the strongest rating of every other concept.
Take(m) ==
  IF m[1] = event.concept \/ (m[1] \in DOMAIN best /\ m[2] <= best[m[1]])
  THEN best
  ELSE Upsert(best, [x \in {m[1]} |-> m[2]])

Dedup ==
  /\ Collected /\ ~done
  /\ folded < Len(emissions)
  /\ folded' = folded + 1
  /\ best' = Take(emissions[folded + 1])
  /\ UNCHANGED <<Called, stack, emissions, done>>

Return ==
  /\ Collected /\ ~done
  /\ folded = Len(emissions)
  /\ done' = TRUE
  /\ UNCHANGED <<Called, stack, emissions, folded, best>>

---------------------------------------------------------------------------
\* Any of the links may be missing, and those there are have any weight.
Graphs ==
  {[e \in DOMAIN w |-> [InitEdges[e] EXCEPT !.weight = w[e]]] :
      w \in UNION {[links -> Weights] : links \in SUBSET DOMAIN InitEdges}}

Init ==
  /\ edges \in Graphs
  /\ maxDepth \in MaxDepths
  /\ event \in [concept : Concepts, rating : Rating]
  /\ stack = IF event.rating >= GOOD THEN <<Frame(event.concept, 0, {event.concept})>> ELSE <<>>
  /\ emissions = <<>>
  /\ folded = 0
  /\ best = [x \in {} |-> AGAIN]
  /\ done = FALSE

Next ==
  \/ \E e \in DOMAIN edges : Prune(e) \/ Descend(e)
  \/ Ascend
  \/ Blame
  \/ Dedup
  \/ Return

\* propagate() is a synchronous call: nothing but its caller's end can stop it.
Spec == Init /\ [][Next]_vars /\ WF_vars(Next)

---------------------------------------------------------------------------
\* Properties

Activation == [at : Concepts, hops : Nat, path : SUBSET Concepts, left : SUBSET DOMAIN edges]

\* The walk never goes deeper than max_depth frames below the origin, walks no
\* concept twice on one path, and emits no rating outside the scale.
TypeOK ==
  /\ EdgeTable(edges)
  /\ maxDepth \in MaxDepths
  /\ event \in [concept : Concepts, rating : Rating]
  /\ Len(stack) <= maxDepth + 1
  /\ stack \in Seq(Activation)
  /\ \A i \in DOMAIN stack : stack[i].hops = i - 1 /\ Cardinality(stack[i].path) = i
  /\ emissions \in Seq(Concepts \X Rating)
  /\ folded \in 0 .. Len(emissions)
  /\ DOMAIN best \subseteq Concepts
  /\ best \in [DOMAIN best -> Rating]
  /\ done \in BOOLEAN

\* Whatever the order of the rows, the cycles and the converging paths, the
\* walk returns the closed form: the direct children at the tier of their link
\* and their children one tier lower, or the direct parents of a failure. A
\* max_depth above two, the default, changes nothing.
WalkIsCredit == done /\ maxDepth >= 2 => best = Credit(edges, event.concept, event.rating)

\* The walk of any graph ends, cyclic ones included.
WalkEnds == <>done
=============================================================================

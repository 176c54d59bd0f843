-------------------------- MODULE MCTraversalEngine --------------------------
(***************************************************************************)
(* Four entities and nine edges: parallel edges of two types, two cycles,  *)
(* an edge out of the target, an edge back to the source and a self-loop.  *)
(* The engine is called on every store of at most MaxEdges of them.        *)
(***************************************************************************)
EXTENDS TraversalEngine

CONSTANT MaxEdges   \* bound on the edges of a store

MCNode == 1..4
MCRelId == 1..9
MCRelType == 1..2

E(i, s, t, ty) == [id |-> i, source |-> s, target |-> t, type |-> ty]

EdgeUniverse ==
  { E(1, 1, 2, 1), E(2, 1, 2, 2), E(3, 2, 3, 1), E(4, 3, 2, 2), E(5, 2, 4, 2),
    E(6, 3, 4, 1), E(7, 4, 3, 1), E(8, 3, 1, 1), E(9, 1, 4, 2) }

MCStores == {S \in SUBSET EdgeUniverse : Cardinality(S) <= MaxEdges}

Q(target, policy, hops, paths, types) ==
  [source |-> 1, target |-> target, policy |-> policy,
   maxHops |-> hops, maxPaths |-> paths, types |-> types]

P(hops, budget, costs) ==
  [kind |-> "policy", maxHops |-> hops, budget |-> budget, costs |-> costs]

Cost(t, c) == [x \in {t} |-> c]

MCQueries ==
  \* no policy: every mix of the two caps
  {Q(4, NoPolicy, h, c, MCRelType) : h \in {0, 2, 3}, c \in {1, 2, 9}}
  \* a type filter, a zero-hop query, bounds out of range
  \cup { Q(4, NoPolicy, 3, 2, {2}), Q(4, NoPolicy, 3, 9, {1}),
         Q(1, NoPolicy, 3, 1, MCRelType),
         Q(4, NoPolicy, -1, 2, MCRelType), Q(4, NoPolicy, 3, 0, MCRelType) }
  \* policies: costs 0 and 2, the default cost, a budget no root meets, a
  \* negative cost that only some searches meet
  \cup { Q(4, P(3, 2, Cost(2, 0)), 0, 9, MCRelType),
         Q(4, P(3, 3, Cost(2, 2)), 0, 2, MCRelType),
         Q(1, P(3, -1, Cost(2, 2)), 0, 2, MCRelType),
         Q(4, P(3, -1, Cost(2, 2)), 0, 2, MCRelType),
         Q(4, P(2, 2, Cost(1, -1)), 0, 1, MCRelType) }
=============================================================================

---------------------------- MODULE PathSemantics ----------------------------
(***************************************************************************)
(* What a path query of AttackGraph means, independently of how            *)
(* app/graph/pathfinder.py searches for the answer.                        *)
(*                                                                         *)
(* A store is the set of edges of the NetworkX MultiDiGraph: parallel      *)
(* edges are distinct elements.  Entity ids, relationship ids and          *)
(* relationship types are naturals whose order is the order of the         *)
(* strings that the engine sorts by.                                       *)
(*                                                                         *)
(* A path is the sequence of the edges it traverses; AttackPath.edge_ids   *)
(* and AttackPath.node_ids are its projections.                            *)
(***************************************************************************)
EXTENDS Integers, Sequences, FiniteSets

CONSTANTS
  Node,     \* entity ids
  RelId,    \* relationship ids, the keys of the MultiDiGraph edges
  RelType   \* relationship types

ASSUME OrderedIdentifiers ==
  /\ Node \subseteq Nat
  /\ RelId \subseteq Nat
  /\ RelType \subseteq Nat

Edge == [id : RelId, source : Node, target : Node, type : RelType]

(***************************************************************************)
(* Queries.  A policy names costs for some types only: any other type      *)
(* costs 1.  Bounds are integers: nothing but the engine validates them.   *)
(***************************************************************************)
NoPolicy == [kind |-> "none"]

IsPolicy(policy) ==
  /\ policy.maxHops \in Int
  /\ policy.budget \in Int
  /\ DOMAIN policy.costs \subseteq RelType
  /\ \A t \in DOMAIN policy.costs : policy.costs[t] \in Int

IsQuery(q) ==
  /\ q.source \in Node
  /\ q.target \in Node
  /\ q.policy = NoPolicy \/ IsPolicy(q.policy)
  /\ q.maxHops \in Int
  /\ q.maxPaths \in Int
  /\ q.types \subseteq RelType

MaxHops(q) == IF q.policy = NoPolicy THEN q.maxHops ELSE q.policy.maxHops

EdgeCost(q, t) ==
  IF q.policy # NoPolicy /\ t \in DOMAIN q.policy.costs
  THEN q.policy.costs[t]
  ELSE 1

WithinBudget(q, cost) == q.policy # NoPolicy => cost <= q.policy.budget

(***************************************************************************)
(* Paths that start at the source of a query.                              *)
(***************************************************************************)
NodeAt(q, p, i) == IF i = 0 THEN q.source ELSE p[i].target

LastNode(q, p) == NodeAt(q, p, Len(p))

NodesOf(q, p) == {NodeAt(q, p, i) : i \in 0..Len(p)}

Prefix(p, i) == SubSeq(p, 1, i)

\* accumulated_cost after each edge of the path.
CostAlong(q, p) ==
  LET acc[i \in 0..Len(p)] ==
        IF i = 0 THEN 0 ELSE acc[i - 1] + EdgeCost(q, p[i].type)
  IN  acc

PathCost(q, p) == CostAlong(q, p)[Len(p)]

Chained(q, p) == \A i \in 1..Len(p) : p[i].source = NodeAt(q, p, i - 1)

Simple(q, p) ==
  \A i, j \in 0..Len(p) : i # j => NodeAt(q, p, i) # NodeAt(q, p, j)

Permitted(q, p) == \A i \in 1..Len(p) : p[i].type \in q.types

(***************************************************************************)
(* The search may stand at the end of p: p is a permitted simple path of   *)
(* at most MaxHops edges, no proper prefix of which had exceeded the       *)
(* budget or already reached the target.                                   *)
(***************************************************************************)
Reachable(E, q, p) ==
  /\ p \in Seq(E)
  /\ Len(p) <= MaxHops(q)
  /\ Chained(q, p)
  /\ Simple(q, p)
  /\ Permitted(q, p)
  /\ \A i \in 0..Len(p) - 1 :
       /\ WithinBudget(q, PathCost(q, Prefix(p, i)))
       /\ NodeAt(q, p, i) # q.target

\* The answer to the query: the zero-hop path of a source that is its own
\* target is exempt from the budget.
IsAttackPath(E, q, p) ==
  /\ Reachable(E, q, p)
  /\ LastNode(q, p) = q.target
  /\ p # <<>> => WithinBudget(q, PathCost(q, p))

AttackPaths(E, q) ==
  {p \in UNION {[1..n -> E] : n \in 0..MaxHops(q)} : IsAttackPath(E, q, p)}

(***************************************************************************)
(* The deterministic order of the answer.                                  *)
(***************************************************************************)
EdgeBefore(e, f) ==
  \/ e.type < f.type
  \/ e.type = f.type /\ e.target < f.target
  \/ e.type = f.type /\ e.target = f.target /\ e.id < f.id

PathBefore(p, r) ==
  \E i \in 1..Len(p) :
    /\ i <= Len(r)
    /\ Prefix(p, i - 1) = Prefix(r, i - 1)
    /\ EdgeBefore(p[i], r[i])

\* The first `count' elements of a finite set of paths, in their order.
FirstPaths(P, count) ==
  LET n == IF Cardinality(P) <= count THEN Cardinality(P) ELSE count
      Rank(p) == Cardinality({r \in P : PathBefore(r, p)}) + 1
  IN  [k \in 1..n |-> CHOOSE p \in P : Rank(p) = k]

\* What find_paths returns for a query that raises no error.
Enumeration(E, q) == FirstPaths(AttackPaths(E, q), q.maxPaths)

Saturated(E, q) ==
  q.source # q.target /\ Cardinality(AttackPaths(E, q)) >= q.maxPaths
=============================================================================

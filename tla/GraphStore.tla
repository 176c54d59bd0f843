------------------------------ MODULE GraphStore ------------------------------
(***************************************************************************)
(* The operations of NetworkXStore (app/graph/networkx.py), the analytical *)
(* graph projection, as operators on graphs.                               *)
(*                                                                         *)
(* Node attributes are one value per entity (its revision); a node that    *)
(* networkx creates for the sake of an edge has none.  An edge carries its *)
(* key, its endpoints and its evidence, and is identified, as in a         *)
(* MultiDiGraph, by (source, target, key).                                 *)
(***************************************************************************)
EXTENDS FiniteSetsExt

CONSTANT Bare   \* the attributes of a node without attributes

EmptyGraph == [nodes |-> [n \in {} |-> Bare], edges |-> {}]

HasNode(g, id) == id \in DOMAIN g.nodes

\* add_node: attributes of a known node are overwritten.
AddEntity(g, id, attributes) ==
  [g EXCEPT !.nodes = [n \in DOMAIN g.nodes \cup {id} |->
                         IF n = id THEN attributes ELSE g.nodes[n]]]

EnsureNode(g, id) == IF HasNode(g, id) THEN g ELSE AddEntity(g, id, Bare)

\* Mutant: a DiGraph, where an edge is its endpoints.
SameEndpoints(e, f) == e.source = f.source /\ e.target = f.target

SameEdge(e, f) == e.id = f.id /\ e.source = f.source /\ e.target = f.target

AddRelationship(g, edge) ==
  LET h == EnsureNode(EnsureNode(g, edge.source), edge.target)
  IN  [h EXCEPT !.edges = {e \in h.edges : ~SameEdge(e, edge)} \cup {edge}]

HasRelationship(g, id) == \E e \in g.edges : e.id = id

\* Mutant: every edge between the endpoints is removed.
RemoveParallels(g, id) ==
  [g EXCEPT !.edges = {e \in g.edges :
     \A f \in g.edges : f.id = id => ~SameEndpoints(e, f)}]

\* clone() followed by remove_relationship(): some edge of that key goes;
\* nodes stay.
RemoveRelationship(g, id) ==
  IF HasRelationship(g, id)
  THEN [g EXCEPT !.edges = g.edges \ {CHOOSE e \in g.edges : e.id = id}]
  ELSE g

AddEntities(g, attributes) ==
  FoldSet(LAMBDA id, h : AddEntity(h, id, attributes[id]), g, DOMAIN attributes)

AddRelationships(g, edges) == FoldSet(LAMBDA e, h : AddRelationship(h, e), g, edges)
=============================================================================

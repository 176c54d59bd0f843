----------------------------- MODULE PathOverlap -----------------------------
(***************************************************************************)
(* PathOverlapAnalyzer.analyze (app/analytics/overlap.py): how often the   *)
(* paths of a result use an edge or an inner node, and how much the        *)
(* riskiest ones share with the others.  The analysis keeps no state; what *)
(* it says of a baseline is compared with what CounterfactualEngine finds. *)
(***************************************************************************)
EXTENDS Counterfactual

Sets == INSTANCE FiniteSetsExt

CONSTANT TopK   \* top_k

\* The places <<path, position>> at which an edge is traversed.
Places(paths) == UNION {{k} \X (1..Len(paths[k])) : k \in 1..Len(paths)}

Traversals(paths, id) == {p \in Places(paths) : paths[p[1]][p[2]].id = id}

\* Mutant: parallel edges are counted as one.
ParticipationOfPair(paths, id) ==
  Cardinality({p \in Places(paths) :
    \E e \in store : /\ e.id = id
                     /\ e.source = paths[p[1]][p[2]].source
                     /\ e.target = paths[p[1]][p[2]].target})

EdgeParticipation(paths, id) == Cardinality(Traversals(paths, id))

\* path_risks has the risk of every path of the result; the 0.0 that stands in
\* for a missing one is left out, here and in TopPaths.
RiskWeightedParticipation(paths, id) ==
  Sets!MapThenSumSet(LAMBDA t : PathRisk(paths[t[1]]), Traversals(paths, id))

\* Neither the source nor the target of a path is one of its choke points.
ChokePoints(paths, n) ==
  Cardinality({p \in Places(paths) :
    p[2] < Len(paths[p[1]]) /\ paths[p[1]][p[2]].target = n})

-----------------------------------------------------------------------------
EdgeIds(p) == {p[i].id : i \in 1..Len(p)}

\* sorted is stable: paths of the same risk keep the order of the result.
TopPaths(paths) ==
  LET AtLeastAsRisky(i) ==
        {j \in 1..Len(paths) :
           \/ PathRisk(paths[j]) > PathRisk(paths[i])
           \/ PathRisk(paths[j]) = PathRisk(paths[i]) /\ j <= i}
  IN  {paths[i] : i \in {j \in 1..Len(paths) : Cardinality(AtLeastAsRisky(j)) <= TopK}}

\* The Jaccard index of two paths is shared/all.
Overlap(p, q) == [a |-> p, b |-> q,
                  shared |-> Cardinality(EdgeIds(p) \cap EdgeIds(q)),
                  all    |-> Cardinality(EdgeIds(p) \cup EdgeIds(q))]

\* Pairs without a common edge are not listed.
JaccardOverlap(paths) ==
  LET pairs == {Overlap(p, q) : p \in TopPaths(paths),
                                q \in {paths[i] : i \in 1..Len(paths)}}
  IN  {o \in pairs : o.a # o.b /\ o.shared > 0}

-----------------------------------------------------------------------------
Isolated(E, n) == {e \in E : e.source # n /\ e.target # n}

\* What the overlap of a baseline predicts is what remediation does, also when
\* the baseline is truncated, which the overlap does not say: removing an edge
\* removes as many of its paths as the edge participates in, and lowers the
\* environment risk only if its risk-weighted participation is positive; it
\* removes two paths, one of them among the riskiest, only if they are listed
\* as overlapping, and no two paths overlap completely; a node without which
\* the target cannot be reached is a choke point of every path.  That a choke
\* point of every path is such a node takes a complete baseline.
OverlapPredictsRemediation ==
  phase \in {"evaluating", "returned"} =>
    LET paths == baseline.paths
        listed == JaccardOverlap(paths)
    IN  /\ \A i \in 1..Len(results) :
             LET r == results[i]
             IN  /\ EdgeParticipation(paths, r.id) = Cardinality(r.removed)
                 /\ r.reduction > 0 => RiskWeightedParticipation(paths, r.id) > 0
                 /\ \A p \in r.removed \cap TopPaths(paths) : \A q \in r.removed \ {p} :
                      \E o \in listed : o.a = p /\ o.b = q
        /\ \A o \in listed : o.shared < o.all
        /\ \A n \in Node \ {call.query.source, call.query.target} :
             LET chokes == ChokePoints(paths, n) = Len(paths)
                 needed == AttackPaths(Isolated(store, n), call.query) = {}
             IN  (needed => chokes) /\ (chokes /\ ~baseline.saturated => needed)
=============================================================================

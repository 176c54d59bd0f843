--------------------------- MODULE MCCounterfactual ---------------------------
(***************************************************************************)
(* Entity 1 attacks entity 4 over every store of at most MaxEdges of eight *)
(* edges, among them two parallel ones, a cycle and a direct one.  A       *)
(* direct path is certain (risk 1.0), a longer one carries risk 1/4 or 1/2. *)
(***************************************************************************)
EXTENDS ShowcaseReport

CONSTANT MaxEdges   \* bound on the edges of a store

MCNode == 1..4
MCRelId == 1..9     \* id 9 names no stored relationship
MCRelType == 1..2

Arc(i, s, t, ty) == [id |-> i, source |-> s, target |-> t, type |-> ty]

EdgeUniverse ==
  { Arc(1, 1, 2, 1), Arc(2, 1, 2, 2), Arc(3, 2, 4, 1), Arc(4, 1, 3, 2),
    Arc(5, 3, 4, 1), Arc(6, 2, 3, 1), Arc(7, 1, 4, 2), Arc(8, 3, 2, 1) }

MCGraphs == {S \in SUBSET EdgeUniverse : Cardinality(S) <= MaxEdges}

MCAnalytical == {6}

MCPathRisk(p) ==
  CASE Len(p) = 1 -> 4
    [] Len(p) = 2 -> IF p[1].type = 1 THEN 2 ELSE 1
    [] OTHER      -> 1

Query1(policy, hops, paths) ==
  [source |-> 1, target |-> 4, policy |-> policy,
   maxHops |-> hops, maxPaths |-> paths, types |-> MCRelType]

\* An AnalysisPolicyV2 prices every allowed type.
Priced(hops, budget) ==
  [kind |-> "policy", maxHops |-> hops, budget |-> budget,
   costs |-> [t \in MCRelType |-> t]]

Call(context, explicitBounds, evaluationTime, candidates, query) ==
  [context |-> context, explicitBounds |-> explicitBounds,
   evaluationTime |-> evaluationTime, candidates |-> candidates, query |-> query]

CandidateLists == {<<>>, <<7, 3>>, <<1, 2, 5>>, <<3, 3, 7>>, <<4, 9>>, <<5, 6>>}

MCCalls ==
  {Call("canonical", FALSE, "unset", cs, Query1(Priced(3, 9), 3, n)) :
     cs \in CandidateLists, n \in {2, 6}}
  \cup {Call("ad_hoc", FALSE, "unset", <<7, 3>>, Query1(Priced(2, 3), 2, 6)),
        Call("canonical", TRUE, "unset", <<7, 3>>, Query1(Priced(2, 3), 2, 6)),
        Call("canonical", FALSE, "aware", <<7, 3>>, Query1(Priced(2, 3), 2, 6)),
        Call("none", FALSE, "naive", <<7, 3>>, Query1(NoPolicy, 2, 6)),
        Call("none", FALSE, "aware", <<7, 3>>, Query1(NoPolicy, 3, 6)),
        Call("none", FALSE, "aware", <<7, 3>>, Query1(NoPolicy, 3, 1)),
        Call("none", TRUE, "aware", <<7, 3>>, Query1(NoPolicy, -1, 6)),
        Call("none", TRUE, "aware", <<7, 3>>, Query1(NoPolicy, 3, 0))}

MCShowcases == {c \in MCCalls : c.candidates = <<>> /\ c.query.maxPaths = 6}

(***************************************************************************)
(* Seven entities in three layers, each in the last below one of three.    *)
(***************************************************************************)
WideNode == 1..7
WideRelId == 1..6
WideGraphs ==
  {{Arc(i, 1, i + 1, 1) : i \in 1..3} \cup {Arc(i, f[i], i + 1, 1) : i \in 4..6} :
     f \in {h \in [4..6 -> 2..4] : h[4] = 2}}
WideCalls ==
  {Call("canonical", FALSE, "unset", <<>>,
        [source |-> 1, target |-> 5, policy |-> Priced(2, 9),
         maxHops |-> 2, maxPaths |-> 6, types |-> MCRelType])}
=============================================================================

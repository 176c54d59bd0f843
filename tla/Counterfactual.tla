---------------------------- MODULE Counterfactual ----------------------------
(***************************************************************************)
(* CounterfactualEngine.evaluate_candidates (app/analytics/                *)
(* counterfactual.py): enumerate the baseline, re-enumerate on a clone of  *)
(* the store without each candidate relationship, rank the candidates and  *)
(* derive whether the ranking may be persisted.                            *)
(*                                                                         *)
(* find_paths is used through its promise (PathSemantics!Enumeration),     *)
(* which module TraversalEngine shows that the search implements.          *)
(***************************************************************************)
EXTENDS PathSemantics, RiskAggregation

CONSTANTS
  Graphs,          \* the stores the engine is built on
  Calls,           \* the arguments evaluate_candidates is called with
  Analytical,      \* ids whose stored truth tier is ANALYTICAL; NetworkXStore
                   \* refuses to hold one, the GraphStore protocol does not
  PathRisk(_)      \* RiskEngine.calculate of a path, in units of 1/Scale

\* Relationship ids are primary keys: a projected store holds each once.
ASSUME UniqueRelationshipIds ==
  \A E \in Graphs : \A e, f \in E : e.id = f.id => e = f

ASSUME StoresAreFinite == \A E \in Graphs : E \subseteq Edge /\ IsFiniteSet(E)

ASSUME CallsAreTyped ==
  \A c \in Calls :
    /\ IsQuery(c.query)
    /\ c.candidates \in Seq(RelId)
    /\ c.context \in {"none", "ad_hoc", "canonical"}

\* RiskEngine multiplies and interpolates factors between 0 and 1; MaxRisks is
\* large enough for every set of paths.
ASSUME RisksFit ==
  \A E \in Graphs : \A c \in Calls :
    LET P == AttackPaths(E, c.query)
    IN  /\ Cardinality(P) <= MaxRisks
        /\ \A p \in P : PathRisk(p) \in 0..Scale

VARIABLES
  store,       \* self.store
  call,        \* the arguments of the call
  phase,       \* where the call is, or how it ended
  remaining,   \* the candidates still to be evaluated
  baseline,    \* the baseline PathfindingResult
  results,     \* one CounterfactualRemediationResult per evaluated candidate
  ranking      \* the EnvironmentRiskRanking that is returned

vars == <<store, call, phase, remaining, baseline, results, ranking>>

NoResult == [paths |-> <<>>, saturated |-> FALSE]
NoRanking == [authoritative |-> FALSE]

-----------------------------------------------------------------------------
\* Mutant: saturation is not reported.
FindPathsNeverSaturated(E) ==
  [paths |-> Enumeration(E, call.query), saturated |-> FALSE]

FindPaths(E) == [paths     |-> Enumeration(E, call.query),
                 saturated |-> Saturated(E, call.query)]

BoundsInvalid == MaxHops(call.query) < 0 \/ call.query.maxPaths < 1

PathIds(result) == {result.paths[i] : i \in 1..Len(result.paths)}

\* Mutant: the environment risk is that of the riskiest path.
RiskOfWorstPath(result) ==
  LET risks == {PathRisk(p) : p \in PathIds(result)} \cup {0}
  IN  (CHOOSE r \in risks : \A s \in risks : s <= r) * Scale ^ (MaxRisks - 1)

Risk(result) ==
  EnvironmentRisk([i \in 1..Len(result.paths) |-> PathRisk(result.paths[i])])

\* A context defines every analysis input; without one an aware evaluation
\* time is required.
ArgumentsRejected(c) ==
  \/ c.context # "none" /\ (c.explicitBounds \/ c.evaluationTime # "unset")
  \/ c.context = "none" /\ c.evaluationTime # "aware"

Init ==
  /\ store \in Graphs
  /\ call \in Calls
  /\ phase = "called"
  /\ remaining = call.candidates
  /\ baseline = NoResult
  /\ results = <<>>
  /\ ranking = NoRanking

RejectArguments ==
  /\ phase = "called"
  /\ ArgumentsRejected(call)
  /\ phase' = "arguments_rejected"
  /\ UNCHANGED <<store, call, remaining, baseline, results, ranking>>

BaselineBoundsError ==
  /\ phase = "called"
  /\ ~ArgumentsRejected(call)
  /\ BoundsInvalid
  /\ phase' = "bounds_error"
  /\ UNCHANGED <<store, call, remaining, baseline, results, ranking>>

EvaluateBaseline ==
  /\ phase = "called"
  /\ ~ArgumentsRejected(call)
  /\ ~BoundsInvalid
  /\ baseline' = FindPaths(store)
  /\ phase' = "evaluating"
  /\ UNCHANGED <<store, call, remaining, results, ranking>>

-----------------------------------------------------------------------------
Candidate == Head(remaining)

Evaluating == phase = "evaluating" /\ remaining # <<>>

IsStored(id) == \E e \in store : e.id = id

\* A relationship that is not stored, or an analytical one, is a ValueError.
\* Two more refusals cannot be met on a NetworkXStore, whose relationships
\* are edges between nodes it holds: a relationship without its endpoints
\* (counterfactual.py:197-201) and a removal that leaves it (205-206).
RejectCandidate ==
  /\ Evaluating
  /\ ~IsStored(Candidate) \/ Candidate \in Analytical
  /\ phase' = "candidate_rejected"
  /\ UNCHANGED <<store, call, remaining, baseline, results, ranking>>

\* Mutant: edges parallel to the removed one go with it.
WithoutParallels(E, id) ==
  {e \in E : \A f \in E : f.id = id => f.source # e.source \/ f.target # e.target}

\* clone() and remove_relationship(): the engine's own store is left alone.
WithoutRelationship(E, id) == {e \in E : e.id # id}

\* Mutant: the reduction has the wrong sign.
ResultWithIncrease(id, cf) ==
  [id        |-> id,
   cfRisk    |-> Risk(cf),
   reduction |-> Risk(cf) - Risk(baseline),
   cfCount   |-> Len(cf.paths),
   removed   |-> PathIds(baseline) \ PathIds(cf),
   kept      |-> PathIds(baseline) \cap PathIds(cf),
   saturated |-> cf.saturated,
   rankable  |-> ~(baseline.saturated \/ cf.saturated)]

\* The result model is built with endpoints and type of the removed edge,
\* which are left out here, and the facts the ranking reads.
Result(id, cf) ==
  [id        |-> id,
   cfRisk    |-> Risk(cf),
   reduction |-> Risk(baseline) - Risk(cf),
   cfCount   |-> Len(cf.paths),
   removed   |-> PathIds(baseline) \ PathIds(cf),
   kept      |-> PathIds(baseline) \cap PathIds(cf),
   saturated |-> cf.saturated,
   rankable  |-> ~(baseline.saturated \/ cf.saturated)]

Evaluable == Evaluating /\ IsStored(Candidate) /\ Candidate \notin Analytical

\* A counterfactual that saturates where the baseline did not is a
\* RuntimeError: the result is not recorded.
EvaluateCandidate ==
  /\ Evaluable
  /\ LET cf == FindPaths(WithoutRelationship(store, Candidate))
         saturationError == cf.saturated /\ ~baseline.saturated
     IN  /\ phase' = IF saturationError THEN "saturation_error" ELSE phase
         /\ results' = IF saturationError
                       THEN results
                       ELSE Append(results, Result(Candidate, cf))
  /\ remaining' = Tail(remaining)
  /\ UNCHANGED <<store, call, baseline, ranking>>

-----------------------------------------------------------------------------
RanksBefore(r, s) ==
  \/ r.reduction > s.reduction
  \/ r.reduction = s.reduction /\ r.cfRisk < s.cfRisk
  \/ r.reduction = s.reduction /\ r.cfRisk = s.cfRisk /\ r.cfCount < s.cfCount
  \/ /\ r.reduction = s.reduction /\ r.cfRisk = s.cfRisk /\ r.cfCount = s.cfCount
     /\ r.id < s.id

\* The permutations that list.sort may apply: only equal results, those of a
\* repeated candidate, are not told apart.
SortingOrders(rs) ==
  {f \in [1..Len(rs) -> 1..Len(rs)] :
     /\ \A k \in 1..Len(rs) : \E i \in 1..Len(rs) : f[i] = k
     /\ \A i, j \in 1..Len(rs) : i < j => ~RanksBefore(rs[f[j]], rs[f[i]])}

Ordered(rs, f) == [i \in 1..Len(rs) |-> rs[f[i]]]

AnySaturated(rs) == \E i \in 1..Len(rs) : rs[i].saturated

\* Mutant: a saturated baseline is not a reason.
ReasonsWithoutBaseline ==
  (IF AnySaturated(results) THEN {"COUNTERFACTUAL_SATURATED"} ELSE {})
  \cup (CASE call.context = "none"   -> {"NO_ANALYSIS_CONTEXT"}
          [] call.context = "ad_hoc" -> {"NON_CANONICAL_SCOPE"}
          [] OTHER                   -> {})

Reasons ==
  (IF baseline.saturated THEN {"BASELINE_SATURATED"} ELSE {})
  \cup (IF AnySaturated(results) THEN {"COUNTERFACTUAL_SATURATED"} ELSE {})
  \cup (CASE call.context = "none"   -> {"NO_ANALYSIS_CONTEXT"}
          [] call.context = "ad_hoc" -> {"NON_CANONICAL_SCOPE"}
          [] OTHER                   -> {})

Ranking(f) ==
  [candidates        |-> Ordered(results, f),
   baselineSaturated |-> baseline.saturated,
   saturated         |-> baseline.saturated \/ AnySaturated(results),
   reasons           |-> Reasons,
   authoritative     |-> Reasons = {},
   baselineRisk      |-> Risk(baseline),
   baselineCount     |-> Len(baseline.paths)]

\* The model validators of CounterfactualRemediationResult and
\* EnvironmentRiskRanking, re-derived from the recorded facts.
RankingIsConsistent(r) ==
  /\ AnySaturated(r.candidates) => r.baselineSaturated
  /\ r.saturated = (r.baselineSaturated \/ AnySaturated(r.candidates))
  /\ \A i \in 1..Len(r.candidates) :
       r.candidates[i].rankable = ~(r.baselineSaturated \/ r.candidates[i].saturated)
  /\ "BASELINE_SATURATED" \in r.reasons <=> r.baselineSaturated
  /\ "COUNTERFACTUAL_SATURATED" \in r.reasons <=> AnySaturated(r.candidates)
  /\ "NO_ANALYSIS_CONTEXT" \in r.reasons <=> call.context = "none"
  /\ "NON_CANONICAL_SCOPE" \in r.reasons <=> call.context = "ad_hoc"
  /\ r.authoritative = (r.reasons = {})

\* Constructing an inconsistent ranking raises.
ReturnRanking ==
  /\ phase = "evaluating"
  /\ remaining = <<>>
  /\ \E f \in SortingOrders(results) :
       LET consistent == RankingIsConsistent(Ranking(f))
       IN  /\ phase' = IF consistent THEN "returned" ELSE "ranking_rejected"
           /\ ranking' = IF consistent THEN Ranking(f) ELSE NoRanking
  /\ UNCHANGED <<store, call, remaining, baseline, results>>

Next ==
  \/ RejectArguments
  \/ BaselineBoundsError
  \/ EvaluateBaseline
  \/ RejectCandidate
  \/ EvaluateCandidate
  \/ ReturnRanking

Spec == Init /\ [][Next]_vars

-----------------------------------------------------------------------------
(***************************************************************************)
(* Properties.                                                             *)
(***************************************************************************)
Uses(p, id) == \E i \in 1..Len(p) : p[i].id = id

\* The two fail-closed checks are dead code: removing one relationship never
\* turns a complete enumeration into a truncated one, and the ranking that
\* the engine derives always passes the validators of its own schema.
FailClosedChecksNeverFire == phase \notin {"saturation_error", "ranking_rejected"}

\* Removing a relationship removes exactly the paths of the baseline that
\* traverse it, be the baseline complete or truncated: a result does not see
\* the removals of the candidates evaluated before it, and no path that stays
\* is pushed out by max_paths.  With a complete baseline nothing else enters.
RemovalPartitionsBaseline ==
  \A i \in 1..Len(results) :
    LET r == results[i]
    IN  /\ r.removed = {p \in PathIds(baseline) : Uses(p, r.id)}
        /\ r.kept = PathIds(baseline) \ r.removed
        /\ ~baseline.saturated => r.cfCount = Cardinality(r.kept)

\* A rankable candidate never raises the environment risk, and lowers it
\* exactly when it removes a path with risk and no certain path remains.  The
\* docstring of EnvironmentRiskAggregator (aggregator.py:21-22) claims more,
\* that "removing any path (where risk > 0) will strictly reduce the
\* environment risk": it does not while a path of risk 1 is left.
RankableReductionIsSound ==
  \A i \in 1..Len(results) :
    LET r == results[i]
    IN  r.rankable =>
          /\ r.reduction >= 0
          /\ r.reduction > 0 <=>
               /\ \E p \in r.removed : PathRisk(p) > 0
               /\ \A p \in r.kept : PathRisk(p) < Scale

\* The risk of the complete set of paths of a store.
FullRisk(E) ==
  LET P == AttackPaths(E, call.query)
      paths == FirstPaths(P, Cardinality(P))
  IN  EnvironmentRisk([i \in 1..Len(paths) |-> PathRisk(paths[i])])

\* The environment risks of a ranking, saturated or not, never exceed those
\* of the complete path sets, and equal them when the ranking is not
\* saturated.
RisksAreLowerBounds ==
  /\ phase \in {"evaluating", "returned"} =>
       /\ Risk(baseline) <= FullRisk(store)
       /\ ~baseline.saturated => Risk(baseline) = FullRisk(store)
  /\ \A i \in 1..Len(results) :
       LET r == results[i]
           full == FullRisk(WithoutRelationship(store, r.id))
       IN  r.cfRisk <= full /\ (r.rankable => r.cfRisk = full)

\* A ranking that may be persisted was computed under a context with a
\* canonically resolved scope, from every valid path, and ranks only
\* candidates whose reduction is a complete measurement.
AuthoritativeIsComplete ==
  phase = "returned" /\ ranking.authoritative =>
    /\ call.context = "canonical"
    /\ PathIds(baseline) = AttackPaths(store, call.query)
    /\ \A i \in 1..Len(ranking.candidates) : ranking.candidates[i].rankable

\* EnvironmentRiskRanking says of the numbers of a saturated ranking that
\* they are lower bounds; of the reductions that is not so.
ReductionsAreLowerBounds ==
  \A i \in 1..Len(results) :
    LET r == results[i]
    IN  r.reduction <= FullRisk(store) - FullRisk(WithoutRelationship(store, r.id))
=============================================================================

---------------------------- MODULE ShowcaseReport ----------------------------
(***************************************************************************)
(* What analyze (app/showcase/pipeline.py) makes of a projected store: its *)
(* own traversal, the counterfactual ranking of every relationship on a    *)
(* path, the comparison of the two, the featured remediation, the same     *)
(* analysis under a tighter max_paths, and the drawing of the report.      *)
(*                                                                         *)
(* The engine is that of Counterfactual, called twice; it may be called by *)
(* others too, with arguments of their own.                                *)
(***************************************************************************)
EXTENDS PathOverlap

Svg == INSTANCE SvgLayout

CONSTANTS
  Showcases,       \* the calls that analyze may make, their candidates to be found
  BoundedMaxPaths  \* max_paths of BOUNDED_POLICY

\* Each is made under a context, with two different entities and bounds that
\* a policy admits.
ASSUME ShowcasesAreCalls ==
  /\ Showcases \subseteq Calls
  /\ BoundedMaxPaths \in Nat \ {0}
  /\ \A c \in Showcases :
       /\ c = [context |-> "canonical", explicitBounds |-> FALSE,
               evaluationTime |-> "unset", candidates |-> <<>>, query |-> c.query]
       /\ DOMAIN c.query = {"source", "target", "policy", "maxHops", "maxPaths", "types"}
       /\ c.query.source # c.query.target
       /\ MaxHops(c.query) >= 0 /\ c.query.maxPaths >= 1

\* The entities of an environment are the rows of a table.
ASSUME EnvironmentIsFinite == IsFiniteSet(Node)

VARIABLES
  stage,   \* where analyze is; "none" if the call is not the showcase's
  report   \* the parts of the ShowcaseReport that are known

reportVars == <<vars, stage, report>>

NoReport == [traversal |-> NoResult]

Environment ==
  [nodes |-> Node, edges |-> store, source |-> call.query.source]

ReportInit ==
  /\ Init
  /\ stage \in IF call \in Showcases THEN {"none", "traversing"} ELSE {"none"}
  /\ report = NoReport

-----------------------------------------------------------------------------
IdsOn(paths) == UNION {EdgeIds(paths[i]) : i \in 1..Len(paths)}

\* sorted of a set of ids: the k-th has k - 1 before it.
Sorted(ids) ==
  [k \in 1..Cardinality(ids) |->
     CHOOSE i \in ids : Cardinality({j \in ids : j < i}) = k - 1]

\* Mutant: the relationships of the first path only are candidates.
CandidatesOfFirst(paths) == Sorted(EdgeIds(paths[1]))

Candidates(paths) == Sorted(IdsOn(paths))

Inconsistent ==
  /\ stage' = "inconsistent"
  /\ UNCHANGED <<vars, report>>

\* Mutant: the traversal has its own hop bound.
TraversalPathsByHops ==
  [paths     |-> Enumeration(store, [call.query EXCEPT !.policy = NoPolicy, !.maxHops = 2]),
   saturated |-> Saturated(store, call.query)]

\* traversal_bounds_for_policy: the bounds that the engine derives as well.
TraversalPaths == FindPaths(store)

\* The engine is called on the candidates that the paths yield.
Traverse ==
  /\ stage = "traversing"
  /\ LET found == TraversalPaths
     IN  IF found.paths = <<>> THEN Inconsistent
         ELSE /\ stage' = "primary"
              /\ report' = [traversal |-> found]
              /\ call' = [call EXCEPT !.candidates = Candidates(found.paths)]
              /\ remaining' = Candidates(found.paths)
              /\ UNCHANGED <<store, phase, baseline, results, ranking>>

Diverges ==
  \/ ranking.baselineCount # Len(report.traversal.paths)
  \/ ranking.baselineRisk # Risk(report.traversal)
  \/ ranking.baselineSaturated # report.traversal.saturated

Partitions(c) ==
  /\ c.removed \cup c.kept = PathIds(report.traversal)
  /\ c.removed \cap c.kept = {}

Equivalent(c, best) == c.reduction = best.reduction /\ c.kept = best.kept

\* The first of the ranking is featured.
Feature ==
  /\ stage = "primary" /\ phase = "returned"
  /\ LET ranked == ranking.candidates
         best == ranked[1]
     IN  IF \/ Diverges
            \/ \E i \in 1..Len(ranked) : ~Partitions(ranked[i])
            \/ ~best.rankable
            \/ Cardinality(best.kept) # best.cfCount
         THEN Inconsistent
         ELSE /\ stage' = "bounded"
              /\ report' =
                   [traversal  |-> report.traversal,
                    primary    |-> ranking,
                    featured   |-> best.id,
                    equivalent |-> {ranked[i].id : i \in
                                     {k \in 2..Len(ranked) : Equivalent(ranked[k], best)}}]
              /\ call' = [call EXCEPT !.query.maxPaths = BoundedMaxPaths]
              /\ phase' = "called"
              /\ remaining' = call.candidates
              /\ baseline' = NoResult
              /\ results' = <<>>
              /\ ranking' = NoRanking
              /\ UNCHANGED store

\* Mutant: saturation is that of the analysis that is reported.
BoundedWithPrimaryFlag == [ranking EXCEPT !.saturated = report.primary.saturated]

Bounded == ranking

\* The report is complete; render_svg draws its environment.
Publish ==
  /\ stage = "bounded" /\ phase = "returned"
  /\ stage' = "reported"
  /\ report' = [part \in DOMAIN report \cup {"bounded", "drawing"} |->
                  CASE part = "bounded" -> Bounded
                    [] part = "drawing" -> Svg!Drawing(Environment)
                    [] OTHER -> report[part]]
  /\ UNCHANGED vars

Engine ==
  /\ stage \in {"none", "primary", "bounded"}
  /\ Next
  /\ UNCHANGED <<stage, report>>

ReportNext == Engine \/ Traverse \/ Feature \/ Publish

ReportSpec == ReportInit /\ [][ReportNext]_reportVars

-----------------------------------------------------------------------------
(***************************************************************************)
(* Properties.                                                             *)
(***************************************************************************)
\* analyze gives up only because there is no attack path or max_paths was
\* reached: its own traversal and the engine never contradict each other.
OnlySaturationIsInconsistent ==
  stage = "inconsistent" =>
    AttackPaths(store, call.query) = {} \/ Saturated(store, call.query)

\* No relationship of the store, candidate or not, is a better one to remove
\* than the featured one, and it and its equivalents are exactly those whose
\* removal leaves the same paths.
FeaturedIsTheBestCut ==
  stage \in {"bounded", "reported"} =>
    LET Left(id) == AttackPaths(WithoutRelationship(store, id), call.query)
        best     == report.featured
    IN  /\ \A e \in store : FullRisk(WithoutRelationship(store, best))
                              <= FullRisk(WithoutRelationship(store, e.id))
        /\ {best} \cup report.equivalent = {e.id : e \in {f \in store : Left(f.id) = Left(best)}}

\* The bounded analysis either is that of the report or says that it is not:
\* then nothing in it is rankable, and it is not authoritative.
BoundSensitivityIsHonest ==
  stage = "reported" =>
    LET bounded == report.bounded
    IN  /\ bounded.baselineRisk <= report.primary.baselineRisk
        /\ IF bounded.saturated
           THEN /\ ~bounded.authoritative
                /\ \A i \in 1..Len(bounded.candidates) : ~bounded.candidates[i].rankable
           ELSE bounded = report.primary

\* Relationships run from layer to layer downwards, through a waypoint in each
\* layer between, unless their source is not reached or there is a cycle.
RelationshipsRunDown ==
  stage = "reported" =>
    \A e \in store :
      Svg!Acyclic(Environment) /\ Svg!Reached(Environment, e.source) =>
        LET items == Svg!Chain(Environment, e).items
        IN  \A k \in 1..Len(items) - 1 : items[k + 1].layer = items[k].layer + 1

\* Boxes and waypoints of a layer keep their distance, wherever they wished to
\* be and however far the layer was moved.
ItemsKeepApart ==
  stage = "reported" =>
    LET placed == report.drawing.placed
        LeftOf(p, q) == p.left + Svg!Width(p.item) + Svg!HGap <= q.left
    IN  \A p \in placed : \A q \in placed \ {p} :
          p.item.layer = q.item.layer => LeftOf(p, q) \/ LeftOf(q, p)

\* "Keep the layer inside the canvas without reordering it."
BoxesStayOnTheCanvas ==
  stage = "reported" =>
    \A p \in report.drawing.placed :
      /\ p.left >= Svg!Margin
      /\ p.left + Svg!Width(p.item) <= report.drawing.width - Svg!Margin
=============================================================================

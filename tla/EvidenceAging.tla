----------------------------- MODULE EvidenceAging -----------------------------
(***************************************************************************)
(* The risk of one attack path as its evidence ages: decay-policy-v1 and   *)
(* resolve_edge_evidence (app/analytics/decay.py), build_risk_input        *)
(* (app/analytics/path_analysis.py) and RiskEngine.calculate               *)
(* (app/analytics/risk_engine.py).  One behavior evaluates one path at     *)
(* later and later evaluation times; canonical evidence does not change.   *)
(*                                                                         *)
(* Numbers are exact: confidences are multiples of 1/50, the other factors *)
(* of 1/Precision.  The geometric mean of the edge enablements depends on  *)
(* nothing that ages; it is one of the factors.                            *)
(***************************************************************************)
EXTENDS FiniteSetsExt, SequencesExt

CONSTANTS
  Paths,      \* the paths: for each edge its truth tier and evidence rows,
              \* in the order in which the database returned them
  Precision,  \* what the other factors of a risk are multiples of, inverted
  Factors,    \* criticality, exposure, enablement, amplifier
  Source,     \* the sources that evidence rows name
  Horizon     \* bound on the evaluation time

VARIABLES
  path,       \* the edges of the path
  factors,    \* the factors of its risk that do not depend on evidence
  now         \* the evaluation time

agingVars == <<path, factors, now>>

\* CONFIDENCE_TIERS: UNKNOWN, LOW, MEDIUM, HIGH; a row without confidence is
\* UNKNOWN.
Tier == 0..3

EvidenceRow == [collected : Nat, ttl : Nat, tier : Tier, source : Source]

\* The truth tier of an edge and its rows.
EvidencedEdge == [tier : STRING, rows : Seq(EvidenceRow)]

ASSUME PathsAreEvidenced == Paths \subseteq Seq(EvidencedEdge)

\* No table of the engine has a value above 1.
Factor == [criticality : 0..Precision, exposure : 0..Precision,
           enablement : 0..Precision, amplifier : 0..Precision]

ASSUME FactorsAreFractions == Precision \in Nat /\ Factors \subseteq Factor

ConfidenceValue(tier) == <<10, 25, 40, 50>>[tier + 1]

Unit == 50

Power(n) ==
  LET upto[k \in 0..n] == IF k = 0 THEN 1 ELSE Unit * upto[k - 1]
  IN  upto[n]

-----------------------------------------------------------------------------
(***************************************************************************)
(* apply_decay.  A row without collected_at has time 0, one without TTL    *)
(* has ttl 0.  All times are aware: the ValueErrors for naive ones are     *)
(* left out.                                                               *)
(***************************************************************************)
Downgrade(tier) == IF tier > 0 THEN tier - 1 ELSE tier

Stale(row, time) ==
  row.collected # 0 /\ row.ttl # 0 /\ time > row.collected + row.ttl

Decayed(row, time) == IF Stale(row, time) THEN Downgrade(row.tier) ELSE row.tier

(***************************************************************************)
(* resolve_edge_evidence: the latest row wins, among those the least       *)
(* confident, among those the first.                                       *)
(***************************************************************************)
\* Mutant: rows of the same time are left in their order.
PrecedesByTime(r, s, time) == r.collected > s.collected

Precedes(r, s, time) ==
  \/ r.collected > s.collected
  \/ r.collected = s.collected /\ Decayed(r, time) < Decayed(s, time)

\* Mutant: stale rows are dropped while fresh ones remain.
EligibleFresh(rows, time) ==
  LET fresh == {i \in DOMAIN rows : ~Stale(rows[i], time)}
  IN  IF fresh = {} THEN DOMAIN rows ELSE fresh

Eligible(rows, time) == DOMAIN rows

Winner(rows, time) ==
  LET best == {i \in Eligible(rows, time) :
                 \A j \in Eligible(rows, time) : ~Precedes(rows[j], rows[i], time)}
  IN  rows[Min(best)]

\* Confidence tier and source of the k-th edge; an edge without a named
\* source has one of its own.
Resolved(p, k, time) ==
  IF p[k].tier = "INFERRED" \/ p[k].rows = <<>>
  THEN [tier |-> 0, source |-> k]
  ELSE LET row == Winner(p[k].rows, time)
       IN  [tier |-> Decayed(row, time), source |-> row.source]

-----------------------------------------------------------------------------
(***************************************************************************)
(* RiskEngine.calculate.                                                   *)
(***************************************************************************)
EdgeConfidence(p, k, time) ==
  LET value == ConfidenceValue(Resolved(p, k, time).tier)
  IN  IF p[k].tier = "INFERRED" THEN (value * 4) \div 5 ELSE value

Confidences(p, edges, time) == {EdgeConfidence(p, k, time) : k \in edges}

\* risk-v1: the least confidence on the path.
MinimumConfidence(p, time) == Min(Confidences(p, DOMAIN p, time) \cup {Unit})

SourcesOf(p, time) == {Resolved(p, k, time).source : k \in DOMAIN p}

EdgesOf(p, source, time) == {k \in DOMAIN p : Resolved(p, k, time).source = source}

GroupConfidence(p, source, time) ==
  Min(Confidences(p, EdgesOf(p, source, time), time))

\* risk-v2: the product of the least confidences of the sources.
SourceConfidence(p, time) ==
  FoldSet(LAMBDA s, product : product * GroupConfidence(p, s, time), 1,
          SourcesOf(p, time))

\* Both confidences in units of 1/Unit^(Len(p) + 1).
PathConfidence(formula, p, time) ==
  IF formula = "risk-v1"
  THEN MinimumConfidence(p, time) * Power(Len(p))
  ELSE SourceConfidence(p, time) * Power(Len(p) + 1 - Cardinality(SourcesOf(p, time)))

\* numeric_risk in units of 1/(Precision^4 * Unit^(Len(p) + 1)): the base risk,
\* interpolated towards 1 by the amplifier of the worst finding.
Risk(formula, p, f, time) ==
  LET base == f.criticality * f.exposure * f.enablement * PathConfidence(formula, p, time)
      one  == Precision * Precision * Precision * Power(Len(p) + 1)
  IN  Precision * base + (one - base) * f.amplifier

AgingInit ==
  /\ path \in Paths
  /\ factors \in Factors
  /\ now = 0

\* The analysis is run again at a later evaluation time.
EvaluateLater ==
  /\ now < Horizon
  /\ now' = now + 1
  /\ UNCHANGED <<path, factors>>

AgingSpec == AgingInit /\ [][EvaluateLater]_agingVars

-----------------------------------------------------------------------------
(***************************************************************************)
(* Properties.                                                             *)
(***************************************************************************)
\* ANA-9: uncertainty never increases a risk.  Under risk-v1 a path is never
\* riskier when its evidence is older, although decay may change which row
\* an edge resolves to.
AgingNeverRaisesRisk ==
  [][Risk("risk-v1", path, factors, now') <= Risk("risk-v1", path, factors, now)]_now

\* Under risk-v1 the order in which the database returns the evidence rows,
\* which nothing fixes, does not show in the risk (ANA-3).
Shuffles(rows) ==
  {[i \in DOMAIN rows |-> rows[f[i]]] : f \in Bijection(DOMAIN rows, DOMAIN rows)}

Reordered(p) ==
  UNION {{[p EXCEPT ![k].rows = rows] : rows \in Shuffles(p[k].rows)} : k \in DOMAIN p}

RowOrderKeepsConfidence ==
  \A p \in Reordered(path) :
    Risk("risk-v1", p, factors, now) = Risk("risk-v1", path, factors, now)

\* ANA-9 as stated, of risk-v2: no code path lets uncertainty raise a risk.
AgingNeverRaisesSourceAwareRisk ==
  [][Risk("risk-v2", path, factors, now') <= Risk("risk-v2", path, factors, now)]_now
=============================================================================

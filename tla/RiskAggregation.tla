--------------------------- MODULE RiskAggregation ---------------------------
(***************************************************************************)
(* EnvironmentRiskAggregator (app/analytics/aggregator.py): the saturating *)
(* aggregation 1 - (1 - r_1)...(1 - r_n) of path risks, in exact           *)
(* arithmetic.  A path risk is a multiple of 1/Scale, an environment risk  *)
(* a multiple of 1/Scale^MaxRisks; the rounding of the code's floats is    *)
(* abstracted.                                                             *)
(***************************************************************************)
EXTENDS Integers, Sequences

CONSTANTS
  Scale,      \* the risk 1.0
  MaxRisks    \* bound on the path risks that are aggregated together

ASSUME RiskUnits == Scale \in Nat \ {0} /\ MaxRisks \in Nat

\* The factors 1 - r of the risks, one after the other; a path that is not
\* there carries no risk.
Products(risks) ==
  LET product[i \in 0..MaxRisks] ==
        IF i = 0 THEN 1
        ELSE product[i - 1] * (Scale - (IF i <= Len(risks) THEN risks[i] ELSE 0))
  IN  product

Complement(risks) == Products(risks)[MaxRisks]

EnvironmentRisk(risks) == Complement(<<>>) - Complement(risks)
=============================================================================

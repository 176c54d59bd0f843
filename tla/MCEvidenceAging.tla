--------------------------- MODULE MCEvidenceAging ---------------------------
(***************************************************************************)
(* Paths of two edges.  The first has up to two evidence rows of any age,  *)
(* confidence and source; the second is inferred, has none, or has one     *)
(* that never expires.                                                     *)
(***************************************************************************)
EXTENDS EvidenceAging

MCSource == {11, 12}

Row == [collected : 0..2, ttl : 0..1, tier : Tier \ {1}, source : MCSource]

Rows == {<<>>} \cup {<<r>> : r \in Row} \cup {<<r, s>> : r, s \in Row}

Observed(rows) == [tier |-> "OBSERVED", rows |-> rows]

SecondEdges ==
  {[tier |-> "INFERRED", rows |-> <<>>], Observed(<<>>)}
  \cup {Observed(<<[collected |-> 1, ttl |-> 0, tier |-> t, source |-> 11]>>) : t \in {1, 3}}

MCPaths == {<<Observed(rows), edge>> : rows \in Rows, edge \in SecondEdges}

MCFactors ==
  {[criticality |-> 8, exposure |-> 10, enablement |-> 6, amplifier |-> 4]}
=============================================================================

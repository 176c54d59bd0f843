--------------------------- MODULE MCGraphProjection ---------------------------
(***************************************************************************)
(* Two entities and two parallel relationships between them, one of whose  *)
(* ids may be stored anew in the other direction.  Where builds race, one  *)
(* session writes; where two sessions race, the build comes after them.    *)
(***************************************************************************)
EXTENDS GraphProjection

CONSTANTS reading, s1, s2, e1, e2, r1, r2, f1, l1, v1, v2, a1, a2

MCSession == {reading, s1, s2}

Ent(e, value) == Entity(e, e, value)

Ops(op, R) == {[op |-> op, row |-> r] : r \in R}

GraphCalls ==
  Ops("create", {Ent(e1, a1), Ent(e2, a2), Relationship(r1, e1, e2, <<v1>>),
                 Relationship(r2, e1, e2, <<>>), Relationship(r2, e2, e1, <<v1, v2>>)})
  \cup Ops("update", {Ent(e1, a2), Ent(e2, a1)})
  \cup Ops("delete", {Ent(e1, a1), Ent(e2, a2), Relationship(r1, e1, e2, <<v1>>),
                      Relationship(r2, e1, e2, <<>>)})
  \cup Ops("add_evidence", {Link(Relationship(r1, e1, e2, <<v1>>), v2)})

TableCalls ==
  Ops("create", {Ent(e2, a2), Relationship(r2, e2, e1, <<v1, v2>>),
                 Finding(f1, e1, <<v1>>), AuditLog(l1)})
  \cup Ops("create", {Relationship(r2, e1, e2, <<v1, v1>>)})
  \cup Ops("update", {Ent(e1, a2), Entity(e2, e1, a2)})
  \cup Ops("delete", {Ent(e1, a1), Ent(e2, a2), Finding(f1, e1, <<v1>>)})
  \cup Ops("add_evidence", {Link(Relationship(r1, e1, e2, <<v1>>), v2)})

\* Those that meet the calls of the other session.
RivalCalls ==
  Ops("create", {Ent(e2, a2), Relationship(r2, e2, e1, <<v1, v2>>), Finding(f1, e1, <<v1>>)})
  \cup Ops("delete", {Ent(e1, a1), Ent(e2, a2)})

MCCalls ==
  [s \in MCSession |-> CASE s = reading -> GraphCalls
                         [] s = s1 -> TableCalls
                         [] s = s2 -> RivalCalls]

Evidence == {EvidenceRow(v1), EvidenceRow(v2)}

R1 == Relationship(r1, e1, e2, <<v1>>)
R2 == Relationship(r2, e1, e2, <<>>)

Full == Evidence \cup {Ent(e1, a1), Ent(e2, a1), R1, R2, Link(R1, v1)}

MCSituations ==
  [rows : {Evidence, Full}, reader : {"idle"},
   calls : {[s \in MCSession |-> IF s = reading THEN 3 ELSE 0]}]
  \cup
  [rows : {Evidence \cup {Ent(e1, a1)},
           Evidence \cup {Ent(e1, a1), Ent(e2, a1), R1, Link(R1, v1)}},
   reader : {"later"},
   calls : {[s \in MCSession |-> IF s = reading THEN 0 ELSE 2]}]
=============================================================================

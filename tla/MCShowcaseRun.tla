----------------------------- MODULE MCShowcaseRun -----------------------------
(***************************************************************************)
(* A fixture of three entities, an observed and an inferred relationship,  *)
(* a finding, evidence, scope and definition.  Clients may commit an       *)
(* entity with a relationship and its evidence, delete the entity, store   *)
(* it and the relationship again, and try to commit a relationship and a   *)
(* finding on entities of the fixture.                                     *)
(***************************************************************************)
EXTENDS ShowcaseRun

MCNode == 1..4
MCRelId == 1..4
MCRelType == {1}

MCTables == <<"entities", "evidence", "scopes", "findings", "relationships",
              "scope_definitions", "finding_evidence", "relationship_evidence">>

Ent(i) == [table |-> "entities", id |-> i, refs |-> <<>>]
Evi(i) == [table |-> "evidence", id |-> i, refs |-> <<>>]
Rel(i, s, t) == [table |-> "relationships", id |-> i, type |-> 1,
                 refs |-> <<<<"entities", s>>, <<"entities", t>>>>]
Fnd(i, e) == [table |-> "findings", id |-> i, refs |-> <<<<"entities", e>>>>]
RelEv(r, e) == [table |-> "relationship_evidence", id |-> <<r, e>>,
                refs |-> <<<<"relationships", r>>, <<"evidence", e>>>>]
FndEv(f, e) == [table |-> "finding_evidence", id |-> <<f, e>>,
                refs |-> <<<<"findings", f>>, <<"evidence", e>>>>]

MCFixture ==
  << Ent(1), Ent(2), Ent(3), Evi(1), Rel(1, 1, 2), RelEv(1, 1), Rel(2, 2, 3),
     Fnd(1, 3), FndEv(1, 1),
     [table |-> "scopes", id |-> 1, refs |-> <<>>],
     [table |-> "scope_definitions", id |-> <<1, 1>>, refs |-> <<<<"scopes", 1>>>>] >>

MCBatches ==
  { {Ent(4), Rel(3, 4, 4), Evi(2), RelEv(3, 2)},
    {Ent(4), Rel(3, 4, 4), RelEv(3, 2)},
    {Rel(4, 1, 3), Fnd(2, 2)} }

MCQuery == [source |-> 1, target |-> 3, policy |-> NoPolicy,
            maxHops |-> 3, maxPaths |-> 5, types |-> MCRelType]
=============================================================================

---------------------------- MODULE GraphProjection ----------------------------
(***************************************************************************)
(* GraphBuilder.build (app/graph/builder.py) projects the canonical tables *)
(* while sessions write to them through the repositories                   *)
(* (CanonicalTables).                                                      *)
(*                                                                         *)
(* At READ COMMITTED every SELECT has a snapshot of its own, so a build    *)
(* reads the tables as they are at three moments: entities, relationships, *)
(* evidence links.  Each build uses a new session: what the ORM's identity *)
(* map would keep from an earlier build is left out.                       *)
(***************************************************************************)
EXTENDS GraphStore, CanonicalTables

VARIABLES
  phase,      \* where the reader is; "later" if it waits for the writers
  graph,      \* the store
  rows,       \* relationship rows whose links are still to be loaded
  seen        \* the committed states since the build began

reader == <<phase, graph, rows>>

tables == <<db, session>>

vars == <<tables, reader, seen>>

-----------------------------------------------------------------------------
(* What the tables say.                                                    *)

In(d, table) == {r \in d : r.table = table}

EntitiesOf(d) == {r.id : r \in In(d, "entities")}

Attributes(d) ==
  [e \in EntitiesOf(d) |-> (CHOOSE r \in In(d, "entities") : r.id = e).value[1]]

RelationsOf(d) == In(d, "relationships")

LinksOf(d, r) ==
  {ev.id : ev \in {e \in In(d, "evidence") : Link(r, e.id) \in d}}

EdgeOf(r, evidence) ==
  [id |-> r.id, source |-> r.value[1], target |-> r.value[2], evidence |-> evidence]

\* What build produces from tables that do not change.
Project(d) ==
  [nodes |-> Attributes(d),
   edges |-> {EdgeOf(r, LinksOf(d, r)) : r \in RelationsOf(d)}]

\* The tables without a relationship, and so without its links.
Without(d, r) == {q \in d : q # r /\ Key(r) \notin q.owners}

ASSUME ReaderAssumption ==
  \A situation \in Situations : situation.reader \in {"idle", "later"}

Init ==
  /\ \E situation \in Situations :
       TablesInit(situation) /\ phase = situation.reader
  /\ graph = EmptyGraph
  /\ rows = {}
  /\ seen = {}

-----------------------------------------------------------------------------
Building == phase \in {"cleared", "nodes", "rows"}

\* The sessions go on; what they commit during a build is kept in mind.
Write ==
  /\ \E s \in Session : SessionStep(s) \/ \E call \in Calls[s] : Call(s, call)
  /\ seen' = IF Building /\ db' # db THEN seen \cup {db'} ELSE seen
  /\ UNCHANGED reader

Quiet ==
  \A s \in Session : session[s].calls = 0 /\ session[s].todo = <<>>
                     /\ session[s].error = "none" /\ ~HasWritten(s)

-----------------------------------------------------------------------------
(***************************************************************************)
(* GraphBuilder.build, one step per statement it awaits.                   *)
(***************************************************************************)
MayStart ==
  phase \in {"idle", "failed", "built"} \/ (phase = "later" /\ Quiet)

\* Mutant: the store is not cleared.
StartBuildUncleared ==
  /\ MayStart
  /\ phase' = "cleared"
  /\ seen' = {db}
  /\ UNCHANGED <<tables, graph, rows>>

StartBuild ==
  /\ MayStart
  /\ graph' = EmptyGraph
  /\ phase' = "cleared"
  /\ seen' = {db}
  /\ UNCHANGED <<tables, rows>>

ProjectEntities ==
  /\ phase = "cleared"
  /\ graph' = AddEntities(graph, Attributes(db))
  /\ phase' = "nodes"
  /\ UNCHANGED <<tables, rows, seen>>

QueryRelationships ==
  /\ phase = "nodes"
  /\ rows' = RelationsOf(db)
  /\ phase' = "rows"
  /\ UNCHANGED <<tables, graph, seen>>

\* selectinload: a second SELECT for the links and evidence of the rows.
ProjectRelationships ==
  /\ phase = "rows"
  /\ graph' = AddRelationships(graph, {EdgeOf(r, LinksOf(db, r)) : r \in rows})
  /\ rows' = {}
  /\ phase' = "built"
  /\ UNCHANGED <<tables, seen>>

\* A statement fails, or the task is cancelled: the store stays as it is.
FailBuild ==
  /\ Building
  /\ phase' = "failed"
  /\ rows' = {}
  /\ UNCHANGED <<tables, graph, seen>>

Next ==
  \/ Write
  \/ StartBuild
  \/ ProjectEntities
  \/ QueryRelationships
  \/ ProjectRelationships
  \/ FailBuild

Spec == Init /\ [][Next]_vars

-----------------------------------------------------------------------------
(***************************************************************************)
(* Properties.                                                             *)
(***************************************************************************)
Projected == phase = "built"

\* While nothing is committed, a build yields exactly the projection of the
\* tables: nothing is left of an earlier or a failed build (ARCH-5).
QuietBuildIsExact ==
  Projected /\ Cardinality(seen) = 1 => graph \in {Project(d) : d \in seen}

\* A build that races commits is torn, but within limits: an entity,
\* relationship or link that was there throughout is in the store, and
\* whatever is in the store was committed at some moment of the build.
StableFactsAreProjected ==
  Projected =>
    /\ \A n \in DOMAIN graph.nodes : \E d \in seen : n \in EntitiesOf(d)
    /\ \A e \in UNION {EntitiesOf(d) : d \in seen} :
         (\A d \in seen : e \in EntitiesOf(d)) =>
            HasNode(graph, e) /\ \E d \in seen : graph.nodes[e] = Attributes(d)[e]
    /\ \A f \in graph.edges :
         \E d \in seen : \E r \in RelationsOf(d) : f = EdgeOf(r, f.evidence)
    /\ \A r \in UNION {RelationsOf(d) : d \in seen} :
         (\A d \in seen : r \in d) =>
            \E f \in graph.edges :
              /\ f = EdgeOf(r, f.evidence)
              /\ \A ev \in (UNION {LinksOf(d, r) : d \in seen}) \cup f.evidence :
                   /\ (\A d \in seen : ev \in LinksOf(d, r)) => ev \in f.evidence
                   /\ ev \in f.evidence => \E d \in seen : ev \in LinksOf(d, r)

\* A counterfactual is what a real remediation would give: removing an edge
\* from a clone equals deleting the relationship and building again.
CounterfactualMatchesRemediation ==
  phase = "built" /\ seen = {db} =>
    \A r \in RelationsOf(db) :
      RemoveRelationship(graph, r.id) = Project(Without(db, r))
=============================================================================

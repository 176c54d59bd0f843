------------------------------ MODULE ShowcaseRun ------------------------------
(***************************************************************************)
(* run_showcase and analyze (app/showcase/pipeline.py): a transaction that *)
(* requires an empty database, loads the fixture, reads it back as graph   *)
(* and as inventory, analyses it, and is always rolled back.  Several runs *)
(* share one database with clients that write through the repositories.    *)
(*                                                                         *)
(* Every SELECT is a step and, at READ COMMITTED, sees what is committed   *)
(* then and what its own transaction wrote.  What follows the last one is  *)
(* synchronous and one step; the engines it calls have their own modules.  *)
(* The engine identity report depends on no row and is left out.           *)
(***************************************************************************)
EXTENDS PathSemantics

CONSTANTS
  Run,       \* the runs of the showcase
  Tables,    \* Base.metadata.sorted_tables
  Fixture,   \* the rows of the fixture, in the order they are inserted
  Batches,   \* the transactions of other clients: sets of rows
  Query,     \* the traversal of the showcase policy
  MaxCommits \* a bound on what clients commit, deletions included

(***************************************************************************)
(* A row has a table, an id and the keys <<table, id>> it refers to; the   *)
(* first is the row it belongs to.  The ids of the fixture are fixed and   *)
(* no client takes one of them; a client may store a row again under its   *)
(* id, and then it is the same row: a key names one row (RowsAreTyped).    *)
(***************************************************************************)
FixtureRows == {Fixture[i] : i \in 1..Len(Fixture)}

AllRows == FixtureRows \cup UNION Batches

Key(r) == <<r.table, r.id>>
Keys(R) == {Key(r) : r \in R}
Refs(r) == {r.refs[i] : i \in 1..Len(r.refs)}

Rows(R, table) == {r \in R : r.table = table}

ASSUME FixtureIsComplete ==
  /\ \A i \in 1..Len(Fixture) :
       Refs(Fixture[i]) \subseteq {Key(Fixture[j]) : j \in 1..i - 1}
  /\ Keys(FixtureRows) \cap Keys(UNION Batches) = {}

ASSUME CommitsAreBounded == MaxCommits \in Nat

ASSUME TablesAreComplete ==
  /\ Tables \in Seq(STRING) /\ Tables # <<>>
  /\ Fixture \in Seq(FixtureRows) /\ Fixture # <<>>
  /\ \A r \in AllRows : \E k \in 1..Len(Tables) : r.table = Tables[k]

\* The foreign keys of the models, in the order of a row's refs.
Parents(table) ==
  CASE table = "relationships"         -> <<"entities", "entities">>
    [] table = "relationship_evidence" -> <<"relationships", "evidence">>
    [] table = "findings"              -> <<"entities">>
    [] table = "finding_evidence"      -> <<"findings", "evidence">>
    [] table = "scope_definitions"     -> <<"scopes">>
    [] OTHER                           -> <<>>

ASSUME RowsAreTyped ==
  /\ \A r \in AllRows : /\ Len(r.refs) = Len(Parents(r.table))
                        /\ \A i \in 1..Len(r.refs) : r.refs[i][1] = Parents(r.table)[i]
  /\ \A r, q \in AllRows : Key(r) = Key(q) => r = q

VARIABLES
  db,       \* the committed rows
  commits,  \* how often clients have committed
  run       \* the state of each run

vars == <<db, commits, run>>

\* The SELECTs of GraphBuilder.build and of the inventory.
Selects == <<"entities", "relationships", "relationship_evidence",
             "entities", "relationships", "relationship_evidence",
             "evidence", "findings", "finding_evidence">>

Links == {"relationship_evidence", "finding_evidence"}

Phase == {"idle", "checking", "loading", "resolving", "selecting", "analysing",
          "ending", "ended"}

Outcome == {"none", "not_ready", "failed", "inconsistent", "report"}

\* step counts within a phase; own holds the uncommitted rows of the run and
\* reads what each SELECT returned.  History: standing holds the rows that
\* have been committed ever since the run began, lost the keys of entities
\* deleted while it selected, and quiet says that no client committed.
NewRun == [phase |-> "idle", step |-> 1, own |-> {}, reads |-> <<>>,
           outcome |-> "none", standing |-> {}, lost |-> {}, quiet |-> TRUE]

Init ==
  /\ db = {}
  /\ commits = 0
  /\ run = [x \in Run |-> NewRun]

-----------------------------------------------------------------------------
(***************************************************************************)
(* Other clients.                                                          *)
(***************************************************************************)
\* Mutant: relationships without foreign keys.
UnreferencedRows(R) == TRUE

ReferencesHold(R) == \A r \in R : Refs(r) \subseteq Keys(R)

Committed(R) ==
  /\ commits < MaxCommits
  /\ db' = R
  /\ commits' = commits + 1
  /\ run' = [x \in Run |->
               [run[x] EXCEPT !.standing = @ \cap R,
                              !.lost = IF run[x].phase = "selecting"
                                       THEN @ \cup Keys(Rows(db \ R, "entities"))
                                       ELSE @,
                              !.quiet = FALSE]]

\* The ids are the caller's: those of deleted rows may be taken again.
WriteBatch(B) ==
  /\ Keys(B) \cap Keys(db) = {}
  /\ ReferencesHold(db \cup B)
  /\ Committed(db \cup B)

\* Of an entity, a relationship or a finding, with what cascades.
DeleteRow(r) ==
  /\ r \in db
  /\ r.table \in {"entities", "relationships", "findings"}
  /\ LET direct == {q \in db : q = r \/ Key(r) \in Refs(q)}
         all == {q \in db : q \in direct \/ Refs(q) \cap Keys(direct) # {}}
     IN  Committed(db \ all)

-----------------------------------------------------------------------------
(***************************************************************************)
(* A run.                                                                  *)
(***************************************************************************)
Visible(x) == db \cup run[x].own

SetRun(x, state) ==
  /\ run' = [run EXCEPT ![x] = state]
  /\ UNCHANGED <<db, commits>>

\* The next of count steps of a phase, or the first of the next phase.
Advance(state, count, next) ==
  IF state.step < count
  THEN [state EXCEPT !.step = @ + 1]
  ELSE [state EXCEPT !.step = 1, !.phase = next]

End(state, outcome) == [state EXCEPT !.phase = "ending", !.outcome = outcome]

Start(x) ==
  /\ run[x].phase = "idle"
  /\ SetRun(x, [NewRun EXCEPT !.phase = "checking", !.standing = db])

\* Mutant: only the tables of the graph must be empty.
CheckGraphTable(x) ==
  /\ run[x].phase = "checking"
  /\ SetRun(x, IF /\ Tables[run[x].step] \in {"entities", "relationships"}
                  /\ Rows(Visible(x), Tables[run[x].step]) # {}
               THEN End(run[x], "not_ready")
               ELSE Advance(run[x], Len(Tables), "loading"))

\* ensure_database_ready: the database is not PostgreSQL, not migrated or not
\* at the Alembic head.
RefuseSchema(x) ==
  /\ run[x].phase = "checking"
  /\ run[x].step = 1
  /\ SetRun(x, End(run[x], "not_ready"))

\* ensure_database_ready: the next table must be empty.
CheckTable(x) ==
  /\ run[x].phase = "checking"
  /\ SetRun(x, IF Rows(Visible(x), Tables[run[x].step]) = {}
               THEN Advance(run[x], Len(Tables), "loading")
               ELSE End(run[x], "not_ready"))

\* load_showcase_fixture.  The ids are fixed: an insert waits for another
\* run that has inserted the same row, until that run is rolled back.
LoadRow(x) ==
  /\ run[x].phase = "loading"
  /\ LET row == Fixture[run[x].step]
     IN  /\ \A y \in Run \ {x} : Key(row) \notin Keys(run[y].own)
         /\ SetRun(x, IF Key(row) \in Keys(db)
                      THEN End(run[x], "failed")
                      ELSE Advance([run[x] EXCEPT !.own = @ \cup {row}],
                                   Len(Fixture), "resolving"))

\* resolve_analytical_scope.
Resolve(x) ==
  /\ run[x].phase = "resolving"
  /\ SetRun(x, IF Rows(Visible(x), "scope_definitions") # {}
               THEN [run[x] EXCEPT !.phase = "selecting"]
               ELSE End(run[x], "failed"))

\* Mutant: a SELECT returns rows of every table.
SelectEverything(x) ==
  /\ run[x].phase = "selecting"
  /\ SetRun(x, Advance([run[x] EXCEPT !.reads = Append(@, Visible(x))],
                       Len(Selects), "analysing"))

\* The links are those of the rows of the SELECT before.  Rows that are
\* still in the identity map keep the links they had.
Select(x) ==
  /\ run[x].phase = "selecting"
  /\ LET k     == run[x].step
         reads == run[x].reads
         rows  == Rows(Visible(x), Selects[k])
         Of(owners) == {l \in rows : l.refs[1] \in Keys(owners)}
         Kept(owners) == {l \in reads[3] : l.refs[1] \in Keys(owners)}
         answers ==
           CASE Selects[k] \notin Links -> {rows}
             [] k = 6 -> {Of(reads[5] \ kept) \cup Kept(kept) :
                            kept \in SUBSET (reads[5] \cap reads[2])}
             [] OTHER -> {Of(reads[k - 1])}
     IN  \E answer \in answers :
           SetRun(x, Advance([run[x] EXCEPT !.reads = Append(@, answer)],
                             Len(Selects), "analysing"))

(***************************************************************************)
(* The projection and the analysis, as functions of what was read.         *)
(***************************************************************************)
Endpoints(R) == UNION {Refs(r) : r \in R}

StoreNodes(reads) == Keys(reads[1]) \cup Endpoints(reads[2])

StoreEdges(reads) ==
  {[id |-> r.id, source |-> r.refs[1][2], target |-> r.refs[2][2], type |-> r.type] :
     r \in reads[2]}

\* Mutant: only the entities of the inventory are looked up.
EntitiesProjected(reads) == Keys(reads[4]) \subseteq StoreNodes(reads)

\* Mutant: an edge without evidence does not count.
ObservedProjected(reads) ==
  /\ Keys(reads[4]) \subseteq StoreNodes(reads)
  /\ Keys(reads[5]) \subseteq {l.refs[1] : l \in reads[3]}

AllProjected(reads) ==
  /\ Keys(reads[4]) \subseteq StoreNodes(reads)
  /\ Keys(reads[5]) \subseteq Keys(reads[2])

\* What paths and risks are computed from: the paths, the evidence of their
\* edges in the store and the findings of their entities.
Result(reads) ==
  LET paths == AttackPaths(StoreEdges(reads), Query)
      edges == UNION {{<<"relationships", p[i].id>> : i \in 1..Len(p)} : p \in paths}
      nodes == UNION {{<<"entities", n>> : n \in NodesOf(Query, p)} : p \in paths}
  IN  [paths    |-> paths,
       evidence |-> {l \in reads[3] : l.refs[1] \in edges},
       findings |-> {f \in reads[8] : f.refs[1] \in nodes}]

\* What a run finds that reads the fixture and nothing else.
FixtureReads == [k \in 1..Len(Selects) |-> Rows(FixtureRows, Selects[k])]

ResultOfFixture == Result(FixtureReads)

ASSUME FixtureHasPaths ==
  /\ IsQuery(Query)
  /\ <<"entities", Query.source>> \in Keys(FixtureRows)
  /\ ResultOfFixture.paths # {}
  /\ ~Saturated(StoreEdges(FixtureReads), Query)

\* A saturated analysis has no rankable candidate and is refused.  The other
\* consistency checks compare what the engines compute from one store.
Analyse(x) ==
  /\ run[x].phase = "analysing"
  /\ LET reads == run[x].reads
     IN  SetRun(x, IF /\ AllProjected(reads)
                      /\ Result(reads).paths # {}
                      /\ ~Saturated(StoreEdges(reads), Query)
                   THEN End(run[x], "report")
                   ELSE End(run[x], "inconsistent"))

\* A statement fails, or the run is cancelled or loses its connection.
Fail(x) ==
  /\ run[x].phase \notin {"idle", "ending", "ended"}
  /\ SetRun(x, End(run[x], "failed"))

\* Mutant: the transaction of a successful run is committed.
CommitReport(x) ==
  /\ run[x].phase = "ending"
  /\ db' = IF run[x].outcome = "report" THEN db \cup run[x].own ELSE db
  /\ run' = [run EXCEPT ![x].phase = "ended", ![x].own = {}]
  /\ UNCHANGED commits

\* Mutant: an exception leaves the transaction open.
RollbackReport(x) ==
  /\ run[x].phase = "ending"
  /\ run[x].outcome = "report"
  /\ SetRun(x, [run[x] EXCEPT !.phase = "ended", !.own = {}])

\* run_showcase: finally, whatever happened.
Rollback(x) ==
  /\ run[x].phase = "ending"
  /\ SetRun(x, [run[x] EXCEPT !.phase = "ended", !.own = {}])

Proceed(x) ==
  CheckTable(x) \/ LoadRow(x) \/ Resolve(x) \/ Select(x) \/ Analyse(x) \/ Rollback(x)

Next ==
  \/ \E B \in Batches : WriteBatch(B)
  \/ \E r \in db : DeleteRow(r)
  \/ \E x \in Run : Start(x) \/ Proceed(x) \/ RefuseSchema(x) \/ Fail(x)

Spec == Init /\ [][Next]_vars

\* Neither the event loop nor the server stops between two statements.
FairSpec == Spec /\ \A x \in Run : WF_vars(Proceed(x))

-----------------------------------------------------------------------------
(***************************************************************************)
(* Properties.                                                             *)
(***************************************************************************)
\* Every variable has its type, and a SELECT returns rows of its table.
TypeOK ==
  /\ db \subseteq AllRows /\ commits \in 0..MaxCommits
  /\ \A x \in Run :
       /\ run[x].phase \in Phase /\ run[x].outcome \in Outcome
       /\ run[x].own \subseteq FixtureRows
       /\ run[x].standing \subseteq db
       /\ run[x].lost \subseteq Keys(AllRows)
       /\ \A k \in 1..Len(run[x].reads) :
            run[x].reads[k] \subseteq Rows(AllRows, Selects[k])

\* The transaction is always rolled back: no client ever sees a row of the
\* fixture, however a run ends.
FixtureStaysPrivate == db \cap FixtureRows = {}

\* A database that holds a row from the start of a run to the end of its
\* check is refused.
NonEmptyIsRefused ==
  \A x \in Run :
    run[x].standing # {} =>
      /\ run[x].phase \notin {"loading", "resolving", "selecting", "analysing"}
      /\ run[x].outcome \notin {"inconsistent", "report"}

\* Paths and risks of a report are the fixture's even if clients commit while
\* the run reads, or another run has loaded the same rows: no foreign row can
\* refer to a row of the uncommitted fixture, so none joins its component.
ResultIsTheFixtures ==
  \A x \in Run :
    run[x].outcome = "report" => Result(run[x].reads) = ResultOfFixture

\* A run is refused as inconsistent only when a client committed during it,
\* and a report of a run without such commits is exactly the fixture.
QuietRunsReportTheFixture ==
  \A x \in Run :
    run[x].quiet =>
      /\ run[x].outcome # "inconsistent"
      /\ run[x].outcome = "report" =>
           UNION {run[x].reads[k] : k \in 1..Len(Selects)} =
             {r \in FixtureRows : \E k \in 1..Len(Selects) : Selects[k] = r.table}

\* The relationships that a report lists connect entities that it lists, and
\* their evidence is listed, although each list is a SELECT of its own and
\* clients commit between them.  One thing escapes: an entity that was deleted
\* while the run selected, although its relationship is there again, for a
\* node that a relationship has made counts as projected.
ListedRelationshipsAreClosed ==
  \A x \in Run :
    run[x].outcome = "report" =>
      LET reads == run[x].reads
      IN  /\ Endpoints(reads[5]) \subseteq Keys(reads[4]) \cup run[x].lost
          /\ {l.refs[2] : l \in reads[6]} \subseteq Keys(reads[7])

\* Every run that has begun ends, although runs wait for each other's fixture
\* rows: again and again no run is under way.
RunsEnd == []<>(\A x \in Run : run[x].phase \in {"idle", "ended"})

\* The showcase requires an empty database "so that no real data enters the
\* analysis": a report lists rows of the fixture only.
NoForeignRowIsReported ==
  \A x \in Run :
    run[x].outcome = "report" =>
      \A k \in 1..Len(Selects) : run[x].reads[k] \subseteq FixtureRows
=============================================================================

# AttackGraph in TLA+

AttackGraph stores entities, relationships, findings and their evidence in
PostgreSQL, projects them into a graph, enumerates attack paths through it,
scores them, and ranks remediations by removing one relationship at a time.
This directory holds TLA+ modules translated from that code
(`src/backend/app`, `src/backend/alembic`), TLC configurations that check them
on small instances, and proofs, checked by TLAPS, of the most important
results for every instance. `PROJECT.json` ties every definition to the source
lines it stands for.

## 1. Inventory

### Components

| Component (under `src/backend/`) | State | Operations | Correct when |
|---|---|---|---|
| Path traversal, `app/graph/pathfinder.py` | the stack of frames and the discovered paths of one call | `find_paths` | the result is the first `max_paths` valid paths in order, and is called EXHAUSTED only if it has all |
| Graph store, `app/graph/networkx.py` | nodes with attributes, edges keyed by (source, target, id) | clear, add, look up, remove, clone | edges connect nodes; a clone's removal leaves the original alone |
| Graph projection, `app/graph/builder.py`, `app/storage/graph_queries.py` | none of its own; writes the store | `build` | the store is what the tables say |
| Canonical tables, `app/domain/models.py`, `app/storage/repositories.py`, `alembic/versions/0001_initial_schema.py` | entities, relationships, evidence links, findings, audit log | create, update, delete, add evidence | what refers to a row goes with it, what was created with evidence keeps it, whoever else writes |
| Scope tables, same files, `alembic/versions/0002_scope_foundation.py` | scopes and numbered definitions | create scope, create definition, triggers against change | versions are 1, 2, ... and never change |
| Scope resolution, `app/graph/scope_resolution.py` | none | look up (scope, version) | it answers what the database holds |
| Counterfactual engine, `app/analytics/counterfactual.py` | one call: baseline, results, ranking | `evaluate_candidates` | reductions are sound; only complete rankings are authoritative |
| Risk aggregation, `app/analytics/aggregator.py` | none | `1 - product(1 - r)` | bounded, monotonic |
| Decay and path risk, `app/analytics/decay.py`, `risk_engine.py`, `path_analysis.py` | none | resolve the evidence of an edge at a time, score a path | uncertainty never raises a risk; the result is deterministic |
| Policy, comparability, context, `app/analytics/policy.py`, `comparability.py`, `context.py` | immutable values | canonicalise, fingerprint, compare | equal fingerprints mean equal policies |
| Engine identity, `app/analytics/engine_identity.py` | a metadata file | verify, read, authorise | authorised only after every test, whenever the file is replaced |
| Overlap, `app/analytics/overlap.py` | none | count edges and nodes of paths | pure |
| Showcase pipeline, `app/showcase/pipeline.py`, `fixture.py`, `__main__.py` | one transaction, one report, an exit status | load a fixture, analyse, compare, roll back | nothing persists; the report is the fixture's; the parts of it agree |
| Artifact writer, `app/showcase/artifacts.py` | four files in a directory | check, open, write | each file is one report, or what it was |
| Report rendering, `app/showcase/svg.py`, `render.py` | none | layers and positions of a drawing; text | relationships run downwards, nothing overlaps or leaves the canvas |
| HTTP application, schemas, migrations, scripts | none, or the schema | validation, DDL | - |

### Interaction

Repositories and scope resolution run inside a caller's SQLAlchemy session, at
PostgreSQL's READ COMMITTED: several sessions share the tables, and each
statement sees its own snapshot. `GraphBuilder` reads the tables through such a
session and fills a `GraphStore`. Everything after that is synchronous and
single-threaded: the traversal engine reads the store, the counterfactual
engine calls the traversal engine on the store and on clones of it, with risks
from `RiskEngine` on `build_risk_input`, aggregated by
`EnvironmentRiskAggregator`. The showcase pipeline calls all of them in a
transaction that it rolls back, compares what they say of each other, asks the
engine identity service about the installed engine, and its command renders the
report into files that invocations may share.

### What is hard

* Truncation. Three bounds (hops, budget, number of paths) cut a search, and
  every consumer must know whether what it has is complete.
* Ordering. A truncated result depends on the order of the search, a ranking
  on the order of ties, an edge's evidence on the order of rows.
* Interleaving. Version allocation under row locks; rows deleted between the
  statements of a call that refers to them; a projection built from several
  statements while sessions commit; sessions that wait for each other; a
  metadata file that is replaced between the system calls that test it; two
  writers of one artifact.
* Partial failure. A create that ends between its two flushes, a build that
  fails after `clear`, a `ValueError` that leaves a lock held, an artifact that
  is opened and not written.
* Staleness. Evidence ages between evaluations and may change which row wins;
  the identity map of a session outlives its statements.

The list of hazards, each at its line and with the properties that watch it, is
in `PROJECT.json`.

## 2. Modules

| Module | Models | Extends / uses |
|---|---|---|
| `PathSemantics` | what an attack path is: `AttackPaths`, their order, the first ones, saturation | |
| `PathEnumeration` | abstract specification: a query finds its paths one at a time in order | `PathSemantics` |
| `TraversalEngine` | `find_paths`, one action per way through its loop | implements `PathEnumeration` |
| `PathTheorems` | lemmas about paths: costs, prefixes, order, finiteness and ranks of the answers | `PathSemantics`, TLAPS |
| `TraversalEngineProofs` | theorems about the traversal and its refinement | `PathTheorems` |
| `RiskAggregation` | env-risk-v1 in integers | |
| `Counterfactual` | `evaluate_candidates`, one action per candidate | `PathSemantics`, `RiskAggregation` |
| `CounterfactualProofs` | theorems about it, among them those about environment risks, and about the report | `ShowcaseReport`, `PathTheorems` |
| `ScopeHistory` | abstract specification: append-only histories | |
| `ScopeRegistry` | concurrent sessions on the scope tables | implements `ScopeHistory` |
| `ScopeRegistryProofs` | theorems about it and its refinement | TLAPS |
| `GraphStore` | `NetworkXStore` as operators on a graph value | |
| `CanonicalTables` | the repositories' calls, statement by statement, by concurrent sessions | |
| `GraphProjection` | `build` against those sessions | `GraphStore`, `CanonicalTables` |
| `GraphProjectionProofs` | theorems about tables and builds | TLAPS |
| `EvidenceAging` | decay, evidence resolution, both risk formulas, over time | |
| `PathOverlap` | `PathOverlapAnalyzer.analyze` as operators, against the counterfactual engine | `Counterfactual` |
| `AnalysisPolicy` | policies, fingerprints, comparability, contexts and provenance of two analyses | `PathSemantics` |
| `AnalysisProofs` | theorems about policies and about evidence | `AnalysisPolicy`, `EvidenceAging`, `PathTheorems` |
| `ShowcaseRun` | `run_showcase` and `analyze`: several runs and other clients on one database | `PathSemantics` |
| `ShowcaseRunProofs` | theorems about it | `PathTheorems` |
| `SvgLayout` | the layered drawing as operators: layers, waypoints, positions | |
| `ShowcaseReport` | what `analyze` makes of a store: traversal, two rankings, featured remediation, drawing | extends `PathOverlap` (so `Counterfactual`), instantiates `SvgLayout` |
| `ShowcaseCommand` | `python -m app.showcase`: identity report, exit paths, artifacts | |
| `ShowcaseCommandProofs` | theorems about it | TLAPS |

`MC*` modules give the constants of a module their values for TLC.

Definitions named `XWith...`, `XWithout...`, `X...` under a comment `Mutant:`
stand beside the definition they alter and are used by nothing in the
specifications. Each is a plausible bug; replacing the definition by it makes
TLC report the property that `PROJECT.json` names, which shows that the
property depends on the code.

### Correspondence

**TraversalEngine.** `stack` holds the same frames as the code (`path`,
`visited`, `cost`), the last on top. An iteration of the `while` loop is one
action: `PruneOverBudget`, `RecordPath`, `PruneAtMaxHops`, `Expand` or
`RaiseCostError`, chosen by the code's tests in the code's order. `Expand`
pushes all children at once, in the reverse of the sort by (type, id, target).
Identifiers are numbers, ordered as the code orders their strings. `Return`
models the end of the loop, including the flag that is computed from the number
of paths. The zero-hop query returns before the search, as in the code, and so
ignores `max_paths`, the budget and saturation.

**Counterfactual.** `find_paths` is used through its result, `Enumeration`,
which `TraversalEngine` implements. A store is a set of edges, a clone a value.
Two runtime checks of the code, the saturation `RuntimeError` and the validator
of `EnvironmentRiskRanking`, are outcomes of the model (`saturation_error`,
`ranking_rejected`) and a property says they are unreachable. A path risk is an
integer in units of `1/Scale`, an environment risk one in units of
`1/Scale^MaxRisks`: the product of complements is exact, padded with paths
without risk to `MaxRisks` factors so that risks of any two sets of paths can be
compared. `RisksFit` says that there are no more paths than that, and that path
risks are between 0 and 1, which `RiskEngine` and its input validation provide:
the aggregator's own `ValueError` is not an outcome of the model. Neither are
the two refusals of `_evaluate_candidate` that a `NetworkXStore` cannot cause: a
relationship whose endpoints are not stored, and a removal that leaves it there.

**ScopeRegistry.** One action per statement sent: the insert of a scope, the
`SELECT ... FOR UPDATE`, the read of the latest version, the insert of the
definition. An insert waits for another transaction's uncommitted key, as a
unique index makes it do. An aborted transaction can only be rolled back: no
caller in `src/` swallows a failed statement. `expire_on_commit` is false, so
the identity map (`cached`) survives a commit and not a rollback. In an aborted
transaction the map would still answer `session.get`; only a caller that goes on
after a failed `SELECT` could ask it, and the coherence of the map is stated
without that phase. A definition carries the number of the insert that made it
(`stamp`), which tells apart two rows that had the same key at different times.
Left out: `get_latest_version` (read-only, used by nothing in `src/app`) and
deletion of a scope row, against which there is a trigger as well.

**CanonicalTables.** A row is its table and id, the keys of the rows it belongs
to (with which it is deleted), the evidence it cites, its unique values, and the
evidence its creator named. A call of a repository is the list of statements it
still has to send (`todo`); a statement that runs may put further ones before
the rest, as an INSERT does with the check of its foreign keys, and a DELETE
with their actions. A session's transaction is what it wrote (`own`), what it
deleted (`gone`) and the keys it locked for a reference (`shared`, FOR KEY
SHARE); what a statement waits for follows from those. `create` of a
relationship or finding flushes twice, so there is a moment with the row and
without its links. `delete` is a `get`, the SELECTs of the ORM's cascade (one
step, `Load`, as they take no locks), the DELETEs of what was loaded and of the
row, and then the foreign keys' action on what was committed since. A failed
statement aborts the transaction; `StaleDataError` and cancellation leave it
open, and a caller that got an exception rolls back, as the context managers of
every caller in `src/` do. An index entry outlives its row until the transaction
that deletes or rekeys the row ends (`claims`): who inserts the same key waits
for it. The rows that an UPDATE sees are re-read after a wait, as at READ
COMMITTED. `update_entity` is handed a loaded row: the `get` in front of an
update is its caller's. Evidence and audit entries are created only: the
repositories have nothing else for them.

**GraphProjection.** The sessions of `CanonicalTables` go on while `build` takes
its four steps: `clear`, the entities, the relationship rows, their links joined
with the evidence. `seen` remembers what was committed during the build. A
build may fail at every step and be started again on the same store. Each build
uses a fresh session, as every caller does; what an identity map would keep
between builds of one session is left out. `AnalyticalScope` admits only
UNIVERSAL, so the first check of `build` cannot fail.

**ShowcaseRun.** The readiness check, the load of the fixture and the reads of
projection and inventory are one step per statement; what follows the last read
is synchronous and one step. `reads[k]` is what the k-th `SELECT` returned, and
projection, inventory and result are functions of `reads`. An insert waits for
the uncommitted row of the same id in another run, since fixture ids are fixed.
Clients commit rows that satisfy the foreign keys, and delete with cascades;
uncommitted fixture rows cannot be referred to. The ids of rows are the callers'
(`repositories.py:32`), so a client may store again what it has deleted, also
between two SELECTs of a run. The row is then the same row, since which rows a
row refers to is a function of the row (`Parents`, the foreign keys of
`models.py`) and a key names one row (`RowsAreTyped`); rows whose references
change while they are gone are left out. `lost` remembers the entities that were
deleted while a run selects, of which alone `ListedRelationshipsAreClosed`
allows one to be missing: `add_relationship` makes a node without attributes for
it, which `all_projected` takes for the entity. The links of rows that are still
in the identity map may be those of the first read. `RefuseSchema` stands for
the refusals of `ensure_database_ready` before it counts rows (dialect, version
table, Alembic head). Every statement may fail; `finally` then rolls back. A
saturated analysis is refused. The other consistency checks of `analyze` compare
results computed from the same store (`ShowcaseReport`).

**ShowcaseReport.** `analyze` after the last SELECT: `Traverse` is its own
traversal and the candidates it finds, `Feature` the comparison with the
engine's ranking, the choice of a remediation and of its equivalents, `Publish`
the bounded analysis and the report. In between the steps are those of
`Counterfactual`, called twice with different bounds. `stage` is `"none"` when
the engine is called by others, so that the properties of `Counterfactual` are
checked of both. The candidates are sorted ids: `Sorted` puts at place k the id
that has k - 1 smaller ones, which is what a sort does and needs no recursion.
`ShowcasesAreCalls` says what calls `analyze` makes: the canonical context, two
different entities, bounds that a policy admits. `ShowcaseConsistencyError` is
the stage `"inconsistent"`. Of the report the model keeps what is derived;
descriptions, evidence lists and steps of paths are copies of the rows.

**SvgLayout.** Operators from a graph to a drawing. `_layers` computes longest
distances by a recursion that gives up on a cycle; `Walked` says the same by the
lengths of walks, of which there are boundedly many exactly when no cycle is
reached. Rows are placed as in the code: wishes, a sweep from the left, a shift
from the right margin and one from the left. `Row` puts at place k the wish that
has k - 1 before it; `Lefts` and `Placed` are functions of the place and of the
layer, for the loops over them. Ids order as names do. Heights, curves and
labels are left out.

**ShowcaseCommand.** Every system call on the metadata file is a step of one of
three passes (check, read, check), and a deployment may put the next version at
the path before any of them. A version is the set of tests it fails, so that the
properties can say which version passed what. `check_immutability` keeps the
answer of `stat` for later tests, as `statted` does. A version that is missing
passes the tests for a link and for write permission, which find nothing, and no
other. Each check of the directory and of a target may end in an `OSError`
(`FailDirectory`, `FailCheck`), as may each `open` and `write`. `main` maps
every exception to an exit status. A text is a number of blocks, each written at
the offset of its own invocation, so that two writers mix as they do on POSIX;
an invocation that fails leaves what it wrote. Markdown and HTML show the status
and not the metadata, the drawing shows neither, and everything else in two
reports is the same, since fixture and evaluation time are fixed
(`ShowcaseRun`).

**PathOverlap.** The operators count over the paths of a result, as `analyze`
does; the list of Jaccard indices is a set of pairs of numbers of shared and of
all edges, and ties among the riskiest keep the order of the result, as a stable
sort does. `path_risks` has the risk of every path of the result, so the default
of its `get` is never taken. The analyzer has no state: its property relates the
overlap of the baseline of `Counterfactual`, complete or truncated, to the
results of the candidates.

**AnalysisPolicy.** A caller supplies values for two analyses; each policy and
then each context is constructed or refused, and `VerifyComparability` may come
as soon as both policies exist, before or after the contexts. A fingerprint is
the canonical form of a policy, SHA-256 being taken as injective. Dictionaries
are functions, since keys are sorted; the type list keeps its order until the
code sorts it. A context takes a resolved scope only (`resolved`), not a dict of
its fields. The legacy policy does not validate its numbers, which may be
negative. Selectors with a single admissible value are left out, and so is
the strictness of integers. One number stands for the float tables of the
legacy policy, in units of 1/100000, so that rounding to four decimals shows.
A datetime is a local time with an offset.

**EvidenceAging.** A behaviour evaluates one path at later and later times. Row
order is part of the input, since no `ORDER BY` fixes it; among rows that tie in
time and confidence it decides the source, which only risk-v2 reads; the other
orders of the rows of an edge are its permutations (`Shuffles`). Numbers are
integers, so that comparisons are exact: confidences are fiftieths, the factors
that do not age are multiples of 1/`Precision`, and a risk is in units that hold
their product (`Power` scales paths of any length to one unit). The values of
the float tables are exact in tenths; the geometric mean is taken at any
precision. Times are aware: the two `ValueError`s for naive ones are left out.

## 3. Runs

Runs that pass:

| Run | States | Shows |
|---|---|---|
| `traversal` | 32 551 | On every store of at most five of nine edges (parallel edges, cycles, a self-loop, an edge out of the target) and 19 queries, a search reports only valid paths, all of them when it says EXHAUSTED, the first ones in order (it implements `PathEnumeration`), and ends |
| `counterfactual` | 15 995 | For every store of at most five of eight edges and 20 calls: fail-closed checks are dead, removals partition the baseline, complete or truncated, rankable reductions are sound, risks are lower bounds under saturation, authority implies completeness, the overlap of the baseline predicts what removals do. For the calls that the showcase makes: `analyze` gives up only for want of paths or for saturation, the featured remediation is the best of *all* relationships and its equivalents are exactly those that leave the same paths, the bounded analysis is the full one or says that it is not, relationships run from layer to layer, and nothing in the drawing overlaps |
| `policy` | 48 420 | 75 inputs for each of two analyses: policies are comparable exactly when they mean the same, comparable policies give the same answers, provenance identifies policy, instant and scope |
| `scope_registry` | 31 713 | Two sessions, two scopes, two inserts: allocation is current, versions are contiguous across aborts and rollbacks, the identity map is coherent, the tables implement append-only histories, and under fairness every call returns, deadlocks included |
| `projection` | 547 271 | Two sessions of two calls each (eleven different calls against five) with builds after them, or one session of three calls (of twelve) that builds race: committed rows refer to committed rows and keep the evidence they were created with, deletes are never refused, a quiet build is exact, a racing one holds every stable fact, a counterfactual is what the remediation would give |
| `aging` | 26 660 | Paths of two edges with up to two rows of evidence: under risk-v1 ageing never raises a risk and row order does not show |
| `command` | 459 896 | Two invocations, deployments of up to three versions, an artifact directory that is absent, full, or refuses: status and authority rest on every test, good versions are never rejected for being replaced, a completed artifact is one report, an unopened one is what it was, a refusal loses nothing |
| `showcase` | 485 114 | Two runs, and clients that delete what they stored and store it again between any two SELECTs: nothing of the fixture is ever committed, a database that holds a row is refused, the paths, evidence and findings of a report are the fixture's even under races, a run alone never fails a consistency check, listed relationships are closed but for entities deleted meanwhile, every run ends |

Runs that find a disagreement with what the repository says of itself:

| Run | Statement | What happens |
|---|---|---|
| `reduction_bounds` | `schemas/analytics.py:273`: the numbers of a saturated ranking are lower bounds | the environment risks are (`RisksAreLowerBounds`), a *reduction* is not: `max_paths` hides the path that keeps the risk up |
| `source_aware_aging` | ANA-9: no code path lets uncertainty raise a risk | under risk-v2 a decayed row loses a tie, the winner names another source, two sources merge and the product rises |
| `svg_canvas` | `svg.py:147`: "Keep the layer inside the canvas without reordering it." | the canvas is as wide as the widest row packed tightly; wishes leave a gap in a row, both shifts apply, and the last box ends outside (at 946 of 732) |
| `showcase_foreign` | `pipeline.py:157`: an empty database is required "so that no real data enters the analysis" | a client commits after its table was checked; its rows are in the report's inventory, though never on a path |

risk-v2 is not persistable (`AnalysisPolicyV2` admits risk-v1 only), which
limits `source_aware_aging` to legacy calls.

### Bounds

The bounds are `MaxEdges`, `MaxInserts`, `Horizon`; for `ShowcaseRun` the
transactions in `Batches`, each of which may be committed again once its rows
are deleted, and the number of commits and deletions (`MaxCommits`): three are a
commit, a deletion and the same rows again; for `CanonicalTables` the number of
calls that a session makes (`Situations`); for `ShowcaseCommand` the versions
that are deployed (`Situations`) and the length of a text (`Blocks`). Five edges
on four nodes contain every shape the search distinguishes: a cycle, a diamond,
a parallel pair, a dead end. Queries put each bound exactly at, one below and
one above the length, cost or number of the paths. Two inserts are a conflict
over one version, a version after a rollback and a version after another; two
sessions suffice for lock conflicts, since a third only waits in the same queue.
Three calls are the longest pattern that matters to a build: delete an entity
(its relationships cascade), create it again, create a relationship; each may be
in a transaction of its own, all may be in one, and a build may begin between
any two statements. Two sessions of two calls are enough for a call to be
overtaken by another's commit at each of its statements, and for two
transactions to lock two rows in opposite orders. Calls name rows that exist,
that do not, and that the other session creates or deletes; one changes a key to
a value in use, one names the same evidence twice. Three deployments replace a
version twice within a pass and once more in a later one; two blocks are the
least that two writers can mix, and a third, which only a text with metadata
has, tells a file that was truncated from one that was overwritten. At `Horizon`
4 every row with a TTL has gone stale (collected by 2, TTL 1).

Sessions, scopes and runs are interchangeable; the runs that could use this
symmetry check liveness, where it is not sound, and do without.
`CHECK_DEADLOCK FALSE` is set where a behaviour models one call, one command, or
a bounded series of evaluations, and ends.

### Fairness

`TraversalEngine` assumes weak fairness of its next step: a synchronous loop
runs on. `ScopeRegistry` assumes that the server executes statements it can
execute (weak fairness; strong for those that wait for a lock or a key, which
PostgreSQL grants in the order of request), that its deadlock detector runs,
and that a caller ends its transaction after finitely many calls, since
sessions are context managers. `ShowcaseRun` assumes weak fairness of a run's
next step: an insert that waits for another run's row is enabled again when that
run has ended, and runs do not restart. The other modules state safety only:
what `CanonicalTables` would add to liveness is `CallsReturn` of `ScopeRegistry`
over again.

## 4. Proofs

Every theorem below is about the specification of a module with arbitrary
constants: any number of sessions, runs, entities, relationships or invocations,
any store, query or bound. What is assumed of the constants is named, and TLC
evaluates it in the runs. `Spec => []IInv` with an inductive invariant `IInv` is
the theorem `Invariance` of a module of proofs (for the tables, the lemma
`TablesInvariant`); the properties follow from it.

**Traversal** (`TraversalEngineProofs`; assumptions `OrderedIdentifiers` and
`CallsAreWellTyped`: identifiers are naturals and so ordered, stores hold
edges, queries are well formed).

* `TypeCorrect`, `Soundness`, `Completeness`: what is reported is an attack
  path, and a result that says EXHAUSTED holds all of them.
* `SearchInOrder`: the frames on the stack and the paths found so far are in
  order.
* `Refinement`: `find_paths` implements `PathEnumeration` (`ImplementsPromise`),
  step by step.
* `Result`: a call that ends without an error returned `Enumeration` and
  `Saturated`, which is the definition by which `Counterfactual` uses it.

Completeness is not inductive: nothing in it speaks of the stack. `NoPathLost`
is the strengthening: while a search runs, each valid path has been discovered
or extends the path of a frame on the stack. It needs `FramesConsistent` (the
cost, visited set and node of a frame are those of its path), because a frame
with a wrong cost would be pruned wrongly, and `Phases`, because only a search
that has begun has a stack. The step proofs take the actions one by one: popping
loses only paths that extend the popped frame; an over-budget or over-long frame
has no valid extension, since bounds are path-local and every proper prefix of a
valid path is within budget; a target frame is its own only extension; and
`Expand` pushes, for each valid path that extends the frame, the child along its
next edge (`AttackPathStep`, `ReachableChild`). When the loop ends with fewer
than `max_paths` paths the stack is empty, so every valid path was discovered.
For the refinement the frames must also be in order, each before what is below
it, and every path found before all of them (`SearchInOrder`): then the path
that is recorded next is the least one missing, because whatever else is missing
extends a frame further down (`BeforeWhateverExtends`).

`PathTheorems` holds the lemmas about paths. Costs are defined by a recursive
function over the path; what is needed of them is shown by well-founded
induction on a *set* of naturals (`NatSetInduction`). The answers to a query are
finite in number and strictly ordered, so that each has a rank and the first
`max_paths` are the function that `Enumeration` says (`Ranks`,
`FirstPathsProperties`).

**Counterfactual engine and showcase report** (`CounterfactualProofs`;
assumptions `StoresAreFinite`, `CallsAreTyped`, `RiskUnits`, `RisksFit` and, for
the report, `ShowcasesAreCalls` and `EnvironmentIsFinite`: the entities are rows
of a table). The first six are theorems about both specifications, `Spec` of the
engine and `ReportSpec` of the showcase that calls it twice; the others are
about `ReportSpec`.

* `FailClosed`: removing a relationship never saturates a search that was
  complete, and a derived ranking passes its validators.
* `Partition`: a result splits the paths of the baseline, complete or truncated,
  into those that use its relationship and the others, which a complete baseline
  shows to be all that is left.
* `Authority`: an authoritative ranking rests on all paths.
* `RankableReduction`: a rankable candidate never raises the environment risk
  and lowers it exactly when it removes a path with risk and no certain path
  remains: what is true of the aggregator's claim (see Observations).
* `LowerBounds`: the risks of a ranking are at most those of all paths, and
  equal to them without saturation.
* `OverlapPrediction`: what the overlap analysis says of a baseline is what
  removing does: an edge participates in as many paths as its removal takes
  away, a reduction takes a positive weighted participation, overlaps are listed
  and never complete, and a node that every attack needs is a choke point of all
  paths. The converse of the last holds of a complete baseline only.

The invariant says that every recorded result is the search of the *same* store
without one relationship (`ResultsInv`), which is what a clone that shared state
would break. The answers without a relationship are the answers that do not use
it (`PathsWithout`); they are fewer, so a removal cannot saturate. The risk
theorems compare products over two sequences of different lengths: the paths of
a set, and those of a part of it. `Thinning` replaces the risks of the missing
paths by 0, factor by factor; `Spreading` shows that factors of paths without
risk may stand anywhere; the ranks of the paths in the set and in the part
connect the two (`RiskOfPart`). A saturated search is the case of a part that is
a prefix (`FirstAreAllOfThem`). The overlap analysis counts places in paths; a
path visits a node once and uses an edge once (`PathOnce`), so that its counts
are counts of paths (`SumsExist` and `AreSums` say what the library's sums over
sets are).

Of the report:

* `Consistency`: `analyze` gives up only because there is no attack path or
  because `max_paths` was reached; its traversal and the engine never contradict
  each other.
* `BestRemediation`: the featured relationship is the one, of all in the store,
  whose removal leaves the least environment risk, and its equivalents are
  exactly those whose removal leaves the same paths.
* `HonestBounds`: the bounded analysis is the ranking of the report, or it is
  marked saturated: then it ranks nothing and is not authoritative.

`ReportInv` (theorem `ReportInvariance`) adds to the engine's invariant what the
engine's results are for: `ProgressInv` follows it through its list of
candidates, so that a ranking has a result for each of them and for nothing
else, and `StageInv` says, for each stage, which ranking the report holds. The
candidates are the relationships on the paths, each once (`SortedIds`,
`CandidatesOnPaths`). Without saturation the ranking is the list of measured
candidates, sorted (`CompleteIsMeasured`); the answers behind it do not depend
on `max_paths` (`SameSearchSamePaths`), and different candidates can be sorted
in one way only, because the last key of the sort is the id
(`OrderIsDetermined`). The two rankings can therefore differ by saturation
alone. The first of a ranking reduces most, a relationship on no path reduces
nothing, so the first is the best of all relationships (`FeaturedCut`).

Of its drawing:

* `RunningDown`: relationships run from layer to layer downwards, through a
  waypoint in each layer between, unless their source is not reached or there is
  a cycle.
* `StandingApart`: boxes and waypoints of a layer keep their distance.

In a graph whose walks are bounded the layer of an entity is the length of its
longest walk, and a relationship makes a longer walk of one to its source
(`WalkStep`, `RelationshipsDescend`). The chain of a relationship then has one
item for each layer from its source to its target (`ChainIs`). In a row the
order of the wishes is total (`RowIs`, from `RanksExist`), the sweep clears each
item of all that were placed before it, by induction on the place
(`LeftsClear`), and the shifts move a row as a whole (`RowIsPlaced`); the layers
are placed by induction on their number (`PlacedIs`). That every coordinate is
an integer, sums and averages included, takes most of the lemmas.

**Scope tables** (`ScopeRegistryProofs`; assumption `RegistryAssumption`:
finitely many sessions; hypothesis of the theorems: the triggers are in place,
as after the migrations).

* `Allocation`, `Contiguity`, `Coherence`: the safety properties of the run.
* `Refinement`: the tables implement `ScopeHistory`.

The invariant: a lock has one holder; who is past `SELECT ... FOR UPDATE` or has
an uncommitted definition holds the lock; versions are contiguous not only among
the committed rows but in what each session sees; stamps identify inserts. The
session that commits therefore appends to the history that it read.

**Canonical tables and projection** (`GraphProjectionProofs`; assumptions
`CallsAssumption`, `SituationsAssumption`, `ReaderAssumption`).

* `Evidence`: committed rows refer to committed rows and keep the evidence they
  were created with.
* `Deletion`: deletes are never refused.
* `Exactness`, `Stability`, `Remediation`: a quiet build is exact, one that
  races commits holds every stable fact and nothing that never was, and a
  counterfactual is what the remediation would give.

What each session would see after its call has to be complete: every reference
in its view is to a row of its view *but for what remains of the call* (the
checks, links and cascades in `todo`). A lock that a reference takes keeps the
row from being deleted by another session until the reference is committed, and
this is why no commit makes a committed reference dangle. Of the store the
invariant says that it is composed of three committed snapshots in the order of
the SELECTs (`Torn`); the folds over rows are computed by induction on finite
subsets.

**Showcase run** (`ShowcaseRunProofs`; assumptions `FixtureIsComplete`: clients
use no id of the fixture, `TablesAreComplete`: every row is in one of the tables
that are checked, `RowsAreTyped`, `FixtureHasPaths`, `CommitsAreBounded`: how
often clients commit is bounded by any number).

* `TypeCorrect`, `Privacy` (nothing of the fixture is ever committed), `Refusal`
  (a database that holds a row is refused).
* `Reading`: what the SELECTs of a run answer, whatever is committed, deleted
  and stored again between them.
* `Closure`: the relationships of a report connect its entities and cite its
  evidence, but for entities that were deleted while the run selected.
* `Quiet`, `Results`: a run alone reports the fixture, and the result of any run
  is the fixture's.

The refusal is not inductive, since clients commit between the checks of two
tables: `StandingIsUnchecked` follows the rows that have been there since the
start, each of which is in a table not yet checked. For the results, `ReadInv`
says of each answer that it holds the rows of the fixture and otherwise foreign
rows, which refer to foreign rows only, and that the entities at the
relationships it read are committed, or in `lost`, until the inventory is read;
a path that starts in the fixture therefore stays in it, by induction along the
path. A step of one run disturbs no other (`RunStepInv`).

**Showcase command** (`ShowcaseCommandProofs`; assumptions `ArtifactsAreNamed`,
`BlocksAssumption`, `SituationsArePossible`).

* `Identification`: status and authority rest on the versions that the passes
  met.
* `WholeArtifacts`: an artifact is what it was, or a complete report, once its
  writers are done and agree on the identity.
* `Refusal`: an invocation that refuses a target has lost nothing old.

The invariant records for each pass that the tests that are behind it held of a
version that it met; that all targets before the current one were tested; and
that each block of an artifact is right or still to be written by an invocation
in progress, which is what truncation by a second writer disturbs and its own
blocks repair.

**Evidence** (`AnalysisProofs`; assumptions `PathsAreEvidenced`: rows have a
time, a TTL, a tier and a source, and `FactorsAreFractions`: no table of the
engine has a value above 1).

* `Pessimism`: whatever the rows, a path is never riskier at a later time under
  risk-v1.
* `RowOrder`: no permutation of the rows of an edge shows in its risk.

`Winner` is defined by a minimum over positions; `Resolves` says of it only what
matters, that it is among the latest rows and least confident among these. The
tier so characterised is unique (`OneTier`), kept by permutations
(`ShuffledResolves`) and not raised by time (`AgedResolves`): the latest rows
stay the latest, and each of them decays. That the minimum over edges, its
product with the factors and the interpolation towards 1 preserve the order is
arithmetic (`MinimumRises`, `RiskRises`); the last step needs the base risk only
through its factor `Precision - amplifier`, which is where the bound on the
tables enters. risk-v2 has no such theorem: `source_aware_aging` refutes it.

**Policies and contexts** (`AnalysisProofs`; assumption `InputsAreTyped`).

* `Comparability`: V2 policies are comparable exactly when they mean the same,
  and then answer alike on every store; comparable legacy policies differ by
  less than the precision of a fingerprint; no other pair is comparable.
* `Provenances`: the provenance of two contexts is equal exactly when policy,
  instant and scope definition are.

The invariant `PolicyInv` says that each policy and context is the function of
its input that its constructor computes, and that the checks held. The heart is
`PolicyIsMeaning`: validation makes the costs a table of exactly the allowed
types, so equal policies allow the same types, and equal sets of types have one
canonical list.

**Model-checked only.** Every safety invariant and action property of the runs
that pass is a theorem. Liveness (`Termination`, `CallsReturn`, `RunsEnd`) and
whatever needs ENABLED is out of the prover's reach. So are the library's
induction theorems, which take an operator as parameter: induction here is over
sets, by well-foundedness.

## 5. Not modelled

* Markdown and HTML (`render.py`), labels, curves and heights of the drawing:
  formatting of values that are already decided.
* HTTP application and value schemas: validation of single values without state,
  except where a model's inputs are those that a schema admits.
* `generate_metadata.py`, which runs when an image is built: `Deploy` puts its
  outcome at the path. `load_synthetic_data.py`; downgrades; the snapshots
  table, which nothing in `src/backend/app` writes.
* The trees of symbolic links: a path of an artifact or of the output directory
  does not change its kind while the command runs.
* Repository methods that only read.
* Floating-point rounding: risks are exact here.

### Observations

Met while modelling, visible in the models, and not the subject of a run:

* The docstring of `EnvironmentRiskAggregator` (`aggregator.py:21-22`) says that
  "removing any path (where risk > 0) will strictly reduce the environment risk",
  and `test_aggregator.py:19` that it "must". It does not while a path of risk 1
  remains, because the product of complements is then 0 with or without the
  other path; the test excepts this in its next line, the docstring does not.
  `RankableReductionIsSound` states the exact condition, exception included, and
  the instance has such paths.
* `pipeline.py:206` calls the lookup of the inventory in the store "proof that all
  of it was projected". `all_projected` (`pipeline.py:216`) asks for a node only,
  and `add_relationship` makes one for an endpoint that it does not know: an
  entity that is committed with a relationship after the projection's first
  `SELECT`, or deleted after it and stored again, passes as a node without
  attributes. `ListedRelationshipsAreClosed` states what is left: an endpoint may
  be missing from the list if its entity was deleted while the run selected
  (`lost`).
* `ShowcaseCommand.CheckExists`: `Path.exists()` answers a missing file with
  False, but raises `PermissionError` when the directory may not be searched
  (Python 3.11 and 3.12), and stands outside the `try` of `check_immutability`
  (`engine_identity.py:50`). SEC-30 says of unreadable metadata that it is
  unverifiable, never an exception. The command ends with the message for a
  failed connection, and the report is lost.
* `ShowcaseCommand.FailDirectory`, `FailCheck`, `FailTarget`: an `OSError` of
  checking or writing an artifact is reported as a failure to connect to the
  database too (`__main__.py:78`).
* `database.py:43` says of `init_db` that it must produce the schema of the
  migrations; it creates no triggers, so under it a scope definition can be
  changed (`ScopeRegistry` with `Triggers = FALSE`).
* The properties of the drawing hold of positions, not of the canvas
  (`svg_canvas`): every relationship is drawn where it should be, and part of
  the picture may be outside of it.

## 6. Plan

Done first: the traversal, because everything else consumes its result; then the
counterfactual engine, the places where sessions interleave (scope versions,
canonical tables and their projection), decay, the showcase run, overlap and
policies; then what the showcase makes of all this: its report, its drawing, the
identity report and the artifacts. Proofs followed in the same order. Next:

* the provenance of a showcase report names a scope definition that was rolled
  back (`pipeline.py:509`): a model of what a reader of two reports can conclude
  from it.

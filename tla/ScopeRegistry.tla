----------------------------- MODULE ScopeRegistry -----------------------------
(***************************************************************************)
(* Scopes and their versioned definitions: ScopeRepository,                *)
(* ScopeDefinitionRepository (app/storage/repositories.py) and             *)
(* resolve_analytical_scope (app/graph/scope_resolution.py), called by     *)
(* concurrent SQLAlchemy sessions on PostgreSQL at its default isolation   *)
(* level, READ COMMITTED.                                                  *)
(*                                                                         *)
(* Every statement that is sent to the database is a step of its own.  A   *)
(* statement that fails aborts the transaction; a ValueError raised by the *)
(* repository does not, and leaves its row lock held.                      *)
(***************************************************************************)
EXTENDS Integers, FiniteSets

CONSTANTS
  Scope,        \* scope ids; fixtures fix them, so that two sessions may
                \* insert the same one
  Session,      \* AsyncSessions, each with at most one open transaction
  Triggers,     \* the triggers of migration 0002 are installed: TRUE under
                \* Alembic, FALSE for a schema that init_db created
  MaxInserts    \* bound on the definitions that are ever inserted

ASSUME RegistryAssumption ==
  Triggers \in BOOLEAN /\ MaxInserts \in Nat /\ IsFiniteSet(Session)

VARIABLES
  scopes,        \* the committed rows of table scopes
  definitions,   \* the committed rows of table scope_definitions
  tx,            \* the transaction of each session and its call in flight
  locked,        \* locked[s]: scopes whose row lock the transaction holds
  cached,        \* cached[s]: definitions in the session's identity map
  inserts        \* definitions inserted so far; numbers them

vars == <<scopes, definitions, tx, locked, cached, inserts>>

-----------------------------------------------------------------------------
(***************************************************************************)
(* Rows and transactions.  All v1 definitions have the same fields, so a   *)
(* row is [scope, version, stamp], told apart by the insert that made it.  *)
(***************************************************************************)
\* Between calls, with nothing done in the transaction.
FreshTx ==
  [phase |-> "ready", newScopes |-> {}, newDefs |-> {}, gone |-> {}]

\* In a call: "creating" (a scope), "locking", "reading" or "inserting".
Pending(phase, t, c, valid, version) ==
  [phase |-> phase, newScopes |-> t.newScopes, newDefs |-> t.newDefs,
   gone |-> t.gone,
   scope |-> c, valid |-> valid, version |-> version]

Ready(t) ==
  [phase |-> "ready", newScopes |-> t.newScopes, newDefs |-> t.newDefs,
   gone |-> t.gone]

VisibleScopes(s) == scopes \cup tx[s].newScopes

VisibleDefinitions(s) == (definitions \ tx[s].gone) \cup tx[s].newDefs

VersionsOf(c, rows) == {r.version : r \in {x \in rows : x.scope = c}}

Latest(versions) ==
  IF versions = {} THEN 0 ELSE CHOOSE v \in versions : \A w \in versions : w <= v

Init ==
  /\ scopes = {}
  /\ definitions = {}
  /\ tx = [s \in Session |-> FreshTx]
  /\ locked = [s \in Session |-> {}]
  /\ cached = [s \in Session |-> {}]
  /\ inserts = 0

SetTx(s, t) == tx' = [tx EXCEPT ![s] = t]

\* The server undoes the transaction and releases its locks; the session
\* refuses every statement until it is rolled back.
Abort(s) ==
  /\ SetTx(s, [FreshTx EXCEPT !.phase = "aborted"])
  /\ locked' = [locked EXCEPT ![s] = {}]
  /\ UNCHANGED <<scopes, definitions, cached, inserts>>

-----------------------------------------------------------------------------
(***************************************************************************)
(* ScopeRepository.create                                                  *)
(***************************************************************************)
CallCreateScope(s, c) ==
  /\ tx[s].phase = "ready"
  /\ c \notin tx[s].newScopes
  /\ SetTx(s, Pending("creating", tx[s], c, TRUE, 0))
  /\ UNCHANGED <<scopes, definitions, locked, cached, inserts>>

\* The insert waits while another transaction has inserted the same id.
CreateScope(s) ==
  /\ tx[s].phase = "creating"
  /\ \A t \in Session \ {s} : tx[s].scope \notin tx[t].newScopes
  /\ IF tx[s].scope \in scopes
     THEN Abort(s)
     ELSE /\ SetTx(s, [Ready(tx[s]) EXCEPT !.newScopes = @ \cup {tx[s].scope}])
          /\ UNCHANGED <<scopes, definitions, locked, cached, inserts>>

(***************************************************************************)
(* ScopeDefinitionRepository.create                                        *)
(***************************************************************************)
Creating == {s \in Session : tx[s].phase \in {"locking", "reading", "inserting"}}

CallCreateDefinition(s, c, valid) ==
  /\ tx[s].phase = "ready"
  /\ inserts + Cardinality(Creating) < MaxInserts
  /\ SetTx(s, Pending("locking", tx[s], c, valid, 0))
  /\ UNCHANGED <<scopes, definitions, locked, cached, inserts>>

\* ValueError: the scope does not exist.
ScopeMissing(s) ==
  /\ tx[s].phase = "locking"
  /\ tx[s].scope \notin VisibleScopes(s)
  /\ SetTx(s, Ready(tx[s]))
  /\ UNCHANGED <<scopes, definitions, locked, cached, inserts>>

\* Mutant: the scope row is read without FOR UPDATE.
LockIsIgnored(s, c) == TRUE

LockIsFree(s, c) == \A t \in Session \ {s} : c \notin locked[t]

\* SELECT ... FOR UPDATE of the scope row.
LockScope(s) ==
  /\ tx[s].phase = "locking"
  /\ tx[s].scope \in VisibleScopes(s)
  /\ LockIsFree(s, tx[s].scope)
  /\ locked' = [locked EXCEPT ![s] = @ \cup {tx[s].scope}]
  /\ SetTx(s, [tx[s] EXCEPT !.phase = "reading"])
  /\ UNCHANGED <<scopes, definitions, cached, inserts>>

\* Mutant: versions come from a sequence, which a rollback does not rewind.
ReadSequence(s) ==
  /\ tx[s].phase = "reading"
  /\ tx[s].valid
  /\ SetTx(s, [tx[s] EXCEPT !.phase = "inserting", !.version = inserts + 1])
  /\ UNCHANGED <<scopes, definitions, locked, cached, inserts>>

ReadLatest(s) ==
  /\ tx[s].phase = "reading"
  /\ tx[s].valid
  /\ LET last == Latest(VersionsOf(tx[s].scope, VisibleDefinitions(s)))
     IN  SetTx(s, [tx[s] EXCEPT !.phase = "inserting", !.version = last + 1])
  /\ UNCHANGED <<scopes, definitions, locked, cached, inserts>>

\* ValueError: fields that v1 does not support.
RejectFields(s) ==
  /\ tx[s].phase = "reading"
  /\ ~tx[s].valid
  /\ SetTx(s, Ready(tx[s]))
  /\ UNCHANGED <<scopes, definitions, locked, cached, inserts>>

SameKey(s, rows) ==
  \E r \in rows : r.scope = tx[s].scope /\ r.version = tx[s].version

NewDefinition(s) ==
  [scope |-> tx[s].scope, version |-> tx[s].version, stamp |-> inserts + 1]

\* The insert waits while another transaction has inserted the same key; a
\* key that is committed violates the primary key.
InsertDefinition(s) ==
  /\ tx[s].phase = "inserting"
  /\ \A t \in Session \ {s} : ~SameKey(s, tx[t].newDefs)
  /\ IF SameKey(s, definitions \ tx[s].gone)
     THEN Abort(s)
     ELSE /\ SetTx(s, [Ready(tx[s]) EXCEPT !.newDefs = @ \cup {NewDefinition(s)}])
          /\ cached' = [cached EXCEPT ![s] = @ \cup {NewDefinition(s)}]
          /\ inserts' = inserts + 1
          /\ UNCHANGED <<scopes, definitions, locked>>

-----------------------------------------------------------------------------
(***************************************************************************)
(* resolve_analytical_scope: a primary-key lookup that the identity map    *)
(* may answer; the map holds its objects weakly, so it may also not.  A    *)
(* missing definition is an error that changes nothing.  In an aborted     *)
(* transaction the map would still answer, but only a caller that goes on  *)
(* after a failed SELECT could ask, and there is none: left out.           *)
(***************************************************************************)
Resolve(s) ==
  /\ tx[s].phase = "ready"
  /\ \E r \in cached[s] \cup VisibleDefinitions(s) :
       cached' = [cached EXCEPT ![s] = @ \cup {r}]
  /\ UNCHANGED <<scopes, definitions, tx, locked, inserts>>

\* Mutant: migration 0002 without its triggers.
ModifyDefinitionFreely(s) ==
  /\ tx[s].phase = "ready"
  /\ \E r \in definitions \ tx[s].gone : SetTx(s, [tx[s] EXCEPT !.gone = @ \cup {r}])
  /\ UNCHANGED <<scopes, definitions, locked, cached, inserts>>

\* A statement other than the repositories': DELETE FROM scope_definitions,
\* or an UPDATE of the key.  A trigger raises, if there is one.
ModifyDefinition(s) ==
  /\ tx[s].phase = "ready"
  /\ \E r \in definitions \ tx[s].gone :
       IF Triggers
       THEN Abort(s)
       ELSE /\ SetTx(s, [tx[s] EXCEPT !.gone = @ \cup {r}])
            /\ UNCHANGED <<scopes, definitions, locked, cached, inserts>>

-----------------------------------------------------------------------------
(***************************************************************************)
(* The end of a transaction.                                               *)
(***************************************************************************)
\* expire_on_commit is FALSE: the identity map survives.
Commit(s) ==
  /\ tx[s].phase = "ready"
  /\ tx[s] # FreshTx \/ locked[s] # {}
  /\ scopes' = scopes \cup tx[s].newScopes
  /\ definitions' = (definitions \ tx[s].gone) \cup tx[s].newDefs
  /\ SetTx(s, FreshTx)
  /\ locked' = [locked EXCEPT ![s] = {}]
  /\ UNCHANGED <<cached, inserts>>

\* Mutant: the identity map survives a rollback.
RollbackKeepingObjects(s) ==
  /\ tx[s] # FreshTx \/ locked[s] # {}
  /\ SetTx(s, FreshTx)
  /\ locked' = [locked EXCEPT ![s] = {}]
  /\ UNCHANGED <<scopes, definitions, cached, inserts>>

\* The caller rolls back, is cancelled or crashes, during a call or between
\* two: the identity map is emptied or expired.
Rollback(s) ==
  /\ tx[s] # FreshTx \/ locked[s] # {} \/ cached[s] # {}
  /\ SetTx(s, FreshTx)
  /\ locked' = [locked EXCEPT ![s] = {}]
  /\ cached' = [cached EXCEPT ![s] = {}]
  /\ UNCHANGED <<scopes, definitions, inserts>>

\* The sessions that the statement of s waits for.
WaitsFor(s) ==
  CASE tx[s].phase = "creating"  ->
         {t \in Session \ {s} : tx[s].scope \in tx[t].newScopes}
    [] tx[s].phase = "locking"   ->
         {t \in Session \ {s} :
            tx[s].scope \in VisibleScopes(s) /\ tx[s].scope \in locked[t]}
    [] tx[s].phase = "inserting" ->
         {t \in Session \ {s} : SameKey(s, tx[t].newDefs)}
    [] OTHER -> {}

\* Mutant: no deadlock is ever detected.
NeverDeadlocked(s) == FALSE

Deadlocked(s) ==
  \E D \in SUBSET Session :
    s \in D /\ \A t \in D : WaitsFor(t) \cap D # {}

\* The server's deadlock detector picks any member of a cycle of waits.
DeadlockVictim(s) ==
  /\ Deadlocked(s)
  /\ Abort(s)

-----------------------------------------------------------------------------
Step(s) ==
  \/ CreateScope(s)
  \/ ScopeMissing(s)
  \/ LockScope(s)
  \/ ReadLatest(s)
  \/ RejectFields(s)
  \/ InsertDefinition(s)

Next ==
  \E s \in Session :
    \/ \E c \in Scope : CallCreateScope(s, c)
    \/ \E c \in Scope, valid \in BOOLEAN : CallCreateDefinition(s, c, valid)
    \/ Step(s)
    \/ Resolve(s)
    \/ ModifyDefinition(s)
    \/ Commit(s)
    \/ Rollback(s)
    \/ DeadlockVictim(s)

Spec == Init /\ [][Next]_vars

\* The server executes the statements it is sent, grants the locks of a row
\* in the order they were asked for and breaks deadlocks; a caller makes
\* finitely many calls in a transaction and ends it (sessions are context
\* managers).
Fairness ==
  \A s \in Session :
    /\ WF_vars(ScopeMissing(s) \/ ReadLatest(s) \/ RejectFields(s))
    /\ SF_vars(CreateScope(s))
    /\ SF_vars(LockScope(s))
    /\ SF_vars(InsertDefinition(s))
    /\ WF_vars(DeadlockVictim(s))
    /\ SF_vars(tx[s].phase \in {"ready", "aborted"} /\ (Commit(s) \/ Rollback(s)))

FairSpec == Spec /\ Fairness

-----------------------------------------------------------------------------
(***************************************************************************)
(* Properties.                                                             *)
(***************************************************************************)
\* The row lock makes version allocation safe: what a creator read as the
\* latest version still is when it inserts, so that no creator is ever
\* refused by the primary key for the version that create() chose itself.
AllocationIsCurrent ==
  \A s \in Session :
    tx[s].phase = "inserting" =>
      /\ tx[s].version = Latest(VersionsOf(tx[s].scope, VisibleDefinitions(s))) + 1
      /\ \A t \in Session \ {s} : ~SameKey(s, tx[t].newDefs)

\* The versions of a scope are 1, 2, ... without a gap, in the order in
\* which they were created, whatever was rolled back in between.
VersionsAreContiguous ==
  \A c \in Scope :
    LET rows == {r \in definitions : r.scope = c}
    IN  /\ VersionsOf(c, rows) = 1..Cardinality(rows)
        /\ \A q, r \in rows : q.version < r.version <=> q.stamp < r.stamp

\* Whatever the identity map of a session can answer is what the database
\* would answer: an analysis is never given a definition that was rolled back,
\* or one that another definition of the same version has replaced.  Between
\* the failure of a SELECT and the rollback the map may hold one; a caller that
\* swallows the failure could be given it, and none does.
IdentityMapIsCoherent ==
  \A s \in Session :
    tx[s].phase # "aborted" => cached[s] \subseteq VisibleDefinitions(s)

\* The committed tables implement append-only histories.
CommittedHistory ==
  [c \in scopes |->
     [v \in 1..Cardinality({r \in definitions : r.scope = c}) |->
        (CHOOSE r \in definitions : r.scope = c /\ r.version = v).stamp]]

History == INSTANCE ScopeHistory WITH history <- CommittedHistory

ImplementsHistory == History!Spec

\* Every call returns, with a result or an error: creators that lock two
\* scopes in opposite orders do not wait for each other for ever.
CallsReturn ==
  \A s \in Session :
    []<>(tx[s].phase \in {"ready", "aborted"})
=============================================================================

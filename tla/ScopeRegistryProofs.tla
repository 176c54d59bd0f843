-------------------------- MODULE ScopeRegistryProofs --------------------------
(***************************************************************************)
(* For any number of scopes and sessions on a schema that the migrations   *)
(* made: versions are allocated under the lock of the scope's row without  *)
(* gap or conflict, the identity map answers what the tables hold, and the *)
(* committed tables are append-only histories.                             *)
(***************************************************************************)
EXTENDS ScopeRegistry, Sequences, FiniteSetTheorems, TLAPS

-----------------------------------------------------------------------------
(***************************************************************************)
(* The inductive invariant.                                                *)
(***************************************************************************)
Definition == [scope : Scope, version : Nat \ {0}, stamp : Nat \ {0}]

\* A transaction between two calls, and one in a call.  The triggers let
\* nothing be deleted, so that `gone` stays empty.
IdleTx ==
  [phase : {"ready", "aborted"}, newScopes : SUBSET Scope,
   newDefs : SUBSET Definition, gone : {{}}]

CallTx ==
  [phase : {"creating", "locking", "reading", "inserting"}, newScopes : SUBSET Scope,
   newDefs : SUBSET Definition, gone : {{}},
   scope : Scope, valid : BOOLEAN, version : Nat]

TypeInv ==
  /\ scopes \in SUBSET Scope
  /\ definitions \in SUBSET Definition
  /\ tx \in [Session -> IdleTx \cup CallTx]
  /\ locked \in [Session -> SUBSET Scope]
  /\ cached \in [Session -> SUBSET Definition]
  /\ inserts \in Nat

\* At most one session holds the row lock of a scope, and a session that has
\* looked at the versions of a scope, or added to them, holds its lock.
LocksProtect ==
  /\ \A s, t \in Session : s # t => locked[s] \cap locked[t] = {}
  /\ \A s \in Session :
       /\ tx[s].phase \in {"reading", "inserting"} => tx[s].scope \in locked[s]
       /\ \A r \in tx[s].newDefs : r.scope \in locked[s]

\* What is locked, or has a definition, exists.
ScopesExist ==
  /\ \A s \in Session : locked[s] \subseteq VisibleScopes(s)
  /\ \A r \in definitions : r.scope \in scopes

\* Definitions are told apart by their stamps.
Inserted == definitions \cup UNION {tx[s].newDefs : s \in Session}

StampsIdentify ==
  /\ \A q, r \in Inserted : q.stamp = r.stamp => q = r
  /\ \A r \in Inserted : r.stamp <= inserts
  /\ inserts + Cardinality(Creating) <= MaxInserts

RowsOf(c, rows) == {r \in rows : r.scope = c}

\* Versions 1, 2, ... in the order in which they were inserted.
Contiguous(c, rows) ==
  /\ IsFiniteSet(rows)
  /\ VersionsOf(c, rows) = 1..Cardinality(rows)
  /\ \A q, r \in rows : q.version < r.version <=> q.stamp < r.stamp

\* Every session sees contiguous versions, its own included.
AllAreContiguous ==
  \A c \in Scope :
    /\ Contiguous(c, RowsOf(c, definitions))
    /\ \A s \in Session : Contiguous(c, RowsOf(c, VisibleDefinitions(s)))

\* What ReadLatest has found is still the latest version.
InserterIsCurrent(s) ==
  tx[s].phase = "inserting" =>
    tx[s].version = Cardinality(RowsOf(tx[s].scope, VisibleDefinitions(s))) + 1

IInv ==
  /\ TypeInv
  /\ LocksProtect
  /\ ScopesExist
  /\ StampsIdentify
  /\ AllAreContiguous
  /\ \A s \in Session : InserterIsCurrent(s)
  /\ IdentityMapIsCoherent

-----------------------------------------------------------------------------
(***************************************************************************)
(* Lemmas about versions.                                                  *)
(***************************************************************************)
\* The latest of the versions 1..n is n.
LEMMA LatestOfInterval ==
  ASSUME NEW n \in Nat
  PROVE  Latest(1..n) = n
<1>1. CASE n = 0
  <2>1. 1..n = {}
    BY <1>1
  <2> QED
    BY <1>1, <2>1 DEF Latest
<1>2. CASE n # 0
  <2>1. n \in 1..n /\ \A w \in 1..n : w <= n
    BY <1>2
  <2>2. \A v \in 1..n : (\A w \in 1..n : w <= v) => v = n
    BY <1>2
  <2>3. (CHOOSE v \in 1..n : \A w \in 1..n : w <= v) = n
    BY <2>1, <2>2
  <2> QED
    BY <2>1, <2>3 DEF Latest
<1> QED
  BY <1>1, <1>2

\* A definition with the next version and a later stamp than all others
\* continues the versions of its scope.
LEMMA NextVersion ==
  ASSUME NEW c \in Scope, NEW rows \in SUBSET Definition, Contiguous(c, rows),
         \A r \in rows : r.scope = c,
         NEW x \in Definition, x.scope = c, x.version = Cardinality(rows) + 1,
         \A r \in rows : r.stamp < x.stamp
  PROVE  Contiguous(c, rows \cup {x})
<1> DEFINE n == Cardinality(rows)
<1>1. IsFiniteSet(rows) /\ n \in Nat
  BY FS_CardinalityType DEF Contiguous
<1>2. VersionsOf(c, rows) = {r.version : r \in rows}
  BY DEF VersionsOf
<1>3. {r.version : r \in rows} = 1..n
  BY <1>2 DEF Contiguous
<1>4. \A r \in rows : r.version \in 1..n
  BY <1>3
<1>5. x \notin rows
  BY <1>1, <1>4
<1>6. IsFiniteSet(rows \cup {x}) /\ Cardinality(rows \cup {x}) = n + 1
  BY <1>1, <1>5, FS_AddElement
<1>7. VersionsOf(c, rows \cup {x}) = {r.version : r \in rows} \cup {x.version}
  BY DEF VersionsOf
<1>8. 1..(n + 1) = (1..n) \cup {n + 1}
  BY <1>1
<1>9. \A q, r \in rows \cup {x} : q.version < r.version <=> q.stamp < r.stamp
  <2>1. \A r \in rows : r.version < x.version /\ ~(x.version < r.version)
    BY <1>1, <1>4
  <2>2. \A r \in rows : r.stamp < x.stamp /\ ~(x.stamp < r.stamp)
    BY DEF Definition
  <2>3. ~(x.version < x.version) /\ ~(x.stamp < x.stamp)
    BY DEF Definition
  <2> QED
    BY <2>1, <2>2, <2>3 DEF Contiguous
<1> QED
  BY <1>3, <1>6, <1>7, <1>8, <1>9 DEF Contiguous

\* What a session sees as the latest version is the number of definitions.
LEMMA LatestVersion ==
  ASSUME IInv, NEW s \in Session, NEW c \in Scope
  PROVE  /\ Cardinality(RowsOf(c, VisibleDefinitions(s))) \in Nat
         /\ Latest(VersionsOf(c, VisibleDefinitions(s))) =
              Cardinality(RowsOf(c, VisibleDefinitions(s)))
<1> DEFINE rows == RowsOf(c, VisibleDefinitions(s))
<1>1. Contiguous(c, rows)
  BY DEF IInv, AllAreContiguous
<1>2. Cardinality(rows) \in Nat
  BY <1>1, FS_CardinalityType DEF Contiguous
<1>3. VersionsOf(c, rows) = VersionsOf(c, VisibleDefinitions(s))
  BY DEF VersionsOf, RowsOf
<1> QED
  BY <1>1, <1>2, <1>3, LatestOfInterval DEF Contiguous

\* Counting the creators.
LEMMA CreatorsAreFinite ==
  /\ IsFiniteSet(Creating) /\ Cardinality(Creating) \in Nat
  /\ IsFiniteSet(Creating') /\ Cardinality(Creating') \in Nat
<1>1. Creating \in SUBSET Session /\ Creating' \in SUBSET Session
  BY DEF Creating
<1>2. IsFiniteSet(Session)
  BY RegistryAssumption
<1> QED
  BY <1>1, <1>2, FS_Subset, FS_CardinalityType

-----------------------------------------------------------------------------
(***************************************************************************)
(* The steps.                                                              *)
(***************************************************************************)
LEMMA InitInv == Init => IInv
<1> SUFFICES ASSUME Init
             PROVE  IInv
  OBVIOUS
<1>1. TypeInv
  BY DEF Init, TypeInv, FreshTx, IdleTx
<1>2. LocksProtect /\ ScopesExist /\ IdentityMapIsCoherent
  BY DEF Init, LocksProtect, ScopesExist, IdentityMapIsCoherent, FreshTx
<1>3. Inserted = {} /\ Creating = {}
  BY DEF Init, Inserted, Creating, FreshTx
<1>4. StampsIdentify
  BY <1>3, FS_EmptySet, RegistryAssumption DEF Init, StampsIdentify
<1>5. \A c : Contiguous(c, RowsOf(c, {}))
  <2>1. \A c : RowsOf(c, {}) = {}
    BY DEF RowsOf
  <2>2. \A c : VersionsOf(c, {}) = {}
    BY DEF VersionsOf
  <2>3. 1..0 = {}
    OBVIOUS
  <2> QED
    BY <2>1, <2>2, <2>3, FS_EmptySet DEF Contiguous
<1>6. \A s \in Session : VisibleDefinitions(s) = {}
  BY DEF Init, VisibleDefinitions, FreshTx
<1>7. AllAreContiguous
  BY <1>5, <1>6 DEF Init, AllAreContiguous
<1>8. \A s \in Session : InserterIsCurrent(s)
  BY DEF Init, InserterIsCurrent, FreshTx
<1> QED
  BY <1>1, <1>2, <1>4, <1>7, <1>8 DEF IInv

\* A step of s that inserts, deletes and commits nothing: the call goes on,
\* sees more scopes, or holds one more lock that was free.
LEMMA QuietStepInv ==
  ASSUME IInv, NEW s \in Session, tx[s].phase # "aborted",
         NEW n \in IdleTx \cup CallTx, SetTx(s, n), n.phase # "aborted",
         n.newDefs = tx[s].newDefs, tx[s].newScopes \subseteq n.newScopes,
         NEW L \in SUBSET Scope, locked' = [locked EXCEPT ![s] = L],
         locked[s] \subseteq L, L \subseteq VisibleScopes(s),
         \A t \in Session \ {s} : L \cap locked[t] = {},
         n.phase \in {"reading", "inserting"} => n.scope \in L,
         n.phase = "inserting" =>
           n.version = Cardinality(RowsOf(n.scope, VisibleDefinitions(s))) + 1,
         inserts + Cardinality(Creating') <= MaxInserts,
         UNCHANGED <<scopes, definitions, cached, inserts>>
  PROVE  IInv'
<1>1. TypeInv'
  BY DEF IInv, TypeInv, SetTx
<1>2. tx[s].gone = {} /\ n.gone = {}
  BY DEF IInv, TypeInv, IdleTx, CallTx
<1>3. /\ tx'[s] = n /\ locked'[s] = L
      /\ \A t \in Session \ {s} : tx'[t] = tx[t] /\ locked'[t] = locked[t]
  BY DEF IInv, TypeInv, SetTx
<1>4. \A t \in Session : tx'[t].newDefs = tx[t].newDefs /\ tx'[t].gone = tx[t].gone
  BY <1>2, <1>3
<1>5. \A t \in Session : VisibleDefinitions(t)' = VisibleDefinitions(t)
  BY <1>4 DEF VisibleDefinitions
<1>6. LocksProtect'
  BY <1>3, <1>4 DEF IInv, LocksProtect
<1>7. \A t \in Session : VisibleScopes(t) \subseteq VisibleScopes(t)'
  BY <1>3 DEF VisibleScopes
<1>8. ScopesExist'
  BY <1>3, <1>7 DEF IInv, ScopesExist
<1>9. Inserted' = Inserted
  BY <1>4 DEF Inserted
<1>10. StampsIdentify'
  BY <1>9 DEF IInv, StampsIdentify
<1>11. AllAreContiguous'
  BY <1>5 DEF IInv, AllAreContiguous
<1>12. \A t \in Session : InserterIsCurrent(t)'
  BY <1>3, <1>5 DEF IInv, InserterIsCurrent
<1>13. IdentityMapIsCoherent'
  BY <1>3, <1>5 DEF IInv, IdentityMapIsCoherent
<1> QED
  BY <1>1, <1>6, <1>8, <1>10, <1>11, <1>12, <1>13 DEF IInv

\* The transaction of s is undone, by the server or by a rollback.
LEMMA UndoInv ==
  ASSUME IInv, NEW s \in Session, NEW n \in IdleTx, SetTx(s, n),
         n.newDefs = {}, locked' = [locked EXCEPT ![s] = {}],
         (cached' = cached /\ n.phase = "aborted") \/ cached' = [cached EXCEPT ![s] = {}],
         UNCHANGED <<scopes, definitions, inserts>>
  PROVE  IInv'
<1>1. TypeInv'
  BY DEF IInv, TypeInv, SetTx
<1>2. tx[s].gone = {} /\ n.gone = {}
  BY DEF IInv, TypeInv, IdleTx, CallTx
<1>3. /\ tx'[s] = n /\ locked'[s] = {}
      /\ \A t \in Session \ {s} :
           tx'[t] = tx[t] /\ locked'[t] = locked[t] /\ cached'[t] = cached[t]
  BY DEF IInv, TypeInv, SetTx
<1>4. /\ VisibleDefinitions(s)' = definitions
      /\ \A t \in Session \ {s} :
           /\ VisibleDefinitions(t)' = VisibleDefinitions(t)
           /\ VisibleScopes(t)' = VisibleScopes(t)
  BY <1>2, <1>3 DEF VisibleDefinitions, VisibleScopes
<1>5. n.phase \in {"ready", "aborted"}
  BY DEF IdleTx
<1>6. LocksProtect'
  BY <1>3, <1>5 DEF IInv, LocksProtect
<1>7. ScopesExist'
  BY <1>3, <1>4 DEF IInv, ScopesExist
<1>8. StampsIdentify'
  <2>1. Inserted' \subseteq Inserted
    BY <1>3 DEF Inserted
  <2>2. Creating' \subseteq Creating
    BY <1>3, <1>5 DEF Creating
  <2>3. Cardinality(Creating') <= Cardinality(Creating)
    BY <2>2, CreatorsAreFinite, FS_Subset
  <2>4. \A r \in Inserted' : r.stamp <= inserts'
    BY <2>1 DEF IInv, StampsIdentify
  <2>5. inserts' + Cardinality(Creating') <= MaxInserts
    BY <2>3, CreatorsAreFinite, RegistryAssumption DEF IInv, StampsIdentify, TypeInv
  <2> QED
    BY <2>1, <2>4, <2>5 DEF IInv, StampsIdentify
<1>9. AllAreContiguous'
  BY <1>4 DEF IInv, AllAreContiguous
<1>10. \A t \in Session : InserterIsCurrent(t)'
  BY <1>3, <1>4, <1>5 DEF IInv, InserterIsCurrent
<1>11. IdentityMapIsCoherent'
  <2>1. n.phase = "aborted" \/ cached'[s] = {}
    BY DEF IInv, TypeInv
  <2> QED
    BY <1>3, <1>4, <2>1 DEF IInv, IdentityMapIsCoherent
<1> QED
  BY <1>1, <1>6, <1>7, <1>8, <1>9, <1>10, <1>11 DEF IInv

LEMMA AbortInv ==
  ASSUME IInv, NEW s \in Session, Abort(s)
  PROVE  IInv'
<1> DEFINE n == [FreshTx EXCEPT !.phase = "aborted"]
<1>1. n \in IdleTx /\ n.newDefs = {} /\ n.phase = "aborted"
  BY DEF FreshTx, IdleTx
<1> QED
  BY <1>1, UndoInv DEF Abort

LEMMA RollbackInv ==
  ASSUME IInv, NEW s \in Session, Rollback(s)
  PROVE  IInv'
<1>1. FreshTx \in IdleTx /\ FreshTx.newDefs = {}
  BY DEF FreshTx, IdleTx
<1> QED
  BY <1>1, UndoInv DEF Rollback

\* The same for a step that locks nothing.
LEMMA UnlockedStepInv ==
  ASSUME IInv, NEW s \in Session, tx[s].phase # "aborted",
         NEW n \in IdleTx \cup CallTx, SetTx(s, n), n.phase # "aborted",
         n.newDefs = tx[s].newDefs, tx[s].newScopes \subseteq n.newScopes,
         n.phase \in {"reading", "inserting"} => n.scope \in locked[s],
         n.phase = "inserting" =>
           n.version = Cardinality(RowsOf(n.scope, VisibleDefinitions(s))) + 1,
         inserts + Cardinality(Creating') <= MaxInserts,
         UNCHANGED <<scopes, definitions, locked, cached, inserts>>
  PROVE  IInv'
<1>1. locked[s] \in SUBSET Scope /\ locked' = [locked EXCEPT ![s] = locked[s]]
  BY DEF IInv, TypeInv
<1>2. \A t \in Session \ {s} : locked[s] \cap locked[t] = {}
  BY DEF IInv, LocksProtect
<1>3. locked[s] \subseteq VisibleScopes(s)
  BY DEF IInv, ScopesExist
<1> QED
  BY <1>1, <1>2, <1>3, QuietStepInv

\* The bound on insertions when creators are no more than they were.
LEMMA CreatorsStay ==
  ASSUME IInv, Creating' \subseteq Creating
  PROVE  inserts + Cardinality(Creating') <= MaxInserts
<1>1. Cardinality(Creating') <= Cardinality(Creating)
  BY CreatorsAreFinite, FS_Subset
<1> QED
  BY <1>1, CreatorsAreFinite, RegistryAssumption DEF IInv, StampsIdentify, TypeInv

LEMMA CallCreateScopeInv ==
  ASSUME IInv, NEW s \in Session, NEW c \in Scope, CallCreateScope(s, c)
  PROVE  IInv'
<1> DEFINE n == Pending("creating", tx[s], c, TRUE, 0)
<1>1. tx[s] \in IdleTx \cup CallTx
  BY DEF IInv, TypeInv
<1>2. /\ n \in IdleTx \cup CallTx /\ n.phase = "creating"
      /\ n.newDefs = tx[s].newDefs /\ n.newScopes = tx[s].newScopes
  BY <1>1 DEF Pending, CallTx, IdleTx
<1>3. /\ SetTx(s, n) /\ tx[s].phase = "ready"
      /\ UNCHANGED <<scopes, definitions, locked, cached, inserts>>
  BY DEF CallCreateScope
<1>4. Creating' \subseteq Creating
  BY <1>2, <1>3 DEF Creating, SetTx, IInv, TypeInv
<1> HIDE DEF n
<1> QED
  BY <1>2, <1>3, <1>4, CreatorsStay, UnlockedStepInv

LEMMA CreateScopeInv ==
  ASSUME IInv, NEW s \in Session, CreateScope(s)
  PROVE  IInv'
<1>1. CASE tx[s].scope \in scopes
  BY <1>1, AbortInv DEF CreateScope
<1>2. CASE tx[s].scope \notin scopes
  <2> DEFINE n == [Ready(tx[s]) EXCEPT !.newScopes = @ \cup {tx[s].scope}]
  <2>1. tx[s] \in CallTx /\ tx[s].phase = "creating"
    BY DEF IInv, TypeInv, CreateScope, IdleTx
  <2>2. /\ n \in IdleTx \cup CallTx /\ n.phase = "ready"
        /\ n.newDefs = tx[s].newDefs /\ tx[s].newScopes \subseteq n.newScopes
    BY <2>1 DEF Ready, CallTx, IdleTx
  <2>3. SetTx(s, n) /\ UNCHANGED <<scopes, definitions, locked, cached, inserts>>
    BY <1>2 DEF CreateScope
  <2>4. Creating' \subseteq Creating
    BY <2>2, <2>3 DEF Creating, SetTx, IInv, TypeInv
  <2> HIDE DEF n
  <2> QED
    BY <2>1, <2>2, <2>3, <2>4, CreatorsStay, UnlockedStepInv
<1> QED
  BY <1>1, <1>2

LEMMA CallCreateDefinitionInv ==
  ASSUME IInv, NEW s \in Session, NEW c \in Scope, NEW valid \in BOOLEAN,
         CallCreateDefinition(s, c, valid)
  PROVE  IInv'
<1> DEFINE n == Pending("locking", tx[s], c, valid, 0)
<1>1. tx[s] \in IdleTx \cup CallTx
  BY DEF IInv, TypeInv
<1>2. /\ n \in IdleTx \cup CallTx /\ n.phase = "locking"
      /\ n.newDefs = tx[s].newDefs /\ n.newScopes = tx[s].newScopes
  BY <1>1 DEF Pending, CallTx, IdleTx
<1>3. /\ SetTx(s, n) /\ tx[s].phase = "ready"
      /\ inserts + Cardinality(Creating) < MaxInserts
      /\ UNCHANGED <<scopes, definitions, locked, cached, inserts>>
  BY DEF CallCreateDefinition
<1>4. inserts + Cardinality(Creating') <= MaxInserts
  <2>1. Creating' = Creating \cup {s}
    BY <1>2, <1>3 DEF Creating, SetTx, IInv, TypeInv
  <2>2. Cardinality(Creating') <= Cardinality(Creating) + 1
    BY <2>1, CreatorsAreFinite, FS_AddElement
  <2> QED
    BY <1>3, <2>2, CreatorsAreFinite, RegistryAssumption DEF IInv, TypeInv
<1> HIDE DEF n
<1> QED
  BY <1>2, <1>3, <1>4, UnlockedStepInv

\* The two ValueErrors leave the transaction as it is, its lock included.
LEMMA RefusalInv ==
  ASSUME IInv, NEW s \in Session, ScopeMissing(s) \/ RejectFields(s)
  PROVE  IInv'
<1> DEFINE n == Ready(tx[s])
<1>1. tx[s] \in CallTx
  BY DEF IInv, TypeInv, ScopeMissing, RejectFields, IdleTx
<1>2. /\ n \in IdleTx \cup CallTx /\ n.phase = "ready"
      /\ n.newDefs = tx[s].newDefs /\ n.newScopes = tx[s].newScopes
  BY <1>1 DEF Ready, CallTx, IdleTx
<1>3. /\ SetTx(s, n) /\ tx[s].phase # "aborted"
      /\ UNCHANGED <<scopes, definitions, locked, cached, inserts>>
  BY DEF ScopeMissing, RejectFields
<1>4. Creating' \subseteq Creating
  BY <1>2, <1>3 DEF Creating, SetTx, IInv, TypeInv
<1> HIDE DEF n
<1> QED
  BY <1>2, <1>3, <1>4, CreatorsStay, UnlockedStepInv

LEMMA LockScopeInv ==
  ASSUME IInv, NEW s \in Session, LockScope(s)
  PROVE  IInv'
<1> DEFINE n == [tx[s] EXCEPT !.phase = "reading"]
           L == locked[s] \cup {tx[s].scope}
<1>1. tx[s] \in CallTx /\ tx[s].phase = "locking"
  BY DEF IInv, TypeInv, LockScope, IdleTx
<1>2. /\ n \in IdleTx \cup CallTx /\ n.phase = "reading" /\ n.scope = tx[s].scope
      /\ n.newDefs = tx[s].newDefs /\ n.newScopes = tx[s].newScopes
  BY <1>1 DEF CallTx
<1>3. /\ SetTx(s, n) /\ locked' = [locked EXCEPT ![s] = L]
      /\ UNCHANGED <<scopes, definitions, cached, inserts>>
  BY DEF LockScope, IInv, TypeInv
<1>4. Creating' \subseteq Creating
  BY <1>1, <1>2, <1>3 DEF Creating, SetTx, IInv, TypeInv
<1>5. L \in SUBSET Scope /\ locked[s] \subseteq L /\ tx[s].scope \in L
  BY <1>1 DEF IInv, TypeInv, CallTx
<1>6. L \subseteq VisibleScopes(s)
  BY DEF LockScope, IInv, ScopesExist
<1>7. \A t \in Session \ {s} : L \cap locked[t] = {}
  BY DEF LockScope, LockIsFree, IInv, LocksProtect
<1> HIDE DEF n, L
<1> QED
  BY <1>1, <1>2, <1>3, <1>4, <1>5, <1>6, <1>7, CreatorsStay, QuietStepInv

LEMMA ReadLatestInv ==
  ASSUME IInv, NEW s \in Session, ReadLatest(s)
  PROVE  IInv'
<1> DEFINE c == tx[s].scope
           last == Latest(VersionsOf(c, VisibleDefinitions(s)))
           n == [tx[s] EXCEPT !.phase = "inserting", !.version = last + 1]
<1>1. tx[s] \in CallTx /\ tx[s].phase = "reading" /\ c \in Scope
  BY DEF IInv, TypeInv, ReadLatest, IdleTx, CallTx
<1>2. last \in Nat /\ last = Cardinality(RowsOf(c, VisibleDefinitions(s)))
  BY <1>1, LatestVersion
<1>3. SetTx(s, n) /\ UNCHANGED <<scopes, definitions, locked, cached, inserts>>
  BY DEF ReadLatest
<1> HIDE DEF last
<1>4. last + 1 \in Nat
  BY <1>2
<1>5. /\ n \in IdleTx \cup CallTx /\ n.phase = "inserting" /\ n.scope = tx[s].scope
      /\ n.newDefs = tx[s].newDefs /\ n.newScopes = tx[s].newScopes
      /\ n.version = last + 1
  BY <1>1, <1>4 DEF CallTx
<1>6. Creating' \subseteq Creating
  BY <1>1, <1>3, <1>5 DEF Creating, SetTx, IInv, TypeInv
<1>7. tx[s].scope \in locked[s]
  BY <1>1 DEF IInv, LocksProtect
<1> HIDE DEF n
<1> QED
  BY <1>1, <1>2, <1>3, <1>5, <1>6, <1>7, CreatorsStay, UnlockedStepInv

\* The insert of the version that was allocated.  (That the primary key never
\* refuses it is AllocationIsCurrent; the case is in the action.)
LEMMA InsertDefinitionInv ==
  ASSUME IInv, NEW s \in Session, InsertDefinition(s)
  PROVE  IInv'
<1>1. CASE SameKey(s, definitions \ tx[s].gone)
  BY <1>1, AbortInv DEF InsertDefinition
<1>2. CASE ~SameKey(s, definitions \ tx[s].gone)
  <2> DEFINE c == tx[s].scope
             x == NewDefinition(s)
             rows == RowsOf(c, VisibleDefinitions(s))
             n == [Ready(tx[s]) EXCEPT !.newDefs = @ \cup {x}]
  <2>1. /\ tx[s] \in CallTx /\ tx[s].phase = "inserting" /\ c \in Scope
        /\ tx[s].newDefs \in SUBSET Definition /\ tx[s].gone = {}
    BY DEF IInv, TypeInv, InsertDefinition, IdleTx, CallTx
  <2>2. Cardinality(rows) \in Nat /\ tx[s].version = Cardinality(rows) + 1
    BY <2>1, LatestVersion DEF IInv, InserterIsCurrent
  <2>3. /\ x \in Definition /\ x.scope = c /\ x.version = Cardinality(rows) + 1
        /\ x.stamp = inserts + 1
    BY <2>1, <2>2 DEF NewDefinition, Definition, IInv, TypeInv
  <2>4. /\ SetTx(s, n) /\ cached' = [cached EXCEPT ![s] = @ \cup {x}]
        /\ inserts' = inserts + 1 /\ UNCHANGED <<scopes, definitions, locked>>
    BY <1>2 DEF InsertDefinition
  <2> HIDE DEF x
  <2>5. /\ n \in IdleTx /\ n.phase = "ready" /\ n.gone = {}
        /\ n.newDefs = tx[s].newDefs \cup {x} /\ n.newScopes = tx[s].newScopes
    BY <2>1, <2>3 DEF Ready, CallTx, IdleTx
  <2> HIDE DEF n
  <2>6. TypeInv'
    BY <2>3, <2>4, <2>5 DEF IInv, TypeInv, SetTx
  <2>7. /\ tx'[s] = n /\ cached'[s] = cached[s] \cup {x}
        /\ \A t \in Session \ {s} : tx'[t] = tx[t] /\ cached'[t] = cached[t]
    BY <2>4 DEF IInv, TypeInv, SetTx
  <2>8. /\ VisibleDefinitions(s)' = VisibleDefinitions(s) \cup {x}
        /\ \A t \in Session \ {s} : VisibleDefinitions(t)' = VisibleDefinitions(t)
        /\ \A t \in Session : VisibleScopes(t)' = VisibleScopes(t)
    BY <2>1, <2>4, <2>5, <2>7 DEF VisibleDefinitions, VisibleScopes
  <2>9. LocksProtect'
    BY <2>1, <2>3, <2>4, <2>5, <2>7 DEF IInv, LocksProtect
  <2>10. ScopesExist'
    BY <2>4, <2>8 DEF IInv, ScopesExist
  <2>11. StampsIdentify'
    <3>1. Inserted' = Inserted \cup {x}
      BY <2>4, <2>5, <2>7 DEF Inserted
    <3>2. Inserted \subseteq Definition /\ \A r \in Inserted : r.stamp <= inserts
      BY DEF IInv, StampsIdentify, TypeInv, Inserted, IdleTx, CallTx
    <3>3. \A r \in Inserted : r.stamp < x.stamp /\ r.stamp <= inserts'
      BY <2>3, <2>4, <3>2 DEF Definition, IInv, TypeInv
    <3>4. x.stamp <= inserts'
      BY <2>3, <2>4 DEF IInv, TypeInv
    <3>5. \A q, r \in Inserted' : q.stamp = r.stamp => q = r
      BY <2>3, <3>1, <3>2, <3>3 DEF IInv, StampsIdentify, Definition
    <3>6. inserts' + Cardinality(Creating') <= MaxInserts
      <4>1. s \in Creating /\ Creating' = Creating \ {s}
        BY <2>1, <2>5, <2>7 DEF Creating
      <4>2. Cardinality(Creating') = Cardinality(Creating) - 1
        BY <4>1, CreatorsAreFinite, FS_RemoveElement
      <4> QED
        BY <2>4, <4>2, CreatorsAreFinite, RegistryAssumption
           DEF IInv, StampsIdentify, TypeInv
    <3> QED
      BY <3>1, <3>3, <3>4, <3>5, <3>6 DEF StampsIdentify
  <2>12. AllAreContiguous'
    <3>1. Contiguous(c, rows \cup {x})
      <4>1. rows \in SUBSET Definition /\ \A r \in rows : r.scope = c
        BY <2>1 DEF RowsOf, VisibleDefinitions, IInv, TypeInv
      <4>2. Contiguous(c, rows)
        BY <2>1 DEF IInv, AllAreContiguous
      <4>3. \A r \in rows : r.stamp < x.stamp
        <5>1. rows \subseteq Inserted
          BY DEF RowsOf, VisibleDefinitions, Inserted
        <5>2. \A r \in rows : r.stamp \in Nat /\ r.stamp <= inserts
          BY <4>1, <5>1 DEF IInv, StampsIdentify, Definition
        <5> QED
          BY <2>3, <5>2 DEF IInv, TypeInv
      <4> HIDE DEF rows
      <4> QED
        BY <2>1, <2>3, <4>1, <4>2, <4>3, NextVersion
    <3>2. RowsOf(c, VisibleDefinitions(s) \cup {x}) = rows \cup {x}
      BY <2>3 DEF RowsOf
    <3>3. \A d \in Scope \ {c} : RowsOf(d, VisibleDefinitions(s) \cup {x}) =
                                RowsOf(d, VisibleDefinitions(s))
      BY <2>3 DEF RowsOf
    <3> HIDE DEF rows, c
    <3>4. \A d \in Scope : Contiguous(d, RowsOf(d, VisibleDefinitions(s) \cup {x}))
      BY <3>1, <3>2, <3>3 DEF IInv, AllAreContiguous
    <3> QED
      BY <2>4, <2>8, <3>4 DEF IInv, AllAreContiguous
  <2>13. \A t \in Session : InserterIsCurrent(t)'
    BY <2>5, <2>7, <2>8 DEF IInv, InserterIsCurrent
  <2>14. IdentityMapIsCoherent'
    BY <2>1, <2>7, <2>8 DEF IInv, IdentityMapIsCoherent
  <2> QED
    BY <2>6, <2>9, <2>10, <2>11, <2>12, <2>13, <2>14 DEF IInv
<1> QED
  BY <1>1, <1>2

\* A commit adds versions of scopes that only the committing session locked,
\* so that no other session sees its own scopes change.
LEMMA CommitInv ==
  ASSUME IInv, NEW s \in Session, Commit(s)
  PROVE  IInv'
<1>1. /\ FreshTx \in IdleTx /\ FreshTx.phase = "ready" /\ FreshTx.newDefs = {}
      /\ FreshTx.newScopes = {} /\ FreshTx.gone = {}
  BY DEF FreshTx, IdleTx
<1>2. /\ tx[s].phase = "ready" /\ tx[s].gone = {}
      /\ tx[s].newDefs \in SUBSET Definition /\ tx[s].newScopes \in SUBSET Scope
      /\ \A t \in Session : tx[t].gone = {}
  BY DEF IInv, TypeInv, IdleTx, CallTx, Commit
<1>3. /\ scopes' = VisibleScopes(s) /\ definitions' = VisibleDefinitions(s)
      /\ definitions' = definitions \cup tx[s].newDefs
      /\ SetTx(s, FreshTx) /\ locked' = [locked EXCEPT ![s] = {}]
      /\ UNCHANGED <<cached, inserts>>
  BY <1>2 DEF Commit, VisibleScopes, VisibleDefinitions
<1>4. TypeInv'
  BY <1>1, <1>2, <1>3 DEF IInv, TypeInv, SetTx, VisibleScopes
<1>5. /\ tx'[s] = FreshTx /\ locked'[s] = {}
      /\ \A t \in Session \ {s} : tx'[t] = tx[t] /\ locked'[t] = locked[t]
  BY <1>3 DEF IInv, TypeInv, SetTx
<1>6. /\ VisibleDefinitions(s)' = VisibleDefinitions(s)
      /\ \A t \in Session \ {s} :
           /\ VisibleDefinitions(t)' = VisibleDefinitions(t) \cup tx[s].newDefs
           /\ VisibleScopes(t) \subseteq VisibleScopes(t)'
  BY <1>1, <1>2, <1>3, <1>5 DEF VisibleDefinitions, VisibleScopes
<1>7. ASSUME NEW t \in Session \ {s}, NEW c \in Scope
      PROVE  /\ c \in locked[t] =>
                  RowsOf(c, VisibleDefinitions(t)') = RowsOf(c, VisibleDefinitions(t))
             /\ \/ RowsOf(c, VisibleDefinitions(t)') = RowsOf(c, VisibleDefinitions(t))
                \/ RowsOf(c, VisibleDefinitions(t)') = RowsOf(c, VisibleDefinitions(s))
  <2>1. CASE c \notin locked[s]
    <3>1. \A r \in tx[s].newDefs : r.scope # c
      BY <2>1 DEF IInv, LocksProtect
    <3> QED
      BY <1>6, <3>1 DEF RowsOf
  <2>2. CASE c \in locked[s]
    <3>1. c \notin locked[t]
      BY <2>2 DEF IInv, LocksProtect
    <3>2. \A r \in tx[t].newDefs : r.scope # c
      BY <3>1 DEF IInv, LocksProtect
    <3>3. RowsOf(c, VisibleDefinitions(t)') = RowsOf(c, VisibleDefinitions(s))
      BY <1>2, <1>6, <3>2 DEF RowsOf, VisibleDefinitions
    <3> QED
      BY <3>1, <3>3
  <2> QED
    BY <2>1, <2>2
<1>8. LocksProtect'
  BY <1>1, <1>5 DEF IInv, LocksProtect
<1>9. ScopesExist'
  <2>1. \A r \in definitions' : r.scope \in scopes'
    BY <1>3 DEF IInv, ScopesExist, LocksProtect, VisibleScopes
  <2> QED
    BY <1>5, <1>6, <2>1 DEF IInv, ScopesExist
<1>10. StampsIdentify'
  <2>1. Inserted' \subseteq Inserted
    BY <1>1, <1>3, <1>5 DEF Inserted
  <2>2. Creating' \subseteq Creating
    BY <1>1, <1>5 DEF Creating
  <2>3. inserts' + Cardinality(Creating') <= MaxInserts
    BY <1>3, <2>2, CreatorsStay
  <2> QED
    BY <1>3, <2>1, <2>3 DEF IInv, StampsIdentify
<1>11. AllAreContiguous'
  BY <1>3, <1>6, <1>7 DEF IInv, AllAreContiguous
<1>12. \A t \in Session : InserterIsCurrent(t)'
  <2>1. InserterIsCurrent(s)'
    BY <1>1, <1>5 DEF InserterIsCurrent
  <2>2. ASSUME NEW t \in Session \ {s}
        PROVE  InserterIsCurrent(t)'
    <3>1. SUFFICES ASSUME tx[t].phase = "inserting"
                   PROVE  InserterIsCurrent(t)'
      BY <1>5 DEF InserterIsCurrent
    <3>2. tx[t].scope \in locked[t] /\ tx[t].scope \in Scope
      BY <3>1 DEF IInv, LocksProtect, TypeInv
    <3>3. RowsOf(tx[t].scope, VisibleDefinitions(t)') =
            RowsOf(tx[t].scope, VisibleDefinitions(t))
      BY <1>7, <3>2
    <3> QED
      BY <1>5, <3>1, <3>3 DEF IInv, InserterIsCurrent
  <2> QED
    BY <2>1, <2>2
<1>13. IdentityMapIsCoherent'
  BY <1>2, <1>3, <1>5, <1>6, ZenonT(40) DEF IInv, IdentityMapIsCoherent
<1> QED
  BY <1>4, <1>8, <1>9, <1>10, <1>11, <1>12, <1>13 DEF IInv

LEMMA ResolveInv ==
  ASSUME IInv, NEW s \in Session, Resolve(s)
  PROVE  IInv'
<1>1. PICK r \in cached[s] \cup VisibleDefinitions(s) :
        cached' = [cached EXCEPT ![s] = @ \cup {r}]
  BY DEF Resolve
<1>2. /\ tx[s].phase = "ready" /\ UNCHANGED <<scopes, definitions, tx, locked, inserts>>
  BY DEF Resolve
<1>3. r \in VisibleDefinitions(s)
  BY <1>2 DEF IInv, IdentityMapIsCoherent
<1>4. r \in Definition
  BY <1>3 DEF IInv, TypeInv, VisibleDefinitions, IdleTx, CallTx
<1>5. TypeInv'
  BY <1>1, <1>2, <1>4 DEF IInv, TypeInv
<1>6. \A t \in Session : VisibleDefinitions(t)' = VisibleDefinitions(t)
  BY <1>2 DEF VisibleDefinitions
<1>7. IdentityMapIsCoherent'
  BY <1>1, <1>2, <1>3, <1>6 DEF IInv, TypeInv, IdentityMapIsCoherent
<1>8. /\ LocksProtect' /\ ScopesExist' /\ StampsIdentify'
  BY <1>2 DEF IInv, LocksProtect, ScopesExist, VisibleScopes, StampsIdentify, Inserted,
             Creating
<1>9. AllAreContiguous' /\ \A t \in Session : InserterIsCurrent(t)'
  BY <1>2, <1>6 DEF IInv, AllAreContiguous, InserterIsCurrent
<1> QED
  BY <1>5, <1>7, <1>8, <1>9 DEF IInv

-----------------------------------------------------------------------------
(***************************************************************************)
(* The theorems, for a schema with its triggers.                           *)
(***************************************************************************)
\* What holds of sessions and tables in every behaviour.
THEOREM Invariance ==
  ASSUME Triggers
  PROVE  Spec => []IInv
<1>1. IInv /\ [Next]_vars => IInv'
  <2> SUFFICES ASSUME IInv, [Next]_vars
               PROVE  IInv'
    OBVIOUS
  <2>1. ASSUME NEW s \in Session, NEW c \in Scope, CallCreateScope(s, c) PROVE IInv'
    BY <2>1, CallCreateScopeInv
  <2>2. ASSUME NEW s \in Session, NEW c \in Scope, NEW valid \in BOOLEAN,
               CallCreateDefinition(s, c, valid)
        PROVE  IInv'
    BY <2>2, CallCreateDefinitionInv
  <2>3. ASSUME NEW s \in Session, Step(s) PROVE IInv'
    BY <2>3, CreateScopeInv, RefusalInv, LockScopeInv, ReadLatestInv, InsertDefinitionInv
       DEF Step
  <2>4. ASSUME NEW s \in Session, Resolve(s) PROVE IInv'
    BY <2>4, ResolveInv
  <2>5. ASSUME NEW s \in Session, ModifyDefinition(s) PROVE IInv'
    BY <2>5, AbortInv DEF ModifyDefinition
  <2>6. ASSUME NEW s \in Session, Commit(s) PROVE IInv'
    BY <2>6, CommitInv
  <2>7. ASSUME NEW s \in Session, Rollback(s) PROVE IInv'
    BY <2>7, RollbackInv
  <2>8. ASSUME NEW s \in Session, DeadlockVictim(s) PROVE IInv'
    BY <2>8, AbortInv DEF DeadlockVictim
  <2>9. CASE UNCHANGED vars
    <3>1. /\ TypeInv' /\ LocksProtect' /\ ScopesExist' /\ StampsIdentify'
      BY <2>9 DEF vars, IInv, TypeInv, LocksProtect, ScopesExist, VisibleScopes,
                  StampsIdentify, Inserted, Creating
    <3>2. \A s \in Session : VisibleDefinitions(s)' = VisibleDefinitions(s)
      BY <2>9 DEF vars, VisibleDefinitions
    <3>3. /\ AllAreContiguous' /\ \A s \in Session : InserterIsCurrent(s)'
          /\ IdentityMapIsCoherent'
      BY <2>9, <3>2 DEF vars, IInv, AllAreContiguous, InserterIsCurrent,
                        IdentityMapIsCoherent
    <3> QED
      BY <3>1, <3>3 DEF IInv
  <2> QED
    BY <2>1, <2>2, <2>3, <2>4, <2>5, <2>6, <2>7, <2>8, <2>9 DEF Next
<1> QED
  BY <1>1, InitInv, PTL DEF Spec

\* ScopeDefinitionRepository.create: under the lock of the scope's row, the
\* version that was read as the latest still is when its successor is
\* inserted, and nobody else inserts it.
THEOREM Allocation ==
  ASSUME Triggers
  PROVE  Spec => []AllocationIsCurrent
<1>1. IInv => AllocationIsCurrent
  <2> SUFFICES ASSUME IInv, NEW s \in Session, tx[s].phase = "inserting"
               PROVE  /\ tx[s].version =
                           Latest(VersionsOf(tx[s].scope, VisibleDefinitions(s))) + 1
                      /\ \A t \in Session \ {s} : ~SameKey(s, tx[t].newDefs)
    BY DEF AllocationIsCurrent
  <2>1. tx[s].scope \in Scope /\ tx[s].scope \in locked[s]
    BY DEF IInv, LocksProtect, TypeInv
  <2>2. tx[s].version = Latest(VersionsOf(tx[s].scope, VisibleDefinitions(s))) + 1
    BY <2>1, LatestVersion DEF IInv, InserterIsCurrent
  <2>3. \A t \in Session \ {s} : ~SameKey(s, tx[t].newDefs)
    BY <2>1 DEF IInv, LocksProtect, SameKey
  <2> QED
    BY <2>2, <2>3
<1> QED
  BY <1>1, Invariance, PTL

\* The versions of a scope are 1, 2, ... in the order of their creation,
\* whatever was rolled back in between.
THEOREM Contiguity ==
  ASSUME Triggers
  PROVE  Spec => []VersionsAreContiguous
<1>1. IInv => VersionsAreContiguous
  BY DEF IInv, AllAreContiguous, Contiguous, RowsOf, VersionsAreContiguous
<1> QED
  BY <1>1, Invariance, PTL

\* resolve_analytical_scope: what the identity map can answer is what the
\* tables hold, for as long as the session can be asked.
THEOREM Coherence ==
  ASSUME Triggers
  PROVE  Spec => []IdentityMapIsCoherent
<1>1. IInv => IdentityMapIsCoherent
  BY DEF IInv
<1> QED
  BY <1>1, Invariance, PTL

-----------------------------------------------------------------------------
(***************************************************************************)
(* The refinement of ScopeHistory.                                         *)
(***************************************************************************)
Count(c) == Cardinality({r \in definitions : r.scope = c})

Nth(c, v) == CHOOSE r \in definitions : r.scope = c /\ r.version = v

\* The versions of a committed scope name one definition each.
NthIsTheDefinition ==
  \A c \in Scope :
    /\ Count(c) \in Nat
    /\ \A v \in 1..Count(c) :
         Nth(c, v) \in definitions /\ Nth(c, v).scope = c /\ Nth(c, v).version = v
    /\ \A r \in definitions : r.scope = c =>
         r.version \in 1..Count(c) /\ r = Nth(c, r.version)

LEMMA NthDefinition == IInv => NthIsTheDefinition
<1> SUFFICES ASSUME IInv, NEW c \in Scope
             PROVE  /\ Count(c) \in Nat
                    /\ \A v \in 1..Count(c) : /\ Nth(c, v) \in definitions
                                             /\ Nth(c, v).scope = c /\ Nth(c, v).version = v
                    /\ \A r \in definitions : r.scope = c =>
                         r.version \in 1..Count(c) /\ r = Nth(c, r.version)
  BY DEF NthIsTheDefinition
<1> DEFINE rows == {r \in definitions : r.scope = c}
<1>1. Contiguous(c, rows)
  BY DEF IInv, AllAreContiguous, RowsOf
<1>2. Count(c) \in Nat
  BY <1>1, FS_CardinalityType DEF Contiguous, Count
<1>3. {r.version : r \in rows} = 1..Count(c)
  BY <1>1 DEF Contiguous, Count, VersionsOf
<1>4. \A v \in 1..Count(c) : \E r \in definitions : r.scope = c /\ r.version = v
  BY <1>3
<1>5. \A r \in rows : r.version \in 1..Count(c)
  BY <1>3
<1>6. \A q, r \in rows : q.version = r.version => q = r
  <2> TAKE q, r \in rows
  <2> HAVE q.version = r.version
  <2>1. q \in Inserted /\ r \in Inserted /\ q \in Definition /\ r \in Definition
    BY DEF Inserted, IInv, TypeInv
  <2>2. ~(q.stamp < r.stamp) /\ ~(r.stamp < q.stamp)
    BY <1>1, <2>1 DEF Contiguous, Definition
  <2>3. q.stamp = r.stamp
    BY <2>1, <2>2 DEF Definition
  <2> QED
    BY <2>1, <2>3 DEF IInv, StampsIdentify
<1>7. \A v \in 1..Count(c) :
        Nth(c, v) \in definitions /\ Nth(c, v).scope = c /\ Nth(c, v).version = v
  BY <1>4 DEF Nth
<1>8. \A r \in rows : r = Nth(c, r.version)
  BY <1>5, <1>6, <1>7
<1> QED
  BY <1>2, <1>5, <1>7, <1>8

\* The history that the tables are mapped to.
HistoryIsOfTheDefinitions ==
  /\ DOMAIN CommittedHistory = scopes
  /\ \A c \in scopes : /\ Len(CommittedHistory[c]) = Count(c)
                      /\ \A v \in 1..Count(c) : CommittedHistory[c][v] = Nth(c, v).stamp

LEMMA MappedHistory == IInv => HistoryIsOfTheDefinitions
<1> SUFFICES ASSUME IInv
             PROVE  HistoryIsOfTheDefinitions
  OBVIOUS
<1>1. CommittedHistory = [c \in scopes |-> [v \in 1..Count(c) |-> Nth(c, v).stamp]]
  BY DEF CommittedHistory, Count, Nth
<1>2. \A c \in scopes : Count(c) \in Nat
  BY NthDefinition DEF NthIsTheDefinition, IInv, TypeInv
<1>3. ASSUME NEW c \in scopes
      PROVE  /\ Len(CommittedHistory[c]) = Count(c)
             /\ \A v \in 1..Count(c) : CommittedHistory[c][v] = Nth(c, v).stamp
  <2>1. CommittedHistory[c] = [v \in 1..Count(c) |-> Nth(c, v).stamp]
    BY <1>1
  <2> QED
    BY <1>2, <2>1
<1> QED
  BY <1>1, <1>3 DEF HistoryIsOfTheDefinitions

LEMMA InitRefines ==
  ASSUME Init
  PROVE  History!Init
<1>1. CommittedHistory = [c \in {} |-> <<>>]
  BY DEF Init, CommittedHistory
<1> QED
  BY <1>1 DEF History!Init

\* A commit makes histories longer; what they held they hold.
LEMMA CommitRefines ==
  ASSUME IInv, IInv', NEW s \in Session, Commit(s)
  PROVE  History!CommitTransaction
<1> DEFINE h == CommittedHistory
<1>1. /\ scopes \subseteq scopes' /\ scopes' \subseteq Scope
      /\ definitions \subseteq definitions' /\ inserts' = inserts /\ inserts \in Nat
  BY DEF Commit, IInv, TypeInv, IdleTx, CallTx
<1>2. HistoryIsOfTheDefinitions /\ HistoryIsOfTheDefinitions'
  BY MappedHistory, PTL
<1>3. NthIsTheDefinition /\ NthIsTheDefinition'
  BY NthDefinition, PTL
<1>4. \A q, r \in definitions' : q.stamp = r.stamp => q = r
  BY DEF IInv, StampsIdentify, Inserted
<1>5. \A r \in definitions' : r.stamp \in 1..MaxInserts
  <2>1. \A r \in definitions' : r.stamp \in Nat \ {0} /\ r.stamp <= inserts'
    BY DEF IInv, TypeInv, Definition, StampsIdentify, Inserted
  <2>2. inserts' <= MaxInserts
    BY <1>1, CreatorsAreFinite, RegistryAssumption DEF IInv, StampsIdentify
  <2> QED
    BY <1>1, <2>1, <2>2, RegistryAssumption
<1>6. \A c \in scopes : \A v \in 1..Count(c) :
        v \in 1..Count(c)' /\ Nth(c, v)' = Nth(c, v)
  BY <1>1, <1>3 DEF NthIsTheDefinition
<1>7. \A c \in scopes : Count(c) \in Nat /\ Count(c)' \in Nat /\ Count(c) <= Count(c)'
  <2> TAKE c \in scopes
  <2>1. Count(c) \in Nat /\ Count(c)' \in Nat
    BY <1>1, <1>3 DEF NthIsTheDefinition
  <2>2. Count(c) # 0 => Count(c) \in 1..Count(c)'
    BY <1>6, <2>1
  <2> QED
    BY <2>1, <2>2
<1>8. \A c \in DOMAIN h : History!IsExtension(h[c], h'[c])
  BY <1>1, <1>2, <1>6, <1>7 DEF HistoryIsOfTheDefinitions, History!IsExtension
<1>9. ASSUME NEW c \in scopes', NEW v \in 1..Count(c)',
             c \in scopes => v > Count(c)
      PROVE  /\ h'[c][v] \in History!Stamps \ History!Recorded
             /\ \A d \in scopes' : \A w \in 1..Count(d)' :
                  h'[c][v] = h'[d][w] => d = c /\ w = v
  <2> DEFINE r == Nth(c, v)'
  <2>1. r \in definitions' /\ r.scope = c /\ r.version = v /\ h'[c][v] = r.stamp
    BY <1>1, <1>2, <1>3 DEF NthIsTheDefinition, HistoryIsOfTheDefinitions
  <2>2. h'[c][v] \in History!Stamps
    BY <1>5, <2>1 DEF History!Stamps
  <2> HIDE DEF r
  <2>3. \A d \in scopes' : \A w \in 1..Count(d)' : h'[c][v] = h'[d][w] => d = c /\ w = v
    <3> TAKE d \in scopes'
    <3> TAKE w \in 1..Count(d)'
    <3> HAVE h'[c][v] = h'[d][w]
    <3>1. /\ Nth(d, w)' \in definitions' /\ Nth(d, w)'.scope = d
          /\ Nth(d, w)'.version = w /\ h'[d][w] = Nth(d, w)'.stamp
      BY <1>1, <1>2, <1>3 DEF NthIsTheDefinition, HistoryIsOfTheDefinitions
    <3> QED
      BY <1>4, <2>1, <3>1
  <2>4. r \notin definitions
    <3>1. SUFFICES ASSUME r \in definitions
                   PROVE  FALSE
      OBVIOUS
    <3>2. c \in scopes
      BY <2>1, <3>1 DEF IInv, ScopesExist
    <3>3. v \in 1..Count(c)
      BY <1>1, <1>3, <2>1, <3>1 DEF NthIsTheDefinition
    <3> QED
      BY <1>7, <1>9, <3>2, <3>3
  <2>5. \A d \in scopes : \A w \in 1..Count(d) : h[d][w] # r.stamp
    <3> TAKE d \in scopes
    <3> TAKE w \in 1..Count(d)
    <3>1. Nth(d, w) \in definitions /\ h[d][w] = Nth(d, w).stamp
      BY <1>1, <1>2, <1>3 DEF NthIsTheDefinition, HistoryIsOfTheDefinitions
    <3> QED
      BY <1>1, <1>4, <2>1, <2>4, <3>1
  <2>6. h'[c][v] \notin History!Recorded
    BY <1>2, <2>1, <2>5 DEF HistoryIsOfTheDefinitions, History!Recorded
  <2> QED
    BY <2>2, <2>3, <2>6
<1> QED
  <2>1. \A c \in DOMAIN h' :
          LET known == IF c \in DOMAIN h THEN Len(h[c]) ELSE 0
          IN  \A v \in known + 1..Len(h'[c]) :
                /\ h'[c][v] \in History!Stamps \ History!Recorded
                /\ \A d \in DOMAIN h' : \A w \in 1..Len(h'[d]) :
                     h'[c][v] = h'[d][w] => d = c /\ w = v
    <3> SUFFICES ASSUME NEW c \in scopes',
                        NEW v \in (IF c \in scopes THEN Count(c) ELSE 0) + 1..Count(c)'
                 PROVE  /\ h'[c][v] \in History!Stamps \ History!Recorded
                        /\ \A d \in scopes' : \A w \in 1..Count(d)' :
                             h'[c][v] = h'[d][w] => d = c /\ w = v
      BY <1>2 DEF HistoryIsOfTheDefinitions
    <3>1. v \in 1..Count(c)' /\ (c \in scopes => v > Count(c))
      BY <1>7
    <3> QED
      BY <1>9, <3>1
  <2>2. /\ DOMAIN h' \in SUBSET Scope /\ DOMAIN h \subseteq DOMAIN h'
    BY <1>1, <1>2 DEF HistoryIsOfTheDefinitions
  <2> QED
    BY <1>8, <2>1, <2>2 DEF History!CommitTransaction

\* Every other step leaves the committed rows as they are.
LEMMA OtherStepsStutter ==
  ASSUME [Next]_vars, ~\E s \in Session : Commit(s)
  PROVE  UNCHANGED CommittedHistory
<1>1. scopes' = scopes /\ definitions' = definitions
  BY DEF Next, vars, CallCreateScope, CallCreateDefinition, Step, CreateScope, ScopeMissing,
         LockScope, ReadLatest, RejectFields, InsertDefinition, Resolve, ModifyDefinition,
         Rollback, DeadlockVictim, Abort
<1> QED
  BY <1>1 DEF CommittedHistory

\* The committed scope tables are append-only histories: version n of a scope
\* is its n-th definition for ever.
THEOREM Refinement ==
  ASSUME Triggers
  PROVE  Spec => ImplementsHistory
<1>1. Init => History!Init
  BY InitRefines
<1>2. IInv /\ IInv' /\ [Next]_vars => [History!CommitTransaction]_CommittedHistory
  BY CommitRefines, OtherStepsStutter
<1> QED
  BY <1>1, <1>2, Invariance, PTL DEF Spec, ImplementsHistory, History!Spec
=============================================================================

------------------------- MODULE GraphProjectionProofs -------------------------
(***************************************************************************)
(* For any calls of any number of sessions on any rows that the schema     *)
(* admits: what is committed is complete, since the locks that statements  *)
(* take keep apart what transactions write and claim, and a call leaves    *)
(* nothing undone that its statements do not still have to do.  Deletes    *)
(* are therefore not refused, and what a build projects is what was        *)
(* committed while it ran.                                                 *)
(*                                                                         *)
(* The first part is about the tables and their sessions (CanonicalTables),*)
(* the second about the reader.                                            *)
(***************************************************************************)
EXTENDS GraphProjection, FiniteSetTheorems, TLAPS

-----------------------------------------------------------------------------
(***************************************************************************)
(* Types.                                                                  *)
(***************************************************************************)
Given ==
  (UNION {situation.rows : situation \in Situations})
  \cup (UNION {{call.row : call \in Calls[s]} : s \in Session})

\* The rows there can be.
AnyRow ==
  Given \cup (UNION {{Link(r, r.named[i]) : i \in 1..Len(r.named)} : r \in Given})

AnyKey == Keys(AnyRow) \cup (UNION {Refs(r) : r \in AnyRow})

AnyValue == UNION {r.unique : r \in AnyRow}

AnyCall == {NoCall} \cup (UNION {Calls[s] : s \in Session})

Kinds == {"insert", "refer", "get", "update", "load", "delete", "cascade"}

Instruction == [do : Kinds, row : AnyRow]

Errors ==
  {"none", "duplicate", "missing", "stale", "referenced", "deadlock", "cancelled"}

SessionType ==
  [own : SUBSET AnyRow, gone : SUBSET AnyKey, claims : SUBSET AnyValue,
   shared : SUBSET AnyKey, todo : Seq(Instruction), call : AnyCall,
   error : Errors, calls : Nat]

TypeInv ==
  /\ db \in SUBSET AnyRow /\ IsFiniteSet(db)
  /\ session \in [Session -> SessionType]
  /\ \A s \in Session : IsFiniteSet(session[s].own)

-----------------------------------------------------------------------------
(***************************************************************************)
(* The inductive invariant: first, what the locks keep apart.              *)
(***************************************************************************)
\* No two transactions write the same row, or have put the same value in an
\* index, and none deletes what another has locked for a reference.
Apart ==
  \A s, t \in Session : s # t =>
    /\ Written(s) \cap Written(t) = {}
    /\ session[s].claims \cap session[t].claims = {}
    /\ session[s].shared \cap session[t].gone \cap Keys(db) = {}

\* A transaction has claimed the values of its rows, and has written the
\* committed rows that have a value it claimed.
Claimed(s) ==
  /\ \A r \in session[s].own : r.unique \subseteq session[s].claims
  /\ session[s].gone \subseteq Keys(db) \cup session[s].claims
  /\ \A r \in db : r.unique \cap session[s].claims # {} => Key(r) \in Written(s)

LockInv ==
  /\ Apart
  /\ Distinct(db)
  /\ \A s \in Session : Claimed(s) /\ Distinct(session[s].own)

-----------------------------------------------------------------------------
(***************************************************************************)
(* Then, what remains to be done of a call.                                *)
(***************************************************************************)
\* Statement i of the call is of this kind, and for this key.
At(todo, i, do, key) == todo[i].do = do /\ Key(todo[i].row) = key

Pending(todo, do, key) == \E i \in 1..Len(todo) : At(todo, i, do, key)

PendingRow(todo, do, row) == \E i \in 1..Len(todo) : todo[i] = Do(do, row)

Only(todo, kinds) == \A i \in 1..Len(todo) : todo[i].do \in kinds

\* A call inserts, or reads and changes, or deletes.
OneMood(todo) ==
  \/ Only(todo, {"insert", "refer"})
  \/ Only(todo, {"get", "update", "load"})
  \/ Only(todo, {"delete", "cascade"})

\* A row is inserted before its links, and deleted after them.
LinksFollow(todo) ==
  \A i \in 1..Len(todo) : todo[i].do = "insert" =>
    \A n \in 1..Len(todo[i].row.named) :
      \E j \in (i+1)..Len(todo) :
        todo[j] = Do("insert", Link(todo[i].row, todo[i].row.named[n]))

OwnerFollows(todo) ==
  \A i \in 1..Len(todo) :
    todo[i].do = "delete" /\ todo[i].row.table \in {"relationship_evidence", "finding_evidence"} =>
      \A key \in todo[i].row.owners : \E j \in (i+1)..Len(todo) : At(todo, j, "delete", key)

\* Only entities are updated, and no evidence is deleted.
Targets(todo) ==
  \A i \in 1..Len(todo) :
    /\ todo[i].do = "update" => todo[i].row.table = "entities"
    /\ todo[i].do = "load" =>
         /\ i = Len(todo)
         /\ todo[i].row.table \in {"entities", "relationships", "findings"}
    /\ todo[i].do \in {"delete", "cascade"} => todo[i].row.table # "evidence"

InOrder(todo) ==
  OneMood(todo) /\ LinksFollow(todo) /\ OwnerFollows(todo) /\ Targets(todo)

\* A call that deletes does nothing that could be refused.
Deleting(s) ==
  session[s].call.op = "delete" =>
    Only(session[s].todo, {"get", "load", "delete", "cascade"})

\* Rows whose deletion the foreign keys still have to act on are gone.
CascadesFollow(own, gone, todo) ==
  \A i \in 1..Len(todo) : todo[i].do = "cascade" => Key(todo[i].row) \in gone \ Keys(own)

CallInv(s) ==
  /\ InOrder(session[s].todo)
  /\ Deleting(s)
  /\ CascadesFollow(session[s].own, session[s].gone, session[s].todo)

-----------------------------------------------------------------------------
(***************************************************************************)
(* Last, what a transaction sees is complete but for what remains.         *)
(***************************************************************************)
RefsAreThere(stored, todo) ==
  \A r \in stored : \A key \in Refs(r) :
    \/ key \in Keys(stored)
    \/ PendingRow(todo, "refer", r)
    \/ Pending(todo, "cascade", key)

LinksAreThere(stored, todo) ==
  \A r \in stored : \A i \in 1..Len(r.named) :
    \/ Link(r, r.named[i]) \in stored
    \/ PendingRow(todo, "insert", Link(r, r.named[i]))
    \/ Pending(todo, "delete", Key(r))

RefsAreLocked(stored, shared, todo) ==
  \A r \in stored : PendingRow(todo, "refer", r) \/ Refs(r) \subseteq shared

\* What its own rows refer to is locked, and their links are its own.
ViewInv(s) ==
  session[s].error = "none" =>
    /\ RefsAreThere(View(s), session[s].todo)
    /\ LinksAreThere(View(s), session[s].todo)
    /\ RefsAreLocked(session[s].own, session[s].shared, session[s].todo)
    /\ LinksAreThere(session[s].own, session[s].todo)

Allowed(s) ==
  session[s].call.op = "delete" => session[s].error \in {"none", "deadlock", "cancelled"}

IInv ==
  /\ TypeInv
  /\ LockInv
  /\ \A s \in Session : CallInv(s) /\ ViewInv(s) /\ Allowed(s)
  /\ EvidenceIsKept

-----------------------------------------------------------------------------
(***************************************************************************)
(* Lemmas about rows.                                                      *)
(***************************************************************************)
\* Every row that there can be is well formed, and so are its links.
LEMMA GivenAreWellFormed ==
  \A r \in Given : WellFormed(r)
BY CallsAssumption, SituationsAssumption DEF Given

LEMMA LinksAreWellFormed ==
  ASSUME NEW r \in Given, NEW i \in 1..Len(r.named)
  PROVE  WellFormed(Link(r, r.named[i])) /\ Link(r, r.named[i]).named = <<>>
<1>1. WellFormed(r) /\ r.named # <<>>
  BY GivenAreWellFormed DEF WellFormed
<1>2. r.table \in {"relationships", "findings"}
  BY <1>1 DEF WellFormed
<1> DEFINE q == Link(r, r.named[i])
<1>3. /\ q.table = LinkTable(r) /\ q.id = <<r.id, r.named[i]>> /\ q.owners = {Key(r)}
      /\ q.cites = {<<"evidence", r.named[i]>>} /\ q.named = <<>>
      /\ q.unique = {<<q.table, q.id>>} /\ q.value = <<>>
  BY DEF Link, Row
<1>4. q = Row(q.table, q.id, q.owners, q.cites, q.unique, q.value, q.named)
  BY DEF Link, Row
<1>5. q.named \in Seq(ToSet(q.named))
  BY <1>3 DEF ToSet
<1>6. q.table = "relationship_evidence" => q.owners = {<<"relationships", q.id[1]>>}
  BY <1>2, <1>3 DEF LinkTable, Key
<1>7. q.table = "finding_evidence" => q.owners = {<<"findings", q.id[1]>>}
  BY <1>2, <1>3 DEF LinkTable, Key
<1>8. q.table \in {"relationship_evidence", "finding_evidence"}
  BY <1>3 DEF LinkTable
<1>9. \A key \in q.cites : key[1] = "evidence"
  BY <1>3
<1> QED
  BY <1>3, <1>4, <1>5, <1>6, <1>7, <1>8, <1>9 DEF WellFormed

LEMMA RowsAreWellFormed ==
  \A r \in AnyRow : WellFormed(r)
BY GivenAreWellFormed, LinksAreWellFormed DEF AnyRow

LEMMA LinksAreRows ==
  ASSUME NEW r \in AnyRow, NEW i \in 1..Len(r.named)
  PROVE  Link(r, r.named[i]) \in AnyRow
<1>1. CASE r \in Given
  BY <1>1 DEF AnyRow
<1>2. ASSUME NEW q \in Given, NEW j \in 1..Len(q.named), r = Link(q, q.named[j])
      PROVE  FALSE
  BY <1>2, LinksAreWellFormed
<1> QED
  BY <1>1, <1>2 DEF AnyRow

\* A row has its key among its values, and its key tells its table.
LEMMA KeyOfRow ==
  /\ \A r \in AnyRow : Key(r) \in r.unique
  /\ \A q, r \in AnyRow : Key(q) = Key(r) => q.table = r.table /\ q.id = r.id
<1>1. ASSUME NEW r \in AnyRow
      PROVE  Key(r) \in r.unique
  <2>1. r = Row(r.table, r.id, r.owners, r.cites, r.unique, r.value, r.named)
    BY RowsAreWellFormed DEF WellFormed
  <2>2. r.unique = r.unique \cup {<<r.table, r.id>>}
    BY <2>1 DEF Row
  <2> QED
    BY <2>2 DEF Key
<1> QED
  BY <1>1 DEF Key

LEMMA EntitiesStandAlone ==
  \A r \in AnyRow : r.table = "entities" => Refs(r) = {} /\ Len(r.named) = 0
<1> SUFFICES ASSUME NEW r \in AnyRow, r.table = "entities"
             PROVE  Refs(r) = {} /\ Len(r.named) = 0
  OBVIOUS
<1>1. Refs(r) = {} /\ r.named = <<>>
  BY RowsAreWellFormed DEF WellFormed
<1> QED
  BY <1>1

\* Only evidence is cited, and evidence has no owner.
LEMMA EvidenceIsCited ==
  ASSUME NEW r \in AnyRow, NEW c \in AnyRow, Key(c) \in Refs(r), c.table # "evidence"
  PROVE  Key(c) \in r.owners
<1>1. Key(c)[1] = c.table
  BY DEF Key
<1>2. Key(c) \notin r.cites
  BY <1>1, RowsAreWellFormed DEF WellFormed
<1> QED
  BY <1>2 DEF Refs

LEMMA EvidenceIsOwned ==
  \A r \in AnyRow : r.table = "evidence" => r.owners = {}
BY RowsAreWellFormed DEF WellFormed

\* Who has the key of a link is a link of the same owner.
LEMMA OwnerOfLink ==
  ASSUME NEW r \in AnyRow, NEW i \in 1..Len(r.named),
         NEW c \in AnyRow, Key(c) = Key(Link(r, r.named[i]))
  PROVE  /\ c.table \in {"relationship_evidence", "finding_evidence"}
         /\ c.owners = {Key(r)}
<1>1. r.table \in {"relationships", "findings"}
  <2>1. r.named # <<>>
    OBVIOUS
  <2> QED
    BY <2>1, RowsAreWellFormed DEF WellFormed
<1>2. c.table = LinkTable(r) /\ c.id = <<r.id, r.named[i]>>
  BY DEF Key, Link, Row
<1>3. c.id[1] = r.id
  BY <1>2
<1>4. WellFormed(c)
  BY RowsAreWellFormed
<1>5. CASE r.table = "relationships"
  BY <1>2, <1>3, <1>4, <1>5 DEF WellFormed, LinkTable, Key
<1>6. CASE r.table = "findings"
  BY <1>2, <1>3, <1>4, <1>6 DEF WellFormed, LinkTable, Key
<1> QED
  BY <1>1, <1>5, <1>6

-----------------------------------------------------------------------------
(***************************************************************************)
(* Lemmas about locks: what a step of a session does to what it holds.     *)
(***************************************************************************)
OthersStay(s) == \A t \in Session : t # s => session'[t] = session[t]

\* What the transaction has written and locked is as before.
HoldsAsBefore(s) ==
  /\ session'[s].own = session[s].own /\ session'[s].gone = session[s].gone
  /\ session'[s].claims = session[s].claims /\ session'[s].shared = session[s].shared

HoldsNothing(s) ==
  /\ session'[s].own = {} /\ session'[s].gone = {}
  /\ session'[s].claims = {} /\ session'[s].shared = {}

LEMMA KeysHold ==
  ASSUME NEW R
  PROVE  /\ \A r \in R : Key(r) \in Keys(R)
         /\ \A k \in Keys(R) : \E r \in R : k = Key(r)
BY DEF Keys

\* The keys of its rows are among what a transaction has claimed.
LEMMA OwnKeysClaimed ==
  ASSUME TypeInv, LockInv, NEW s \in Session
  PROVE  Keys(session[s].own) \subseteq session[s].claims
<1>1. session[s].own \subseteq AnyRow
  BY DEF TypeInv, SessionType
<1>2. \A r \in session[s].own : Key(r) \in r.unique /\ r.unique \subseteq session[s].claims
  BY <1>1, KeyOfRow DEF LockInv, Claimed
<1> QED
  BY <1>2, KeysHold

\* No two rows that a session sees share a value.
LEMMA ViewIsDistinct ==
  ASSUME TypeInv, LockInv, NEW s \in Session
  PROVE  View(s) \subseteq AnyRow /\ Distinct(View(s))
<1>1. session[s].own \subseteq AnyRow /\ db \subseteq AnyRow
  BY DEF TypeInv, SessionType
<1>2. View(s) \subseteq AnyRow
  BY <1>1 DEF View
<1>3. ASSUME NEW q \in View(s), NEW r \in View(s), q.unique \cap r.unique # {}
      PROVE  q = r
  <2>1. CASE q \in session[s].own /\ r \in session[s].own
    BY <1>3, <2>1 DEF LockInv, Distinct
  <2>2. CASE q \notin session[s].own /\ r \notin session[s].own
    BY <1>3, <2>2 DEF LockInv, Distinct, View
  <2>3. ASSUME NEW x \in session[s].own, NEW y \in View(s), y \notin session[s].own,
               x.unique \cap y.unique # {}
        PROVE  FALSE
    <3>1. y \in db /\ Key(y) \notin session[s].gone \cup Keys(session[s].own)
      BY <2>3 DEF View
    <3>2. y.unique \cap session[s].claims # {}
      BY <2>3 DEF LockInv, Claimed
    <3>3. Key(y) \in Written(s)
      BY <3>1, <3>2 DEF LockInv, Claimed
    <3> QED
      BY <3>1, <3>3 DEF Written
  <2> QED
    BY <1>3, <2>1, <2>2, <2>3
<1> QED
  BY <1>2, <1>3 DEF Distinct

LEMMA SameKeySameRow ==
  ASSUME TypeInv, LockInv, NEW s \in Session,
         NEW q \in View(s), NEW r \in View(s), Key(q) = Key(r)
  PROVE  q = r
<1>1. Key(q) \in q.unique /\ Key(r) \in r.unique
  BY ViewIsDistinct, KeyOfRow
<1> QED
  BY <1>1, ViewIsDistinct DEF Distinct

LEMMA LocksOnStay ==
  ASSUME LockInv, NEW s \in Session, OthersStay(s), db' = db, HoldsAsBefore(s)
  PROVE  LockInv'
<1>1. \A t \in Session :
        /\ session'[t].own = session[t].own /\ session'[t].gone = session[t].gone
        /\ session'[t].claims = session[t].claims /\ session'[t].shared = session[t].shared
  BY DEF OthersStay, HoldsAsBefore
<1>2. \A t \in Session : Written(t)' = Written(t)
  BY <1>1 DEF Written
<1>3. Apart'
  BY <1>1, <1>2 DEF Apart, LockInv
<1>4. \A t \in Session : Claimed(t)' /\ Distinct(session'[t].own)
  BY <1>1, <1>2 DEF Claimed, LockInv
<1> QED
  BY <1>3, <1>4 DEF LockInv

LEMMA LocksOnReset ==
  ASSUME LockInv, NEW s \in Session, OthersStay(s), db' = db, HoldsNothing(s)
  PROVE  LockInv'
<1>1. \A t \in Session : t # s =>
        /\ session'[t].own = session[t].own /\ session'[t].gone = session[t].gone
        /\ session'[t].claims = session[t].claims /\ session'[t].shared = session[t].shared
        /\ Written(t)' = Written(t)
  BY DEF OthersStay, Written
<1>2. Written(s)' = {}
  BY DEF HoldsNothing, Written, Keys
<1>3. Apart'
  BY <1>1, <1>2 DEF Apart, LockInv, HoldsNothing
<1>4. ASSUME NEW t \in Session
      PROVE  Claimed(t)' /\ Distinct(session'[t].own)
  <2>1. CASE t = s
    BY <2>1 DEF Claimed, Distinct, HoldsNothing
  <2>2. CASE t # s
    BY <1>1, <2>2 DEF Claimed, LockInv
  <2> QED
    BY <2>1, <2>2
<1> QED
  BY <1>3, <1>4 DEF LockInv

\* A row is put among the others, for values that nobody else claims.
LEMMA LocksOnPut ==
  ASSUME LockInv, NEW s \in Session, OthersStay(s), db' = db,
         NEW row \in AnyRow, NEW others, others \subseteq session[s].own,
         Keys(session[s].own) \subseteq Keys(others) \cup {Key(row)},
         session'[s].own = others \cup {row},
         session'[s].claims = session[s].claims \cup row.unique,
         session'[s].gone = session[s].gone, session'[s].shared = session[s].shared,
         \A t \in Session \ {s} :
           session[t].claims \cap row.unique = {} /\ Key(row) \notin Written(t),
         \A r \in db : r.unique \cap row.unique # {} =>
           Key(r) \in Written(s) \cup {Key(row)},
         \A r \in others : r.unique \cap row.unique = {}
  PROVE  LockInv'
<1>1. \A t \in Session : t # s =>
        /\ session'[t].own = session[t].own /\ session'[t].gone = session[t].gone
        /\ session'[t].claims = session[t].claims /\ session'[t].shared = session[t].shared
        /\ Written(t)' = Written(t)
  BY DEF OthersStay, Written
<1>2. Keys(others \cup {row}) = Keys(others) \cup {Key(row)}
  BY DEF Keys
<1>3. Keys(others) \subseteq Keys(session[s].own)
  BY DEF Keys
<1>4. Written(s)' = Written(s) \cup ({Key(row)} \cap Keys(db))
  BY <1>2, <1>3 DEF Written
<1>5. ASSUME NEW t \in Session, NEW u \in Session, t # u
      PROVE  /\ (Written(t) \cap Written(u) = {})'
             /\ session'[t].claims \cap session'[u].claims = {}
             /\ session'[t].shared \cap session'[u].gone \cap Keys(db') = {}
  <2>1. /\ Written(t) \cap Written(u) = {} /\ session[t].claims \cap session[u].claims = {}
        /\ session[t].shared \cap session[u].gone \cap Keys(db) = {}
    BY <1>5 DEF LockInv, Apart
  <2>2. CASE t = s
    <3>1. Key(row) \notin Written(u) /\ session[u].claims \cap row.unique = {}
      BY <1>5, <2>2
    <3> QED
      BY <1>1, <1>4, <1>5, <2>1, <2>2, <3>1
  <2>3. CASE u = s
    <3>1. Key(row) \notin Written(t) /\ session[t].claims \cap row.unique = {}
      BY <1>5, <2>3
    <3> QED
      BY <1>1, <1>4, <1>5, <2>1, <2>3, <3>1
  <2>4. CASE t # s /\ u # s
    BY <1>1, <2>1, <2>4
  <2> QED
    BY <2>2, <2>3, <2>4
<1>6. Apart'
  BY <1>5 DEF Apart
<1>7. ASSUME NEW t \in Session
      PROVE  Claimed(t)' /\ Distinct(session'[t].own)
  <2>1. CASE t # s
    BY <1>1, <2>1 DEF Claimed, LockInv
  <2>2. CASE t = s
    <3>1. Claimed(s) /\ Distinct(session[s].own)
      BY DEF LockInv
    <3>2. \A r \in session'[s].own : r.unique \subseteq session'[s].claims
      BY <3>1 DEF Claimed
    <3>3. session'[s].gone \subseteq Keys(db') \cup session'[s].claims
      BY <3>1 DEF Claimed
    <3>4. ASSUME NEW r \in db, r.unique \cap session'[s].claims # {}
          PROVE  Key(r) \in Written(s)'
      <4>1. Key(r) \in Keys(db)
        BY KeysHold
      <4>2. CASE r.unique \cap session[s].claims # {}
        BY <1>4, <3>1, <4>2 DEF Claimed
      <4>3. CASE r.unique \cap row.unique # {}
        BY <1>4, <4>1, <4>3
      <4> QED
        BY <3>4, <4>2, <4>3
    <3>5. Distinct(session'[s].own)
      BY <3>1 DEF Distinct
    <3> QED
      BY <2>2, <3>2, <3>3, <3>4, <3>5 DEF Claimed
  <2> QED
    BY <2>1, <2>2
<1> QED
  BY <1>6, <1>7 DEF LockInv

\* The row with a key that nobody else has written or locked is deleted.
LEMMA LocksOnRemove ==
  ASSUME TypeInv, LockInv, NEW s \in Session, OthersStay(s), db' = db,
         NEW key \in Keys(View(s)),
         session'[s].own = {r \in session[s].own : Key(r) # key},
         session'[s].gone = session[s].gone \cup {key},
         session'[s].claims = session[s].claims, session'[s].shared = session[s].shared,
         \A t \in Session \ {s} : ~Locks(t, key)
  PROVE  LockInv'
<1>1. \A t \in Session : t # s =>
        /\ session'[t].own = session[t].own /\ session'[t].gone = session[t].gone
        /\ session'[t].claims = session[t].claims /\ session'[t].shared = session[t].shared
        /\ Written(t)' = Written(t)
  BY DEF OthersStay, Written
<1>2. Keys(session'[s].own) \subseteq Keys(session[s].own)
      /\ Keys(session[s].own) \subseteq Keys(session'[s].own) \cup {key}
  BY DEF Keys
<1>3. /\ Written(s)' \subseteq Written(s) \cup {key}
      /\ Written(s) \subseteq Written(s)'
  BY <1>2 DEF Written
<1>4. ASSUME NEW t \in Session, NEW u \in Session, t # u
      PROVE  /\ (Written(t) \cap Written(u) = {})'
             /\ session'[t].claims \cap session'[u].claims = {}
             /\ session'[t].shared \cap session'[u].gone \cap Keys(db') = {}
  <2>1. /\ Written(t) \cap Written(u) = {} /\ session[t].claims \cap session[u].claims = {}
        /\ session[t].shared \cap session[u].gone \cap Keys(db) = {}
    BY <1>4 DEF LockInv, Apart
  <2>2. CASE t = s
    <3>1. key \notin Written(u) /\ key \notin session[u].shared
      BY <1>4, <2>2 DEF Locks
    <3> QED
      BY <1>1, <1>3, <1>4, <2>1, <2>2, <3>1
  <2>3. CASE u = s
    <3>1. key \notin Written(t) /\ key \notin session[t].shared
      BY <1>4, <2>3 DEF Locks
    <3> QED
      BY <1>1, <1>3, <1>4, <2>1, <2>3, <3>1
  <2>4. CASE t # s /\ u # s
    BY <1>1, <2>1, <2>4
  <2> QED
    BY <2>2, <2>3, <2>4
<1>5. Apart'
  BY <1>4 DEF Apart
<1>6. ASSUME NEW t \in Session
      PROVE  Claimed(t)' /\ Distinct(session'[t].own)
  <2>1. CASE t # s
    BY <1>1, <2>1 DEF Claimed, LockInv
  <2>2. CASE t = s
    <3>1. Claimed(s) /\ Distinct(session[s].own)
      BY DEF LockInv
    <3>2. \A r \in session'[s].own : r.unique \subseteq session'[s].claims
      BY <3>1 DEF Claimed
    <3>3. key \in Keys(db) \cup session[s].claims
      <4>1. key \in Keys(db) \cup Keys(session[s].own)
        BY DEF View, Keys
      <4> QED
        BY <4>1, OwnKeysClaimed
    <3>4. session'[s].gone \subseteq Keys(db') \cup session'[s].claims
      BY <3>1, <3>3 DEF Claimed
    <3>5. \A r \in db' : r.unique \cap session'[s].claims # {} => Key(r) \in Written(s)'
      BY <1>3, <3>1 DEF Claimed
    <3>6. Distinct(session'[s].own)
      BY <3>1 DEF Distinct
    <3> QED
      BY <2>2, <3>2, <3>4, <3>5, <3>6 DEF Claimed
  <2> QED
    BY <2>1, <2>2
<1> QED
  BY <1>5, <1>6 DEF LockInv

\* Keys that nobody else deletes are locked for a reference.
LEMMA LocksOnShare ==
  ASSUME LockInv, NEW s \in Session, OthersStay(s), db' = db, NEW refs,
         session'[s].own = session[s].own, session'[s].gone = session[s].gone,
         session'[s].claims = session[s].claims,
         session'[s].shared = session[s].shared \cup refs,
         \A t \in Session \ {s} : refs \cap session[t].gone \cap Keys(db) = {}
  PROVE  LockInv'
<1>1. \A t \in Session :
        /\ session'[t].own = session[t].own /\ session'[t].gone = session[t].gone
        /\ session'[t].claims = session[t].claims
        /\ t # s => session'[t].shared = session[t].shared
  BY DEF OthersStay
<1>2. \A t \in Session : Written(t)' = Written(t)
  BY <1>1 DEF Written
<1>3. ASSUME NEW t \in Session, NEW u \in Session, t # u
      PROVE  session'[t].shared \cap session'[u].gone \cap Keys(db') = {}
  <2>1. session[t].shared \cap session[u].gone \cap Keys(db) = {}
    BY <1>3 DEF LockInv, Apart
  <2>2. CASE t = s
    <3>1. refs \cap session[u].gone \cap Keys(db) = {}
      BY <1>3, <2>2
    <3> QED
      BY <1>1, <2>1, <2>2, <3>1
  <2>3. CASE t # s
    BY <1>1, <2>1, <2>3
  <2> QED
    BY <2>2, <2>3
<1>4. Apart'
  BY <1>1, <1>2, <1>3 DEF Apart, LockInv
<1>5. \A t \in Session : Claimed(t)' /\ Distinct(session'[t].own)
  BY <1>1, <1>2 DEF Claimed, LockInv
<1> QED
  BY <1>4, <1>5 DEF LockInv

\* What the transaction has done becomes what there is.
LEMMA LocksOnCommit ==
  ASSUME TypeInv, LockInv, NEW s \in Session, OthersStay(s), db' = View(s), HoldsNothing(s)
  PROVE  LockInv'
<1>1. \A t \in Session : t # s =>
        /\ session'[t].own = session[t].own /\ session'[t].gone = session[t].gone
        /\ session'[t].claims = session[t].claims /\ session'[t].shared = session[t].shared
  BY DEF OthersStay
<1>2. Written(s)' = {}
  BY DEF HoldsNothing, Written, Keys
\* A key that is new was claimed by s, and by nobody else.
<1>3. ASSUME NEW key \in Keys(db'), key \notin Keys(db)
      PROVE  /\ key \in session[s].claims
             /\ \A t \in Session \ {s} : key \notin session[t].claims
  <2>1. key \in Keys(session[s].own)
    BY <1>3 DEF View, Keys
  <2>2. key \in session[s].claims
    BY <2>1, OwnKeysClaimed
  <2> QED
    BY <2>2 DEF LockInv, Apart
<1>4. ASSUME NEW t \in Session, t # s, NEW key \in Keys(db'),
             key \in Keys(session[t].own) \cup session[t].gone
      PROVE  key \in Keys(db)
  <2>1. key \in Keys(db) \cup session[t].claims
    BY <1>4, OwnKeysClaimed DEF LockInv, Claimed
  <2> QED
    BY <1>3, <1>4, <2>1
<1>5. \A t \in Session : t # s => Written(t)' \subseteq Written(t)
  BY <1>1, <1>4 DEF Written
<1>6. ASSUME NEW t \in Session, NEW u \in Session, t # u
      PROVE  /\ (Written(t) \cap Written(u) = {})'
             /\ session'[t].claims \cap session'[u].claims = {}
             /\ session'[t].shared \cap session'[u].gone \cap Keys(db') = {}
  <2>1. /\ Written(t) \cap Written(u) = {} /\ session[t].claims \cap session[u].claims = {}
        /\ session[t].shared \cap session[u].gone \cap Keys(db) = {}
    BY <1>6 DEF LockInv, Apart
  <2>2. CASE t = s \/ u = s
    BY <1>2, <2>2 DEF HoldsNothing
  <2>3. CASE t # s /\ u # s
    BY <1>1, <1>4, <1>5, <2>1, <2>3
  <2> QED
    BY <2>2, <2>3
<1>7. Apart'
  BY <1>6 DEF Apart
<1>8. ASSUME NEW t \in Session
      PROVE  Claimed(t)' /\ Distinct(session'[t].own)
  <2>1. CASE t = s
    BY <2>1 DEF Claimed, Distinct, HoldsNothing
  <2>2. CASE t # s
    <3>1. Claimed(t) /\ Distinct(session[t].own)
      BY DEF LockInv
    <3>2. \A r \in session'[t].own : r.unique \subseteq session'[t].claims
      BY <1>1, <2>2, <3>1 DEF Claimed
    <3>3. ASSUME NEW key \in session[t].gone
          PROVE  key \in Keys(db') \cup session[t].claims
      <4>1. CASE key \in session[t].claims
        BY <4>1
      <4>2. CASE key \in Keys(db)
        <5>1. key \in Written(t)
          BY <3>3, <4>2 DEF Written
        <5>2. key \notin Written(s)
          BY <2>2, <5>1 DEF LockInv, Apart
        <5>3. PICK r \in db : key = Key(r)
          BY <4>2, KeysHold
        <5>4. r \in View(s)
          BY <4>2, <5>2, <5>3 DEF Written, View
        <5> QED
          BY <5>3, <5>4, KeysHold
      <4> QED
        BY <3>1, <3>3, <4>1, <4>2 DEF Claimed
    <3>4. ASSUME NEW r \in View(s), r.unique \cap session[t].claims # {}
          PROVE  Key(r) \in Written(t)'
      <4>1. CASE r \in session[s].own
        <5>1. r.unique \subseteq session[s].claims
          BY <4>1 DEF LockInv, Claimed
        <5>2. session[s].claims \cap session[t].claims = {}
          BY <2>2 DEF LockInv, Apart
        <5> QED
          BY <3>4, <5>1, <5>2
      <4>2. CASE r \in db
        <5>1. Key(r) \in Keys(session[t].own) \cup session[t].gone
          BY <3>1, <3>4, <4>2 DEF Claimed, Written
        <5>2. Key(r) \in Keys(db')
          BY <3>4, KeysHold
        <5> QED
          BY <1>1, <2>2, <5>1, <5>2 DEF Written
      <4> QED
        BY <4>1, <4>2 DEF View
    <3> QED
      BY <1>1, <2>2, <3>1, <3>2, <3>3, <3>4 DEF Claimed
  <2> QED
    BY <2>1, <2>2
<1>9. Distinct(db')
  BY ViewIsDistinct
<1> QED
  BY <1>7, <1>8, <1>9 DEF LockInv

-----------------------------------------------------------------------------
(***************************************************************************)
(* Lemmas about the statements of a call.                                  *)
(***************************************************************************)
LEMMA TailOf ==
  ASSUME NEW todo \in Seq(Instruction), todo # <<>>
  PROVE  /\ Tail(todo) \in Seq(Instruction)
         /\ Len(todo) \in Nat \ {0} /\ Len(Tail(todo)) = Len(todo) - 1
         /\ \A i \in 1..Len(Tail(todo)) : Tail(todo)[i] = todo[i + 1]
         /\ Head(todo) = todo[1] /\ Head(todo) \in Instruction
OBVIOUS

LEMMA EmptyOf ==
  ASSUME NEW q \in Seq(Instruction), Len(q) = 0
  PROVE  q = <<>>
<1>1. DOMAIN q = {} /\ q = [i \in {} |-> q[i]]
  OBVIOUS
<1> QED
  BY <1>1

LEMMA Joined ==
  ASSUME NEW more \in Seq(Instruction), NEW rest \in Seq(Instruction)
  PROVE  /\ more \o rest \in Seq(Instruction)
         /\ Len(more \o rest) = Len(more) + Len(rest)
         /\ \A i \in 1..Len(more) : (more \o rest)[i] = more[i]
         /\ \A i \in 1..Len(rest) : (more \o rest)[Len(more) + i] = rest[i]
         /\ \A i \in 1..Len(more \o rest) : i \notin 1..Len(more) =>
              /\ i - Len(more) \in 1..Len(rest)
              /\ (more \o rest)[i] = rest[i - Len(more)]
OBVIOUS

LEMMA PairJoined ==
  ASSUME NEW x \in Instruction, NEW y \in Instruction, NEW rest \in Seq(Instruction)
  PROVE  <<x>> \o (<<y>> \o rest) = <<x, y>> \o rest
<1> DEFINE q == <<y>> \o rest
           a == <<x>> \o q
           b == <<x, y>> \o rest
<1>1. /\ q \in Seq(Instruction) /\ Len(q) = Len(rest) + 1 /\ q[1] = y
      /\ \A i \in 1..Len(rest) : q[i + 1] = rest[i]
  OBVIOUS
<1>2. /\ b \in Seq(Instruction) /\ Len(b) = Len(rest) + 2 /\ b[1] = x /\ b[2] = y
      /\ \A i \in 1..Len(rest) : b[i + 2] = rest[i]
  OBVIOUS
<1> HIDE DEF q, b
<1>3. /\ a \in Seq(Instruction) /\ Len(a) = Len(q) + 1 /\ a[1] = x
      /\ \A i \in 1..Len(q) : a[i + 1] = q[i]
  BY <1>1
<1> HIDE DEF a
<1>4. Len(rest) \in Nat
  OBVIOUS
<1>5. ASSUME NEW i \in 1..Len(a)
      PROVE  a[i] = b[i]
  <2>1. CASE i = 1
    BY <1>2, <1>3, <2>1
  <2>2. CASE i = 2
    BY <1>1, <1>2, <1>3, <1>4, <2>2
  <2>3. CASE i # 1 /\ i # 2
    <3>1. i - 2 \in 1..Len(rest) /\ i - 1 \in 1..Len(q)
      BY <1>1, <1>3, <1>4, <2>3
    <3>2. a[(i - 1) + 1] = q[i - 1] /\ q[(i - 2) + 1] = rest[i - 2] /\ b[(i - 2) + 2] = rest[i - 2]
      BY <1>1, <1>2, <1>3, <3>1
    <3>3. (i - 1) + 1 = i /\ (i - 2) + 1 = i - 1 /\ (i - 2) + 2 = i
      OBVIOUS
    <3> QED
      BY <3>2, <3>3
  <2> QED
    BY <2>1, <2>2, <2>3
<1>6. Len(a) = Len(b)
  BY <1>1, <1>2, <1>3, <1>4
<1>7. a = b
  BY <1>2, <1>3, <1>5, <1>6
<1> QED
  BY <1>7 DEF a, b, q

\* What was pending still is, unless it was the first statement.
LEMMA StaysPending ==
  ASSUME NEW todo \in Seq(Instruction), todo # <<>>, NEW more \in Seq(Instruction),
         NEW do, NEW key, Pending(todo, do, key)
  PROVE  At(todo, 1, do, key) \/ Pending(more \o Tail(todo), do, key)
<1>1. PICK i \in 1..Len(todo) : At(todo, i, do, key)
  BY DEF Pending
<1>2. CASE i = 1
  BY <1>1, <1>2
<1>3. CASE i # 1
  <2> DEFINE rest == Tail(todo)
  <2>1. i - 1 \in 1..Len(rest) /\ rest[i - 1] = todo[i] /\ rest \in Seq(Instruction)
    BY <1>3, TailOf
  <2> HIDE DEF rest
  <2>2. /\ Len(more) + (i - 1) \in 1..Len(more \o rest)
        /\ (more \o rest)[Len(more) + (i - 1)] = todo[i]
    BY <2>1, Joined
  <2>3. Pending(more \o rest, do, key)
    BY <1>1, <2>2 DEF Pending, At
  <2> QED
    BY <2>3 DEF rest
<1> QED
  BY <1>2, <1>3

LEMMA StaysPendingRow ==
  ASSUME NEW todo \in Seq(Instruction), todo # <<>>, NEW more \in Seq(Instruction),
         NEW do, NEW row, PendingRow(todo, do, row)
  PROVE  todo[1] = Do(do, row) \/ PendingRow(more \o Tail(todo), do, row)
<1>1. PICK i \in 1..Len(todo) : todo[i] = Do(do, row)
  BY DEF PendingRow
<1>2. CASE i = 1
  BY <1>1, <1>2
<1>3. CASE i # 1
  <2> DEFINE rest == Tail(todo)
  <2>1. i - 1 \in 1..Len(rest) /\ rest[i - 1] = todo[i] /\ rest \in Seq(Instruction)
    BY <1>3, TailOf
  <2> HIDE DEF rest
  <2>2. /\ Len(more) + (i - 1) \in 1..Len(more \o rest)
        /\ (more \o rest)[Len(more) + (i - 1)] = todo[i]
    BY <2>1, Joined
  <2>3. PendingRow(more \o rest, do, row)
    BY <1>1, <2>2 DEF PendingRow
  <2> QED
    BY <2>3 DEF rest
<1> QED
  BY <1>2, <1>3

\* What is put before the others is pending.
LEMMA BecomesPending ==
  ASSUME NEW more \in Seq(Instruction), NEW rest \in Seq(Instruction),
         NEW i \in 1..Len(more)
  PROVE  /\ PendingRow(more \o rest, more[i].do, more[i].row)
         /\ Pending(more \o rest, more[i].do, Key(more[i].row))
<1>1. i \in 1..Len(more \o rest) /\ (more \o rest)[i] = more[i]
  BY Joined
<1>2. more[i] \in Instruction
  OBVIOUS
<1>3. more[i] = Do(more[i].do, more[i].row)
  BY <1>2 DEF Do, Instruction
<1> QED
  BY <1>1, <1>3 DEF Pending, PendingRow, At

LEMMA FirstIsPending ==
  ASSUME NEW x \in Instruction, NEW rest \in Seq(Instruction)
  PROVE  /\ PendingRow(<<x>> \o rest, x.do, x.row)
         /\ Pending(<<x>> \o rest, x.do, Key(x.row))
<1> DEFINE more == <<x>>
<1>1. more \in Seq(Instruction) /\ Len(more) = 1 /\ more[1] = x
  OBVIOUS
<1> HIDE DEF more
<1>2. 1 \in 1..Len(more)
  BY <1>1
<1>3. /\ PendingRow(more \o rest, x.do, x.row)
      /\ Pending(more \o rest, x.do, Key(x.row))
  BY <1>1, <1>2, BecomesPending
<1> QED
  BY <1>3 DEF more

LEMMA NothingPending ==
  /\ \A do, key : ~Pending(<<>>, do, key)
  /\ \A do, row : ~PendingRow(<<>>, do, row)
  /\ InOrder(<<>>)
  /\ \A kinds : Only(<<>>, kinds)
BY DEF Pending, PendingRow, InOrder, OneMood, LinksFollow, OwnerFollows, Targets, Only

\* The first statement tells the mood of a call.
LEMMA MoodOfHead ==
  ASSUME NEW todo \in Seq(Instruction), todo # <<>>, OneMood(todo)
  PROVE  /\ todo[1].do \in {"insert", "refer"} => Only(todo, {"insert", "refer"})
         /\ todo[1].do \in {"get", "update", "load"} => Only(todo, {"get", "update", "load"})
         /\ todo[1].do \in {"delete", "cascade"} => Only(todo, {"delete", "cascade"})
<1>1. 1 \in 1..Len(todo)
  OBVIOUS
<1> QED
  BY <1>1 DEF OneMood, Only

LEMMA OnlyTail ==
  ASSUME NEW todo \in Seq(Instruction), todo # <<>>, NEW kinds, Only(todo, kinds)
  PROVE  Only(Tail(todo), kinds)
BY TailOf DEF Only

LEMMA OnlyJoined ==
  ASSUME NEW more \in Seq(Instruction), NEW rest \in Seq(Instruction), NEW kinds,
         Only(more, kinds), Only(rest, kinds)
  PROVE  Only(more \o rest, kinds)
BY Joined DEF Only

\* A statement that is done leaves the others in order.
LEMMA TailInOrder ==
  ASSUME NEW todo \in Seq(Instruction), todo # <<>>, InOrder(todo)
  PROVE  InOrder(Tail(todo))
<1> DEFINE rest == Tail(todo)
<1>0. /\ rest \in Seq(Instruction) /\ Len(todo) \in Nat \ {0} /\ Len(rest) = Len(todo) - 1
      /\ \A i \in 1..Len(rest) : i + 1 \in 1..Len(todo) /\ rest[i] = todo[i + 1]
  BY TailOf
<1>a. \A kinds : Only(todo, kinds) => Only(rest, kinds)
  BY OnlyTail
<1> HIDE DEF rest
<1>1. OneMood(rest)
  BY <1>a DEF InOrder, OneMood
<1>2. ASSUME NEW i \in 1..Len(rest), rest[i].do = "insert",
             NEW n \in 1..Len(rest[i].row.named)
      PROVE  \E j \in (i+1)..Len(rest) :
               rest[j] = Do("insert", Link(rest[i].row, rest[i].row.named[n]))
  <2>1. i + 1 \in 1..Len(todo) /\ rest[i] = todo[i + 1]
    BY <1>0
  <2>2. PICK j \in ((i+1)+1)..Len(todo) :
          todo[j] = Do("insert", Link(rest[i].row, rest[i].row.named[n]))
    BY <1>2, <2>1 DEF InOrder, LinksFollow
  <2>3. j - 1 \in (i+1)..Len(rest) /\ j - 1 \in 1..Len(rest) /\ (j - 1) + 1 = j
    BY <1>0, <2>2
  <2>4. rest[j - 1] = todo[j]
    BY <1>0, <2>3
  <2> QED
    BY <2>2, <2>3, <2>4
<1>3. ASSUME NEW i \in 1..Len(rest), rest[i].do = "delete",
             rest[i].row.table \in {"relationship_evidence", "finding_evidence"},
             NEW key \in rest[i].row.owners
      PROVE  \E j \in (i+1)..Len(rest) : At(rest, j, "delete", key)
  <2>1. i + 1 \in 1..Len(todo) /\ rest[i] = todo[i + 1]
    BY <1>0
  <2>2. PICK j \in ((i+1)+1)..Len(todo) : At(todo, j, "delete", key)
    BY <1>3, <2>1 DEF InOrder, OwnerFollows
  <2>3. j - 1 \in (i+1)..Len(rest) /\ j - 1 \in 1..Len(rest) /\ (j - 1) + 1 = j
    BY <1>0, <2>2
  <2>4. rest[j - 1] = todo[j]
    BY <1>0, <2>3
  <2> QED
    BY <2>2, <2>3, <2>4 DEF At
<1>4. ASSUME NEW i \in 1..Len(rest)
      PROVE  /\ rest[i].do = "update" => rest[i].row.table = "entities"
             /\ rest[i].do = "load" =>
                  /\ i = Len(rest)
                  /\ rest[i].row.table \in {"entities", "relationships", "findings"}
             /\ rest[i].do \in {"delete", "cascade"} => rest[i].row.table # "evidence"
  <2>1. i + 1 \in 1..Len(todo) /\ rest[i] = todo[i + 1]
    BY <1>0
  <2> QED
    BY <1>0, <2>1 DEF InOrder, Targets
<1>5. LinksFollow(rest) /\ OwnerFollows(rest) /\ Targets(rest)
  BY <1>2, <1>3, <1>4 DEF LinksFollow, OwnerFollows, Targets
<1> QED
  BY <1>1, <1>5 DEF InOrder, rest

\* A statement that the others do not depend on may come first.
LEMMA ConsInOrder ==
  ASSUME NEW rest \in Seq(Instruction), InOrder(rest), NEW x \in Instruction,
         \/ x.do = "refer" /\ Only(rest, {"insert", "refer"})
         \/ x.do = "cascade" /\ Only(rest, {"delete", "cascade"}) /\ x.row.table # "evidence"
  PROVE  <<x>> \o rest \in Seq(Instruction) /\ InOrder(<<x>> \o rest)
<1> DEFINE q == <<x>> \o rest
<1>0. /\ q \in Seq(Instruction) /\ Len(rest) \in Nat /\ Len(q) = Len(rest) + 1 /\ q[1] = x
      /\ \A i \in 1..Len(rest) : q[i + 1] = rest[i]
      /\ \A i \in 1..Len(q) : i # 1 => i - 1 \in 1..Len(rest) /\ q[i] = rest[i - 1]
  OBVIOUS
<1> HIDE DEF q
<1>1. OneMood(q)
  BY <1>0 DEF OneMood, Only
<1>2. ASSUME NEW i \in 1..Len(q), q[i].do = "insert", NEW n \in 1..Len(q[i].row.named)
      PROVE  \E j \in (i+1)..Len(q) :
               q[j] = Do("insert", Link(q[i].row, q[i].row.named[n]))
  <2>1. i - 1 \in 1..Len(rest) /\ q[i] = rest[i - 1]
    BY <1>0, <1>2
  <2>2. PICK j \in ((i-1)+1)..Len(rest) :
          rest[j] = Do("insert", Link(q[i].row, q[i].row.named[n]))
    BY <1>2, <2>1 DEF InOrder, LinksFollow
  <2>3. j + 1 \in (i+1)..Len(q) /\ j \in 1..Len(rest)
    BY <1>0, <2>1, <2>2
  <2> QED
    BY <1>0, <2>2, <2>3
<1>3. ASSUME NEW i \in 1..Len(q), q[i].do = "delete",
             q[i].row.table \in {"relationship_evidence", "finding_evidence"},
             NEW key \in q[i].row.owners
      PROVE  \E j \in (i+1)..Len(q) : At(q, j, "delete", key)
  <2>1. i - 1 \in 1..Len(rest) /\ q[i] = rest[i - 1]
    BY <1>0, <1>3
  <2>2. PICK j \in ((i-1)+1)..Len(rest) : At(rest, j, "delete", key)
    BY <1>3, <2>1 DEF InOrder, OwnerFollows
  <2>3. j + 1 \in (i+1)..Len(q) /\ j \in 1..Len(rest)
    BY <1>0, <2>1, <2>2
  <2> QED
    BY <1>0, <2>2, <2>3 DEF At
<1>4. ASSUME NEW i \in 1..Len(q)
      PROVE  /\ q[i].do = "update" => q[i].row.table = "entities"
             /\ q[i].do = "load" =>
                  /\ i = Len(q)
                  /\ q[i].row.table \in {"entities", "relationships", "findings"}
             /\ q[i].do \in {"delete", "cascade"} => q[i].row.table # "evidence"
  <2>1. CASE i = 1
    BY <1>0, <2>1
  <2>2. CASE i # 1
    BY <1>0, <2>2 DEF InOrder, Targets
  <2> QED
    BY <2>1, <2>2
<1>5. LinksFollow(q) /\ OwnerFollows(q) /\ Targets(q)
  BY <1>2, <1>3, <1>4 DEF LinksFollow, OwnerFollows, Targets
<1> QED
  BY <1>0, <1>1, <1>5 DEF InOrder, q

LEMMA DoOfRow ==
  ASSUME NEW do \in Kinds, NEW row \in AnyRow
  PROVE  Do(do, row) \in Instruction /\ Do(do, row).do = do /\ Do(do, row).row = row
BY DEF Do, Instruction

\* A creation inserts the row, and then its links.
LEMMA CreationInOrder ==
  ASSUME NEW row \in Given,
         NEW q, q = Inserts(<<row>> \o [i \in 1..Len(row.named) |-> Link(row, row.named[i])])
  PROVE  q \in Seq(Instruction) /\ InOrder(q) /\ Only(q, {"insert", "refer"})
<1> DEFINE links == [i \in 1..Len(row.named) |-> Link(row, row.named[i])]
           n == Len(row.named)
           all == <<row>> \o links
<1>1. n \in Nat /\ row \in AnyRow
  <2>1. row.named \in Seq(ToSet(row.named))
    BY GivenAreWellFormed DEF WellFormed
  <2> QED
    BY <2>1 DEF AnyRow
<1>2. \A i \in 1..n : links[i] = Link(row, row.named[i]) /\ links[i] \in AnyRow
  BY <1>1, LinksAreRows
<1>a. links \in [1..n -> AnyRow]
  BY <1>2
<1> HIDE DEF links, n
<1>3. links \in Seq(AnyRow) /\ Len(links) = n
  BY <1>1, <1>a
<1>4. /\ all \in Seq(AnyRow) /\ Len(all) = n + 1 /\ all[1] = row
      /\ \A i \in 1..(n+1) : i # 1 => i - 1 \in 1..n /\ all[i] = links[i - 1]
  BY <1>1, <1>3
<1>5. q = Inserts(all)
  BY DEF links
<1> HIDE DEF all
<1>b. q = [i \in 1..(n+1) |-> Do("insert", all[i])]
  <2>1. q = [i \in 1..Len(all) |-> Do("insert", all[i])]
    BY <1>5 DEF Inserts
  <2> QED
    BY <1>4, <2>1
<1>6. \A i \in 1..(n+1) : q[i] = Do("insert", all[i]) /\ all[i] \in AnyRow
  <2>1. \A i \in 1..(n+1) : q[i] = Do("insert", all[i])
    BY <1>b
  <2>2. \A i \in 1..(n+1) : all[i] \in AnyRow
    BY <1>1, <1>4
  <2> QED
    BY <2>1, <2>2
<1>7. \A i \in 1..(n+1) : q[i] \in Instruction /\ q[i].do = "insert" /\ q[i].row = all[i]
  <2>1. "insert" \in Kinds
    BY DEF Kinds
  <2>2. ASSUME NEW i \in 1..(n+1)
        PROVE  q[i] \in Instruction /\ q[i].do = "insert" /\ q[i].row = all[i]
    BY <1>6, <2>1, DoOfRow
  <2> QED
    BY <2>2
<1>c. n + 1 \in Nat /\ q \in [1..(n+1) -> Instruction]
  BY <1>1, <1>7, <1>b
<1>8. q \in Seq(Instruction) /\ Len(q) = n + 1
  <2> DEFINE m == n + 1
  <2>1. m \in Nat /\ q \in [1..m -> Instruction]
    BY <1>c
  <2> HIDE DEF m
  <2>2. q \in Seq(Instruction) /\ Len(q) = m
    BY <2>1
  <2> QED
    BY <2>2 DEF m
<1>9. Only(q, {"insert", "refer"})
  BY <1>6, <1>7, <1>8 DEF Only
<1>10. ASSUME NEW i \in 1..Len(q), NEW m \in 1..Len(q[i].row.named)
       PROVE  \E j \in (i+1)..Len(q) :
                q[j] = Do("insert", Link(q[i].row, q[i].row.named[m]))
  <2>1. CASE i = 1
    <3>1. q[i].row = row
      BY <1>4, <1>6, <1>7, <1>8, <2>1
    <3>2. m \in 1..n
      BY <1>10, <3>1 DEF n
    <3>3. m + 1 \in 1..(n+1) /\ all[m + 1] = links[m] /\ m + 1 \in (i+1)..Len(q)
      BY <1>1, <1>4, <1>8, <2>1, <3>2
    <3>4. q[m + 1] = Do("insert", Link(row, row.named[m]))
      BY <1>2, <1>6, <3>2, <3>3
    <3> QED
      BY <3>1, <3>3, <3>4
  <2>2. CASE i # 1
    <3>1. i - 1 \in 1..n /\ q[i].row = Link(row, row.named[i - 1])
      BY <1>2, <1>4, <1>7, <1>8, <2>2
    <3>2. q[i].row.named = <<>>
      BY <3>1, LinksAreWellFormed DEF n
    <3> QED
      BY <1>10, <3>2
  <2> QED
    BY <2>1, <2>2
<1>11. LinksFollow(q)
  BY <1>10 DEF LinksFollow
<1>12. OneMood(q) /\ OwnerFollows(q) /\ Targets(q)
  BY <1>6, <1>7, <1>8, <1>9 DEF OneMood, OwnerFollows, Targets
<1> QED
  BY <1>8, <1>9, <1>11, <1>12 DEF InOrder

\* A call that changes or deletes reads first.
LEMMA ReadingInOrder ==
  ASSUME NEW row \in AnyRow, NEW do \in {"update", "load"},
         do = "update" => row.table = "entities",
         do = "load" => row.table \in {"entities", "relationships", "findings"},
         NEW q, q = <<Do("get", row), Do(do, row)>>
  PROVE  q \in Seq(Instruction) /\ InOrder(q) /\ Only(q, {"get", do})
<1>1. /\ Len(q) = 2 /\ q[1] = Do("get", row) /\ q[2] = Do(do, row)
      /\ \A i \in 1..Len(q) : i = 1 \/ i = 2
  OBVIOUS
<1>2. /\ Do("get", row) \in Instruction /\ Do(do, row) \in Instruction
      /\ q[1].do = "get" /\ q[2].do = do /\ q[1].row = row /\ q[2].row = row
  BY <1>1 DEF Do, Instruction, Kinds
<1>3. q \in Seq(Instruction)
  BY <1>2
<1>4. Only(q, {"get", do})
  BY <1>1, <1>2 DEF Only
<1>5. OneMood(q)
  BY <1>1, <1>2 DEF OneMood, Only
<1>6. LinksFollow(q) /\ OwnerFollows(q)
  BY <1>1, <1>2 DEF LinksFollow, OwnerFollows
<1>7. Targets(q)
  BY <1>1, <1>2 DEF Targets
<1> QED
  BY <1>3, <1>4, <1>5, <1>6, <1>7 DEF InOrder

LEMMA StatementsInOrder ==
  ASSUME NEW s \in Session, NEW call \in Calls[s]
  PROVE  /\ Statements(call) \in Seq(Instruction) /\ InOrder(Statements(call))
         /\ call.op = "delete" => Only(Statements(call), {"get", "load"})
         /\ Only(Statements(call), {"insert", "refer", "get", "update", "load"})
<1>1. call.row \in Given /\ call.row \in AnyRow
  BY DEF Given, AnyRow
<1>2. call.op \in {"create", "update", "delete", "add_evidence"}
  BY CallsAssumption
<1>3. CASE call.op \in {"create", "add_evidence"}
  <2>1. Statements(call) = Inserts(<<call.row>> \o
          [i \in 1..Len(call.row.named) |-> Link(call.row, call.row.named[i])])
    BY <1>3 DEF Statements
  <2> QED
    BY <1>1, <1>3, <2>1, CreationInOrder DEF Only
<1>4. CASE call.op = "update"
  <2>1. Statements(call) = <<Do("get", call.row), Do("update", call.row)>>
    BY <1>4 DEF Statements
  <2>2. call.row.table = "entities"
    BY <1>4, CallsAssumption
  <2> QED
    BY <1>1, <1>4, <2>1, <2>2, ReadingInOrder, ZenonT(40) DEF Only
<1>5. CASE call.op = "delete"
  <2>1. Statements(call) = <<Do("get", call.row), Do("load", call.row)>>
    BY <1>5 DEF Statements
  <2>2. call.row.table \in {"entities", "relationships", "findings"}
    BY <1>5, CallsAssumption
  <2> QED
    BY <1>1, <2>1, <2>2, ReadingInOrder DEF Only
<1> QED
  BY <1>2, <1>3, <1>4, <1>5

\* SetToSeq lists the elements of a finite set.
LEMMA ListOfSet ==
  ASSUME NEW S, IsFiniteSet(S)
  PROVE  /\ SetToSeq(S) \in Seq(S)
         /\ \A x \in S : \E i \in 1..Len(SetToSeq(S)) : SetToSeq(S)[i] = x
<1> DEFINE n == Cardinality(S)
           Lists == {f \in [1..n -> S] : IsInjective(f)}
<1>1. n \in Nat /\ ExistsBijection(1..n, S)
  BY FS_CardinalityType
<1>2. PICK g : g \in Bijection(1..n, S)
  BY <1>1 DEF ExistsBijection
<1>3. g \in [1..n -> S] /\ IsInjective(g)
  BY <1>2 DEF Bijection, Injection, IsInjective
<1> DEFINE f == SetToSeq(S)
<1>4. f \in [1..n -> S] /\ IsInjective(f)
  BY <1>3 DEF SetToSeq
<1> HIDE DEF f
<1>5. f \in Injection(1..n, S)
  BY <1>4 DEF Injection, IsInjective
<1>6. IsFiniteSet(1..n) /\ Cardinality(1..n) = n
  BY <1>1, FS_Interval
<1>7. f \in Surjection(1..n, S)
  BY <1>5, <1>6, FS_Injection
<1>8. \A x \in S : \E i \in 1..n : f[i] = x
  BY <1>7 DEF Surjection
<1>9. f \in Seq(S) /\ Len(f) = n
  BY <1>1, <1>4
<1> QED
  BY <1>8, <1>9 DEF f

LEMMA DeletesAll ==
  ASSUME NEW stored \in SUBSET AnyRow, IsFiniteSet(stored)
  PROVE  /\ Deletes(stored) \in Seq(Instruction)
         /\ \A i \in 1..Len(Deletes(stored)) :
              Deletes(stored)[i].do = "delete" /\ Deletes(stored)[i].row \in stored
         /\ \A r \in stored : \E i \in 1..Len(Deletes(stored)) :
              Deletes(stored)[i] = Do("delete", r)
<1> DEFINE order == SetToSeq(stored)
<1>1. /\ order \in Seq(stored)
      /\ \A r \in stored : \E i \in 1..Len(order) : order[i] = r
  BY ListOfSet
<1>2. Deletes(stored) = [i \in 1..Len(order) |-> Do("delete", order[i])]
  BY DEF Deletes
<1> HIDE DEF order
<1>3. Len(order) \in Nat /\ \A i \in 1..Len(order) : order[i] \in stored
  BY <1>1
<1>4. \A i \in 1..Len(order) : /\ Do("delete", order[i]) \in Instruction
                               /\ Do("delete", order[i]).do = "delete"
                               /\ Do("delete", order[i]).row = order[i]
  BY <1>3 DEF Do, Instruction, Kinds
<1>5. Deletes(stored) \in Seq(Instruction) /\ Len(Deletes(stored)) = Len(order)
  BY <1>2, <1>3, <1>4
<1>6. \A i \in 1..Len(order) : Deletes(stored)[i] = Do("delete", order[i])
  BY <1>2
<1> QED
  BY <1>1, <1>3, <1>4, <1>5, <1>6

\* A deletion deletes the links of the children, then the children, some of
\* which are links of the row, then the row.
LEMMA DeletionInOrder ==
  ASSUME NEW stored \in SUBSET AnyRow, IsFiniteSet(stored),
         NEW row \in AnyRow, row.table \in {"entities", "relationships", "findings"},
         NEW children, children = {r \in stored : Key(row) \in r.owners},
         NEW links, links \subseteq stored,
         \A r \in links : \E c \in children : Key(c) \in r.owners,
         NEW q, q = Deletes(links) \o Deletes(children) \o <<Do("delete", row)>>
  PROVE  q \in Seq(Instruction) /\ InOrder(q) /\ Only(q, {"delete"})
<1> DEFINE D1 == Deletes(links)
           D2 == Deletes(children)
           last == <<Do("delete", row)>>
           n1 == Len(D1)
           n2 == Len(D2)
<1>1. /\ links \in SUBSET AnyRow /\ IsFiniteSet(links)
      /\ children \in SUBSET AnyRow /\ IsFiniteSet(children)
  BY FS_Subset
<1>2. /\ D1 \in Seq(Instruction)
      /\ \A i \in 1..Len(D1) : D1[i].do = "delete" /\ D1[i].row \in links
  BY <1>1, DeletesAll
<1>3. /\ D2 \in Seq(Instruction)
      /\ \A i \in 1..Len(D2) : D2[i].do = "delete" /\ D2[i].row \in children
      /\ \A r \in children : \E i \in 1..Len(D2) : D2[i] = Do("delete", r)
  BY <1>1, DeletesAll
<1>4. /\ Do("delete", row) \in Instruction
      /\ Do("delete", row).do = "delete" /\ Do("delete", row).row = row
  BY DoOfRow DEF Kinds
<1>5. last \in Seq(Instruction) /\ Len(last) = 1 /\ last[1] = Do("delete", row)
  BY <1>4
<1>6. q = D1 \o D2 \o last
  OBVIOUS
<1> HIDE DEF D1, D2, last
<1>7. /\ D1 \o D2 \in Seq(Instruction) /\ Len(D1 \o D2) = n1 + n2
      /\ \A i \in 1..n1 : (D1 \o D2)[i] = D1[i]
      /\ \A i \in 1..n2 : (D1 \o D2)[n1 + i] = D2[i]
  BY <1>2, <1>3, Joined
<1>8. /\ q \in Seq(Instruction) /\ Len(q) = n1 + n2 + 1
      /\ \A i \in 1..(n1 + n2) : q[i] = (D1 \o D2)[i]
      /\ q[n1 + n2 + 1] = Do("delete", row)
  <2> DEFINE pre == D1 \o D2
  <2>1. pre \in Seq(Instruction) /\ Len(pre) = n1 + n2
    BY <1>7
  <2>2. q = pre \o last
    BY <1>6
  <2> HIDE DEF pre
  <2>3. /\ pre \o last \in Seq(Instruction) /\ Len(pre \o last) = Len(pre) + Len(last)
        /\ \A i \in 1..Len(pre) : (pre \o last)[i] = pre[i]
        /\ \A i \in 1..Len(last) : (pre \o last)[Len(pre) + i] = last[i]
    BY <1>5, <2>1, Joined
  <2>4. (pre \o last)[Len(pre) + 1] = last[1]
    BY <1>5, <2>3
  <2>5. /\ q \in Seq(Instruction) /\ Len(q) = Len(pre) + 1
        /\ \A i \in 1..Len(pre) : q[i] = pre[i]
        /\ q[Len(pre) + 1] = last[1]
    BY <1>5, <2>2, <2>3, <2>4
  <2> QED
    BY <1>5, <2>1, <2>5 DEF pre
<1>9. n1 \in Nat /\ n2 \in Nat
  BY <1>2, <1>3
<1> HIDE DEF n1, n2
<1>10. /\ \A i \in 1..n1 : q[i] = D1[i]
       /\ \A i \in 1..n2 : q[n1 + i] = D2[i]
  <2>1. ASSUME NEW i \in 1..n1
        PROVE  q[i] = D1[i]
    <3>1. i \in 1..(n1 + n2)
      BY <1>9
    <3> QED
      BY <1>7, <1>8, <3>1
  <2>2. ASSUME NEW i \in 1..n2
        PROVE  q[n1 + i] = D2[i]
    <3>1. n1 + i \in 1..(n1 + n2)
      BY <1>9
    <3> QED
      BY <1>7, <1>8, <3>1
  <2> QED
    BY <2>1, <2>2
<1>11. \A i \in 1..Len(q) : i \in 1..n1 \/ (i - n1 \in 1..n2 /\ i = n1 + (i - n1))
                            \/ i = n1 + n2 + 1
  BY <1>8, <1>9
<1>12. ASSUME NEW i \in 1..Len(q)
       PROVE  /\ q[i].do = "delete" /\ q[i].row \in AnyRow
              /\ q[i].row \in links \cup children \cup {row}
  <2>1. CASE i \in 1..n1
    BY <1>1, <1>2, <1>10, <2>1 DEF n1
  <2>2. CASE i - n1 \in 1..n2 /\ i = n1 + (i - n1)
    <3>1. PICK j \in 1..n2 : j = i - n1 /\ q[i] = q[n1 + j]
      BY <2>2
    <3>2. q[i] = D2[j]
      BY <1>10, <3>1
    <3> QED
      BY <1>1, <1>3, <3>1, <3>2 DEF n2
  <2>3. CASE i = n1 + n2 + 1
    BY <1>4, <1>8, <2>3
  <2> QED
    BY <1>11, <2>1, <2>2, <2>3
<1>13. Only(q, {"delete"})
  BY <1>12 DEF Only
<1>14. ASSUME NEW i \in 1..Len(q),
              q[i].row.table \in {"relationship_evidence", "finding_evidence"},
              NEW key \in q[i].row.owners
       PROVE  \E j \in (i+1)..Len(q) : At(q, j, "delete", key)
  <2> DEFINE c == q[i].row
  <2>1. c.owners = {key}
    <3>1. WellFormed(c)
      BY <1>12, RowsAreWellFormed
    <3> QED
      BY <1>14, <3>1 DEF WellFormed
  <2>2. CASE i \in 1..n1
    <3>1. c \in links
      BY <1>2, <1>10, <2>2 DEF n1
    <3>2. PICK h \in children : Key(h) = key
      BY <2>1, <3>1
    <3>3. PICK m \in 1..n2 : D2[m] = Do("delete", h)
      BY <1>3, <3>2 DEF n2
    <3>4. n1 + m \in (i+1)..Len(q)
      BY <1>8, <1>9, <2>2
    <3>5. q[n1 + m] = Do("delete", h)
      BY <1>10, <3>3
    <3>6. Do("delete", h).do = "delete" /\ Do("delete", h).row = h
      BY <1>1, DoOfRow DEF Kinds
    <3> QED
      BY <3>2, <3>4, <3>5, <3>6 DEF At
  <2>3. CASE i - n1 \in 1..n2 /\ i = n1 + (i - n1)
    <3>1. c \in children
      <4>1. PICK j \in 1..n2 : j = i - n1 /\ q[i] = q[n1 + j]
        BY <2>3
      <4>2. q[i] = D2[j]
        BY <1>10, <4>1
      <4> QED
        BY <1>3, <4>1, <4>2 DEF n2
    <3>2. Key(row) = key
      BY <2>1, <3>1
    <3>3. n1 + n2 + 1 \in (i+1)..Len(q)
      BY <1>8, <1>9, <2>3
    <3> QED
      BY <1>4, <1>8, <3>2, <3>3 DEF At
  <2>4. CASE i = n1 + n2 + 1
    BY <1>4, <1>8, <1>14, <2>4
  <2> QED
    BY <1>11, <2>2, <2>3, <2>4
<1>15. \A i \in 1..Len(q) : q[i].row.table # "evidence"
  <2>1. \A r \in links \cup children : r.owners # {}
    OBVIOUS
  <2> QED
    BY <1>1, <1>12, <2>1, EvidenceIsOwned
<1>16. OneMood(q) /\ LinksFollow(q) /\ OwnerFollows(q) /\ Targets(q)
  BY <1>12, <1>14, <1>15, ZenonT(40) DEF OneMood, Only, LinksFollow, OwnerFollows, Targets
<1> QED
  BY <1>8, <1>13, <1>16 DEF InOrder

-----------------------------------------------------------------------------
(***************************************************************************)
(* What the steps of a call change.                                        *)
(***************************************************************************)
LEMMA SetSessionEffect ==
  ASSUME TypeInv, NEW s \in Session, NEW new \in SessionType, IsFiniteSet(new.own),
         SetSession(s, new)
  PROVE  TypeInv' /\ OthersStay(s) /\ db' = db /\ session'[s] = new
<1>1. /\ db' = db /\ session'[s] = new /\ session' \in [Session -> SessionType]
      /\ \A t \in Session : t # s => session'[t] = session[t]
  BY DEF TypeInv, SetSession
<1>2. \A t \in Session : IsFiniteSet(session'[t].own)
  BY <1>1 DEF TypeInv
<1> QED
  BY <1>1, <1>2 DEF TypeInv, OthersStay

\* The types of what a transaction holds.
HeldType(own, gone, claims, shared) ==
  /\ own \in SUBSET AnyRow /\ IsFiniteSet(own)
  /\ gone \in SUBSET AnyKey /\ claims \in SUBSET AnyValue /\ shared \in SUBSET AnyKey

Held(x) == HeldType(x.own, x.gone, x.claims, x.shared)

LEMMA SessionIsHeld ==
  ASSUME TypeInv, NEW s \in Session
  PROVE  /\ Held(session[s]) /\ session[s] \in SessionType
         /\ session[s].todo \in Seq(Instruction)
         /\ View(s) \in SUBSET AnyRow /\ IsFiniteSet(View(s))
<1>1. session[s] \in SessionType /\ IsFiniteSet(session[s].own) /\ IsFiniteSet(db)
  BY DEF TypeInv
<1>2. Held(session[s]) /\ session[s].todo \in Seq(Instruction)
  BY <1>1 DEF Held, HeldType, SessionType
<1>3. View(s) \in SUBSET (db \cup session[s].own)
  BY DEF View
<1>4. IsFiniteSet(db \cup session[s].own)
  BY <1>1, FS_Union
<1>5. IsFiniteSet(View(s))
  BY <1>3, <1>4, FS_Subset
<1>6. db \in SUBSET AnyRow /\ session[s].own \in SUBSET AnyRow
  BY <1>1 DEF TypeInv, SessionType
<1> QED
  BY <1>1, <1>2, <1>3, <1>5, <1>6

\* The session as it is but for what it holds.
Holding(s, own, gone, claims, shared) ==
  [session[s] EXCEPT !.own = own, !.gone = gone, !.claims = claims, !.shared = shared]

LEMMA ContinueEffect ==
  ASSUME TypeInv, NEW s \in Session, session[s].todo # <<>>,
         NEW own, NEW gone, NEW claims, NEW shared, HeldType(own, gone, claims, shared),
         NEW more \in Seq(Instruction),
         Continue(s, Holding(s, own, gone, claims, shared), more)
  PROVE  /\ TypeInv' /\ OthersStay(s) /\ db' = db
         /\ session'[s].own = own /\ session'[s].gone = gone
         /\ session'[s].claims = claims /\ session'[s].shared = shared
         /\ session'[s].error = session[s].error
         /\ session'[s].todo = more \o Tail(session[s].todo)
         /\ session'[s].call \in {session[s].call, NoCall}
<1> DEFINE todo == more \o Tail(session[s].todo)
           new == [Holding(s, own, gone, claims, shared) EXCEPT !.todo = todo, !.call = IF todo = <<>> THEN NoCall ELSE @]
<1>1. session[s] \in SessionType /\ session[s].todo \in Seq(Instruction)
  BY SessionIsHeld
<1>2. todo \in Seq(Instruction)
  BY <1>1, TailOf
<1>3. SetSession(s, new)
  BY DEF Continue, Remaining
<1> HIDE DEF todo
<1>4. /\ new.own = own /\ new.gone = gone /\ new.claims = claims /\ new.shared = shared
      /\ new.error = session[s].error /\ new.todo = todo
      /\ new.call \in {session[s].call, NoCall}
  BY <1>1 DEF SessionType, Holding
<1>5. NoCall \in AnyCall
  BY DEF AnyCall
<1>6. new \in SessionType
  BY <1>1, <1>2, <1>5 DEF SessionType, HeldType, Holding
<1> HIDE DEF new
<1>7. TypeInv' /\ OthersStay(s) /\ db' = db /\ session'[s] = new
  BY <1>3, <1>4, <1>6, SetSessionEffect DEF HeldType
<1> QED
  BY <1>4, <1>7 DEF todo

LEMMA ContinueAsBefore ==
  ASSUME TypeInv, NEW s \in Session, session[s].todo # <<>>,
         NEW more \in Seq(Instruction), Continue(s, session[s], more)
  PROVE  /\ TypeInv' /\ OthersStay(s) /\ db' = db /\ HoldsAsBefore(s)
         /\ session'[s].error = session[s].error
         /\ session'[s].todo = more \o Tail(session[s].todo)
         /\ session'[s].call \in {session[s].call, NoCall}
<1>1. session[s] \in SessionType
  BY SessionIsHeld
<1>2. PICK own, gone, claims, shared :
        /\ own = session[s].own /\ gone = session[s].gone
        /\ claims = session[s].claims /\ shared = session[s].shared
  OBVIOUS
<1>3. Holding(s, own, gone, claims, shared) = session[s]
  BY <1>1, <1>2 DEF SessionType, Holding
<1>4. HeldType(own, gone, claims, shared)
  BY <1>2, SessionIsHeld DEF Held
<1>5. Continue(s, Holding(s, own, gone, claims, shared), more)
  BY <1>3
<1>6. /\ TypeInv' /\ OthersStay(s) /\ db' = db
      /\ session'[s].own = own /\ session'[s].gone = gone
      /\ session'[s].claims = claims /\ session'[s].shared = shared
      /\ session'[s].error = session[s].error
      /\ session'[s].todo = more \o Tail(session[s].todo)
      /\ session'[s].call \in {session[s].call, NoCall}
  BY <1>4, <1>5, ContinueEffect
<1> QED
  BY <1>2, <1>6 DEF HoldsAsBefore

\* The call is over, with nothing done.
LEMMA NoneRemaining ==
  ASSUME TypeInv, NEW s \in Session, Remaining(s, session[s], <<>>)
  PROVE  /\ TypeInv' /\ OthersStay(s) /\ db' = db /\ HoldsAsBefore(s)
         /\ session'[s].error = session[s].error
         /\ session'[s].todo = <<>> /\ session'[s].call = NoCall
<1> DEFINE new == [session[s] EXCEPT !.todo = <<>>, !.call = NoCall]
<1>1. session[s] \in SessionType /\ IsFiniteSet(session[s].own)
  BY DEF TypeInv
<1>2. SetSession(s, new)
  BY DEF Remaining
<1>3. NoCall \in AnyCall /\ <<>> \in Seq(Instruction)
  BY DEF AnyCall
<1>4. new \in SessionType /\ new.own = session[s].own
  BY <1>1, <1>3 DEF SessionType
<1>5. /\ new.own = session[s].own /\ new.gone = session[s].gone
      /\ new.claims = session[s].claims /\ new.shared = session[s].shared
      /\ new.error = session[s].error /\ new.todo = <<>> /\ new.call = NoCall
  BY <1>1 DEF SessionType
<1> HIDE DEF new
<1>6. TypeInv' /\ OthersStay(s) /\ db' = db /\ session'[s] = new
  BY <1>1, <1>2, <1>4, SetSessionEffect
<1> QED
  BY <1>5, <1>6 DEF HoldsAsBefore

LEMMA FailEffect ==
  ASSUME TypeInv, NEW s \in Session, NEW error \in Errors, Fail(s, error)
  PROVE  /\ TypeInv' /\ OthersStay(s) /\ db' = db /\ HoldsNothing(s)
         /\ session'[s].error = error
         /\ session'[s].todo = <<>> /\ session'[s].call = session[s].call
<1> DEFINE new == [session[s] EXCEPT !.todo = <<>>, !.error = error, !.own = {},
                                     !.gone = {}, !.claims = {}, !.shared = {}]
<1>1. session[s] \in SessionType
  BY DEF TypeInv
<1>2. SetSession(s, new)
  BY DEF Fail
<1>3. <<>> \in Seq(Instruction) /\ IsFiniteSet({})
  BY FS_EmptySet
<1>4. new \in SessionType
  BY <1>1, <1>3 DEF SessionType
<1>5. /\ new.own = {} /\ new.gone = {} /\ new.claims = {} /\ new.shared = {}
      /\ new.error = error /\ new.todo = <<>> /\ new.call = session[s].call
  BY <1>1 DEF SessionType
<1> HIDE DEF new
<1>6. TypeInv' /\ OthersStay(s) /\ db' = db /\ session'[s] = new
  BY <1>2, <1>3, <1>4, <1>5, SetSessionEffect
<1> QED
  BY <1>5, <1>6 DEF HoldsNothing

LEMMA GiveUpEffect ==
  ASSUME TypeInv, NEW s \in Session, NEW error \in Errors, GiveUp(s, error)
  PROVE  /\ TypeInv' /\ OthersStay(s) /\ db' = db /\ HoldsAsBefore(s)
         /\ session'[s].error = error
         /\ session'[s].todo = <<>> /\ session'[s].call = session[s].call
<1> DEFINE new == [session[s] EXCEPT !.todo = <<>>, !.error = error]
<1>1. session[s] \in SessionType /\ IsFiniteSet(session[s].own)
  BY DEF TypeInv
<1>2. SetSession(s, new)
  BY DEF GiveUp
<1>3. <<>> \in Seq(Instruction)
  OBVIOUS
<1>4. new \in SessionType
  BY <1>1, <1>3 DEF SessionType
<1>5. /\ new.own = session[s].own /\ new.gone = session[s].gone
      /\ new.claims = session[s].claims /\ new.shared = session[s].shared
      /\ new.error = error /\ new.todo = <<>> /\ new.call = session[s].call
  BY <1>1 DEF SessionType
<1> HIDE DEF new
<1>6. TypeInv' /\ OthersStay(s) /\ db' = db /\ session'[s] = new
  BY <1>1, <1>2, <1>4, <1>5, SetSessionEffect
<1> QED
  BY <1>5, <1>6 DEF HoldsAsBefore

LEMMA EndedEffect ==
  ASSUME TypeInv, NEW s \in Session, NEW stored \in SUBSET AnyRow, IsFiniteSet(stored),
         db' = stored, session' = [session EXCEPT ![s] = Ended(s)]
  PROVE  /\ TypeInv' /\ OthersStay(s) /\ HoldsNothing(s)
         /\ session'[s].error = "none"
         /\ session'[s].todo = <<>> /\ session'[s].call = NoCall
<1> DEFINE new == Ended(s)
<1>1. session[s] \in SessionType /\ session[s].calls \in Nat
  BY DEF TypeInv, SessionType
<1>2. <<>> \in Seq(Instruction) /\ IsFiniteSet({}) /\ NoCall \in AnyCall /\ "none" \in Errors
  BY FS_EmptySet DEF AnyCall, Errors
<1>3. new = [own |-> {}, gone |-> {}, claims |-> {}, shared |-> {}, todo |-> <<>>,
             call |-> NoCall, error |-> "none", calls |-> session[s].calls]
  BY DEF Ended, NewSession
<1>4. new \in SessionType
  BY <1>1, <1>2, <1>3 DEF SessionType
<1>5. /\ new.own = {} /\ new.gone = {} /\ new.claims = {} /\ new.shared = {}
      /\ new.error = "none" /\ new.todo = <<>> /\ new.call = NoCall
  BY <1>3
<1> HIDE DEF new
<1>6. /\ session' \in [Session -> SessionType] /\ session'[s] = new
      /\ \A t \in Session : t # s => session'[t] = session[t]
  BY <1>4 DEF TypeInv, new
<1>7. \A t \in Session : IsFiniteSet(session'[t].own)
  BY <1>2, <1>5, <1>6 DEF TypeInv
<1>8. TypeInv'
  BY <1>6, <1>7 DEF TypeInv
<1> QED
  BY <1>5, <1>6, <1>8 DEF HoldsNothing, OthersStay

-----------------------------------------------------------------------------
(***************************************************************************)
(* Lemmas about what remains to be done, statement by statement.           *)
(***************************************************************************)
\* What was complete, but for what remained, still is.
Keeping(stored, todo, next, new) ==
  /\ RefsAreThere(stored, todo) => RefsAreThere(next, new)
  /\ LinksAreThere(stored, todo) => LinksAreThere(next, new)
  /\ \A shared : RefsAreLocked(stored, shared, todo) => RefsAreLocked(next, shared, new)

LEMMA InsertKeepsRows ==
  ASSUME NEW todo \in Seq(Instruction), todo # <<>>, InOrder(todo),
         NEW row \in AnyRow, todo[1] = Do("insert", row),
         NEW new, new = <<Do("refer", row)>> \o Tail(todo),
         NEW stored
  PROVE  Keeping(stored, todo, stored \cup {row}, new)
<1>1. /\ Do("refer", row) \in Instruction
      /\ Do("refer", row).do = "refer" /\ Do("refer", row).row = row
      /\ Do("insert", row).do = "insert" /\ Do("insert", row).row = row
  BY DoOfRow DEF Kinds
<1>2. <<Do("refer", row)>> \in Seq(Instruction) /\ Tail(todo) \in Seq(Instruction)
  BY <1>1, TailOf
<1>3. PendingRow(new, "refer", row)
  BY <1>1, <1>2, FirstIsPending
<1>4. \A do, key : do # "insert" => (Pending(todo, do, key) => Pending(new, do, key))
  BY <1>1, <1>2, StaysPending DEF At
<1>5. \A do, q : PendingRow(todo, do, q) => PendingRow(new, do, q) \/ (do = "insert" /\ q = row)
  <2> SUFFICES ASSUME NEW do, NEW q, PendingRow(todo, do, q), ~PendingRow(new, do, q)
               PROVE  do = "insert" /\ q = row
    OBVIOUS
  <2>1. todo[1] = Do(do, q)
    BY <1>2, StaysPendingRow
  <2> QED
    BY <2>1 DEF Do
<1>6. \A n \in 1..Len(row.named) : PendingRow(new, "insert", Link(row, row.named[n]))
  <2> SUFFICES ASSUME NEW n \in 1..Len(row.named)
               PROVE  PendingRow(new, "insert", Link(row, row.named[n]))
    OBVIOUS
  <2>1. 1 \in 1..Len(todo)
    OBVIOUS
  <2>2. PICK j \in (1+1)..Len(todo) : todo[j] = Do("insert", Link(row, row.named[n]))
    BY <1>1, <2>1 DEF InOrder, LinksFollow
  <2>3. j - 1 \in 1..Len(Tail(todo)) /\ Tail(todo)[j - 1] = todo[j]
    BY <2>2, TailOf
  <2>4. Len(<<Do("refer", row)>>) = 1
    OBVIOUS
  <2>5. j \in 1..Len(new) /\ new[1 + (j - 1)] = Tail(todo)[j - 1] /\ 1 + (j - 1) = j
    BY <1>2, <2>2, <2>3, <2>4, Joined
  <2> QED
    BY <2>2, <2>3, <2>5 DEF PendingRow
<1>7. Keys(stored) \subseteq Keys(stored \cup {row})
  BY DEF Keys
<1>8. RefsAreThere(stored, todo) => RefsAreThere(stored \cup {row}, new)
  BY <1>3, <1>4, <1>5, <1>7 DEF RefsAreThere
<1>9. LinksAreThere(stored, todo) => LinksAreThere(stored \cup {row}, new)
  BY <1>4, <1>5, <1>6 DEF LinksAreThere
<1>10. \A shared : RefsAreLocked(stored, shared, todo) =>
                     RefsAreLocked(stored \cup {row}, shared, new)
  BY <1>3, <1>5 DEF RefsAreLocked
<1> QED
  BY <1>8, <1>9, <1>10 DEF Keeping

\* The reference of the row is checked and locked.
LEMMA ReferKeepsRows ==
  ASSUME NEW todo \in Seq(Instruction), todo # <<>>,
         NEW row \in AnyRow, todo[1] = Do("refer", row), NEW stored
  PROVE  /\ RefsAreThere(stored, todo) /\ Refs(row) \subseteq Keys(stored) =>
              RefsAreThere(stored, Tail(todo))
         /\ LinksAreThere(stored, todo) => LinksAreThere(stored, Tail(todo))
         /\ \A shared : RefsAreLocked(stored, shared, todo) =>
                          RefsAreLocked(stored, shared \cup Refs(row), Tail(todo))
<1>1. Do("refer", row).do = "refer" /\ Do("refer", row).row = row
  BY DoOfRow DEF Kinds
<1>2. <<>> \in Seq(Instruction) /\ Tail(todo) = <<>> \o Tail(todo)
  BY TailOf
<1>3. \A do, key : do # "refer" => (Pending(todo, do, key) => Pending(Tail(todo), do, key))
  BY <1>1, <1>2, StaysPending DEF At
<1>4. \A do, q : PendingRow(todo, do, q) => PendingRow(Tail(todo), do, q)
                                            \/ (do = "refer" /\ q = row)
  <2> SUFFICES ASSUME NEW do, NEW q, PendingRow(todo, do, q), ~PendingRow(Tail(todo), do, q)
               PROVE  do = "refer" /\ q = row
    OBVIOUS
  <2>1. todo[1] = Do(do, q)
    BY <1>2, StaysPendingRow
  <2> QED
    BY <2>1 DEF Do
<1>5. RefsAreThere(stored, todo) /\ Refs(row) \subseteq Keys(stored) =>
        RefsAreThere(stored, Tail(todo))
  BY <1>3, <1>4 DEF RefsAreThere
<1>6. LinksAreThere(stored, todo) => LinksAreThere(stored, Tail(todo))
  BY <1>3, <1>4 DEF LinksAreThere
<1>7. \A shared : RefsAreLocked(stored, shared, todo) =>
                    RefsAreLocked(stored, shared \cup Refs(row), Tail(todo))
  BY <1>4 DEF RefsAreLocked
<1> QED
  BY <1>5, <1>6, <1>7

\* A call that has only read, and an empty one, leave nothing pending.
LEMMA ReadingIsPending ==
  ASSUME NEW todo, Only(todo, {"get", "update", "load"}), NEW stored
  PROVE  \A new :
           /\ RefsAreThere(stored, todo) => RefsAreThere(stored, new)
           /\ LinksAreThere(stored, todo) => LinksAreThere(stored, new)
           /\ \A shared : RefsAreLocked(stored, shared, todo) => RefsAreLocked(stored, shared, new)
<1>1. \A key : ~Pending(todo, "cascade", key) /\ ~Pending(todo, "delete", key)
  BY DEF Pending, At, Only
<1>2. \A r : ~PendingRow(todo, "refer", r) /\ ~PendingRow(todo, "insert", r)
  BY DEF PendingRow, Do, Only
<1>3. \A new : RefsAreThere(stored, todo) => RefsAreThere(stored, new)
  BY <1>1, <1>2 DEF RefsAreThere
<1>4. \A new : LinksAreThere(stored, todo) => LinksAreThere(stored, new)
  BY <1>1, <1>2 DEF LinksAreThere
<1>5. \A new, shared : RefsAreLocked(stored, shared, todo) => RefsAreLocked(stored, shared, new)
  BY <1>1, <1>2 DEF RefsAreLocked
<1> QED
  BY <1>3, <1>4, <1>5

\* An entity takes the place of the one with its key.
LEMMA UpdateKeepsRows ==
  ASSUME NEW todo, Only(todo, {"get", "update", "load"}), NEW new,
         NEW row \in AnyRow, row.table = "entities", NEW old, Key(old) = Key(row),
         NEW stored, NEW next, next = (stored \ {old}) \cup {row}
  PROVE  Keeping(stored, todo, next, new)
<1>1. \A key : ~Pending(todo, "cascade", key) /\ ~Pending(todo, "delete", key)
  BY DEF Pending, At, Only
<1>2. \A r : ~PendingRow(todo, "refer", r) /\ ~PendingRow(todo, "insert", r)
  BY DEF PendingRow, Do, Only
<1>3. Refs(row) = {} /\ Len(row.named) = 0
  BY EntitiesStandAlone
<1>4. Keys(stored) \subseteq Keys(next)
  BY DEF Keys
<1>5. \A r, v : Link(r, v) # old
  <2> SUFFICES ASSUME NEW r, NEW v, Link(r, v) = old
               PROVE  FALSE
    OBVIOUS
  <2>1. Link(r, v).table = LinkTable(r)
    BY DEF Link, Row
  <2>2. Key(old)[1] = LinkTable(r) /\ Key(row)[1] = "entities"
    BY <2>1 DEF Key
  <2> QED
    BY <2>2 DEF LinkTable
<1>6. RefsAreThere(stored, todo) => RefsAreThere(next, new)
  BY <1>1, <1>2, <1>3, <1>4 DEF RefsAreThere
<1>7. LinksAreThere(stored, todo) => LinksAreThere(next, new)
  BY <1>1, <1>2, <1>3, <1>5 DEF LinksAreThere
<1>8. \A shared : RefsAreLocked(stored, shared, todo) => RefsAreLocked(next, shared, new)
  BY <1>2, <1>3 DEF RefsAreLocked
<1> QED
  BY <1>6, <1>7, <1>8 DEF Keeping

Lacking(stored, key) == {r \in stored : Key(r) # key}

LEMMA KeysLacking ==
  ASSUME NEW stored, NEW key
  PROVE  Keys(Lacking(stored, key)) = Keys(stored) \ {key}
BY DEF Keys, Lacking

\* The row with a key is deleted, and the action of the foreign keys to it
\* is pending; a link is deleted only if its row has gone or is to go.
LEMMA RemoveKeepsRows ==
  ASSUME NEW todo, NEW new, NEW key, NEW stored \in SUBSET AnyRow,
         Pending(new, "cascade", key),
         \A k : Pending(todo, "cascade", k) => Pending(new, "cascade", k),
         \A k : Pending(todo, "delete", k) => k = key \/ Pending(new, "delete", k),
         \A do, r : PendingRow(todo, do, r) => do \in {"delete", "cascade"} \/ PendingRow(new, do, r),
         \A r \in AnyRow : \A n \in 1..Len(r.named) :
           Key(Link(r, r.named[n])) = key /\ r \in stored /\ Key(r) # key =>
             Pending(new, "delete", Key(r))
  PROVE  Keeping(stored, todo, Lacking(stored, key), new)
<1>1. RefsAreThere(stored, todo) => RefsAreThere(Lacking(stored, key), new)
  <2> SUFFICES ASSUME RefsAreThere(stored, todo), NEW r \in stored, Key(r) # key,
                      NEW k \in Refs(r)
               PROVE  \/ k \in Keys(Lacking(stored, key))
                      \/ PendingRow(new, "refer", r)
                      \/ Pending(new, "cascade", k)
    BY DEF RefsAreThere, Lacking
  <2>1. CASE k \in Keys(stored)
    BY <2>1, KeysLacking
  <2>2. CASE PendingRow(todo, "refer", r)
    BY <2>2
  <2>3. CASE Pending(todo, "cascade", k)
    BY <2>3
  <2> QED
    BY <2>1, <2>2, <2>3 DEF RefsAreThere
<1>2. LinksAreThere(stored, todo) => LinksAreThere(Lacking(stored, key), new)
  <2> SUFFICES ASSUME LinksAreThere(stored, todo), NEW r \in stored, Key(r) # key,
                      NEW n \in 1..Len(r.named)
               PROVE  \/ Link(r, r.named[n]) \in Lacking(stored, key)
                      \/ PendingRow(new, "insert", Link(r, r.named[n]))
                      \/ Pending(new, "delete", Key(r))
    BY DEF LinksAreThere, Lacking
  <2>0. r \in AnyRow
    OBVIOUS
  <2>1. CASE Link(r, r.named[n]) \in stored
    BY <2>0, <2>1 DEF Lacking
  <2>2. CASE PendingRow(todo, "insert", Link(r, r.named[n]))
    BY <2>2
  <2>3. CASE Pending(todo, "delete", Key(r))
    BY <2>3
  <2> QED
    BY <2>1, <2>2, <2>3 DEF LinksAreThere
<1>3. \A shared : RefsAreLocked(stored, shared, todo) =>
                    RefsAreLocked(Lacking(stored, key), shared, new)
  BY DEF RefsAreLocked, Lacking
<1> QED
  BY <1>1, <1>2, <1>3 DEF Keeping

LEMMA DeleteKeepsRows ==
  ASSUME NEW todo \in Seq(Instruction), todo # <<>>, InOrder(todo),
         NEW row \in AnyRow, todo[1] = Do("delete", row),
         NEW new, new = <<Do("cascade", row)>> \o Tail(todo),
         NEW stored \in SUBSET AnyRow
  PROVE  Keeping(stored, todo, Lacking(stored, Key(row)), new)
<1>1. /\ Do("cascade", row) \in Instruction
      /\ Do("cascade", row).do = "cascade" /\ Do("cascade", row).row = row
      /\ Do("delete", row).do = "delete" /\ Do("delete", row).row = row
  BY DoOfRow DEF Kinds
<1>2. <<Do("cascade", row)>> \in Seq(Instruction) /\ Tail(todo) \in Seq(Instruction)
  BY <1>1, TailOf
<1>3. Pending(new, "cascade", Key(row))
  BY <1>1, <1>2, FirstIsPending
<1>4. \A do, k : Pending(todo, do, k) => (do = "delete" /\ k = Key(row)) \/ Pending(new, do, k)
  BY <1>1, <1>2, StaysPending DEF At
<1>5. \A do, r : PendingRow(todo, do, r) => do = "delete" \/ PendingRow(new, do, r)
  <2> SUFFICES ASSUME NEW do, NEW r, PendingRow(todo, do, r), ~PendingRow(new, do, r)
               PROVE  do = "delete"
    OBVIOUS
  <2>1. todo[1] = Do(do, r)
    BY <1>2, StaysPendingRow
  <2> QED
    BY <2>1 DEF Do
<1>6. ASSUME NEW r \in AnyRow, NEW n \in 1..Len(r.named),
             Key(Link(r, r.named[n])) = Key(row)
      PROVE  Pending(new, "delete", Key(r))
  <2>1. /\ row.table \in {"relationship_evidence", "finding_evidence"}
        /\ row.owners = {Key(r)}
    BY <1>6, OwnerOfLink
  <2>2. 1 \in 1..Len(todo)
    OBVIOUS
  <2>3. PICK j \in (1+1)..Len(todo) : At(todo, j, "delete", Key(r))
    BY <1>1, <2>1, <2>2 DEF InOrder, OwnerFollows
  <2>4. j - 1 \in 1..Len(Tail(todo)) /\ Tail(todo)[j - 1] = todo[j]
    BY <2>3, TailOf
  <2>5. Len(<<Do("cascade", row)>>) = 1
    OBVIOUS
  <2>6. j \in 1..Len(new) /\ new[1 + (j - 1)] = Tail(todo)[j - 1] /\ 1 + (j - 1) = j
    BY <1>2, <2>3, <2>4, <2>5, Joined
  <2> QED
    BY <2>3, <2>4, <2>6 DEF Pending, At
<1> QED
  BY <1>3, <1>4, <1>5, <1>6, RemoveKeepsRows

\* A foreign key deletes a child of a row that has gone.
LEMMA CascadeKeepsRows ==
  ASSUME NEW todo \in Seq(Instruction), todo # <<>>,
         NEW row \in AnyRow, todo[1] = Do("cascade", row),
         NEW c \in AnyRow, Key(row) \in c.owners,
         NEW new, new = <<Do("cascade", c), Do("cascade", row)>> \o Tail(todo),
         NEW stored \in SUBSET AnyRow, Key(row) \notin Keys(stored)
  PROVE  Keeping(stored, todo, Lacking(stored, Key(c)), new)
<1> DEFINE more == <<Do("cascade", c), Do("cascade", row)>>
<1>1. /\ Do("cascade", row) \in Instruction /\ Do("cascade", c) \in Instruction
      /\ Do("cascade", row).do = "cascade" /\ Do("cascade", row).row = row
      /\ Do("cascade", c).do = "cascade" /\ Do("cascade", c).row = c
  BY DoOfRow DEF Kinds
<1>2. /\ more \in Seq(Instruction) /\ Tail(todo) \in Seq(Instruction)
      /\ Len(more) = 2 /\ more[1] = Do("cascade", c) /\ more[2] = Do("cascade", row)
      /\ 1 \in 1..Len(more) /\ 2 \in 1..Len(more)
  BY <1>1, TailOf
<1> HIDE DEF more
<1>3. new = more \o Tail(todo)
  BY DEF more
<1>4. Pending(new, "cascade", Key(c)) /\ Pending(new, "cascade", Key(row))
  BY <1>1, <1>2, <1>3, BecomesPending
<1>5. \A do, k : Pending(todo, do, k) => Pending(new, do, k)
  BY <1>1, <1>2, <1>3, <1>4, StaysPending DEF At
<1>6. \A do, r : PendingRow(todo, do, r) => do = "cascade" \/ PendingRow(new, do, r)
  <2> SUFFICES ASSUME NEW do, NEW r, PendingRow(todo, do, r), ~PendingRow(new, do, r)
               PROVE  do = "cascade"
    OBVIOUS
  <2>1. todo[1] = Do(do, r)
    BY <1>2, <1>3, StaysPendingRow
  <2> QED
    BY <2>1 DEF Do
<1>7. ASSUME NEW r \in AnyRow, NEW n \in 1..Len(r.named),
             Key(Link(r, r.named[n])) = Key(c), r \in stored
      PROVE  FALSE
  <2>1. c.owners = {Key(r)}
    BY <1>7, OwnerOfLink
  <2>2. Key(row) \in Keys(stored)
    BY <1>7, <2>1, KeysHold
  <2> QED
    BY <2>2
<1> QED
  BY <1>4, <1>5, <1>6, <1>7, RemoveKeepsRows

\* A DELETE that meets no row, and foreign keys that meet no child, are done.
LEMMA NoDeleteKeepsRows ==
  ASSUME NEW todo \in Seq(Instruction), todo # <<>>,
         NEW row \in AnyRow, todo[1] = Do("delete", row),
         NEW stored, Key(row) \notin Keys(stored)
  PROVE  Keeping(stored, todo, stored, Tail(todo))
<1>1. Do("delete", row).do = "delete" /\ Do("delete", row).row = row
  BY DoOfRow DEF Kinds
<1>2. <<>> \in Seq(Instruction) /\ Tail(todo) = <<>> \o Tail(todo)
  BY TailOf
<1>3. \A do, k : Pending(todo, do, k) =>
        (do = "delete" /\ k = Key(row)) \/ Pending(Tail(todo), do, k)
  BY <1>1, <1>2, StaysPending DEF At
<1>4. \A do, r : PendingRow(todo, do, r) => do = "delete" \/ PendingRow(Tail(todo), do, r)
  <2> SUFFICES ASSUME NEW do, NEW r, PendingRow(todo, do, r), ~PendingRow(Tail(todo), do, r)
               PROVE  do = "delete"
    OBVIOUS
  <2>1. todo[1] = Do(do, r)
    BY <1>2, StaysPendingRow
  <2> QED
    BY <2>1 DEF Do
<1>5. RefsAreThere(stored, todo) => RefsAreThere(stored, Tail(todo))
  BY <1>3, <1>4 DEF RefsAreThere
<1>6. LinksAreThere(stored, todo) => LinksAreThere(stored, Tail(todo))
  BY <1>3, <1>4, KeysHold DEF LinksAreThere
<1>7. \A shared : RefsAreLocked(stored, shared, todo) => RefsAreLocked(stored, shared, Tail(todo))
  BY <1>4 DEF RefsAreLocked
<1> QED
  BY <1>5, <1>6, <1>7 DEF Keeping

LEMMA NoCascadeKeepsRows ==
  ASSUME NEW todo \in Seq(Instruction), todo # <<>>,
         NEW row \in AnyRow, todo[1] = Do("cascade", row), row.table # "evidence",
         NEW stored \in SUBSET AnyRow, \A r \in stored : Key(row) \notin r.owners
  PROVE  Keeping(stored, todo, stored, Tail(todo))
<1>1. Do("cascade", row).do = "cascade" /\ Do("cascade", row).row = row
  BY DoOfRow DEF Kinds
<1>2. <<>> \in Seq(Instruction) /\ Tail(todo) = <<>> \o Tail(todo)
  BY TailOf
<1>3. \A do, k : Pending(todo, do, k) =>
        (do = "cascade" /\ k = Key(row)) \/ Pending(Tail(todo), do, k)
  BY <1>1, <1>2, StaysPending, ZenonT(40) DEF At
<1>4. \A do, r : PendingRow(todo, do, r) => do = "cascade" \/ PendingRow(Tail(todo), do, r)
  <2> SUFFICES ASSUME NEW do, NEW r, PendingRow(todo, do, r), ~PendingRow(Tail(todo), do, r)
               PROVE  do = "cascade"
    OBVIOUS
  <2>1. todo[1] = Do(do, r)
    BY <1>2, StaysPendingRow
  <2> QED
    BY <2>1 DEF Do
<1>5. \A r \in stored : Key(row) \notin Refs(r)
  BY EvidenceIsCited
<1>6. RefsAreThere(stored, todo) => RefsAreThere(stored, Tail(todo))
  BY <1>3, <1>4, <1>5 DEF RefsAreThere
<1>7. LinksAreThere(stored, todo) => LinksAreThere(stored, Tail(todo))
  BY <1>3, <1>4 DEF LinksAreThere
<1>8. \A shared : RefsAreLocked(stored, shared, todo) => RefsAreLocked(stored, shared, Tail(todo))
  BY <1>4 DEF RefsAreLocked
<1> QED
  BY <1>6, <1>7, <1>8 DEF Keeping

-----------------------------------------------------------------------------
(***************************************************************************)
(* Each step of a session keeps the invariant of that session.             *)
(***************************************************************************)
Before(s) == TypeInv /\ LockInv /\ CallInv(s) /\ ViewInv(s) /\ Allowed(s)

Kept(s) == Before(s)' /\ OthersStay(s) /\ db' = db

LEMMA SameView ==
  ASSUME NEW s \in Session, HoldsAsBefore(s), db' = db
  PROVE  View(s)' = View(s)
BY DEF View, HoldsAsBefore

\* An empty call.
LEMMA EmptyCall ==
  ASSUME NEW s \in Session, session'[s].todo = <<>>
  PROVE  CallInv(s)'
<1>1. Len(session'[s].todo) = 0
  OBVIOUS
<1>2. CascadesFollow(session'[s].own, session'[s].gone, session'[s].todo)
  BY <1>1 DEF CascadesFollow
<1>3. InOrder(session'[s].todo)
  BY NothingPending
<1>4. Only(session'[s].todo, {"get", "load", "delete", "cascade"})
  BY NothingPending
<1> QED
  BY <1>2, <1>3, <1>4 DEF CallInv, Deleting

LEMMA FailKeeps ==
  ASSUME NEW s \in Session, Before(s), NEW error \in Errors \ {"none"}, Fail(s, error),
         session[s].call.op = "delete" => error \in {"deadlock", "cancelled"}
  PROVE  Kept(s)
<1>1. /\ TypeInv' /\ OthersStay(s) /\ db' = db /\ HoldsNothing(s)
      /\ session'[s].error = error
      /\ session'[s].todo = <<>> /\ session'[s].call = session[s].call
  BY FailEffect DEF Before
<1>2. LockInv'
  BY <1>1, LocksOnReset DEF Before
<1>3. CallInv(s)'
  BY <1>1, EmptyCall
<1>4. ViewInv(s)' /\ Allowed(s)'
  BY <1>1 DEF ViewInv, Allowed
<1> QED
  BY <1>1, <1>2, <1>3, <1>4 DEF Kept, Before

LEMMA GiveUpKeeps ==
  ASSUME NEW s \in Session, Before(s), NEW error \in Errors \ {"none"}, GiveUp(s, error),
         session[s].call.op = "delete" => error \in {"deadlock", "cancelled"}
  PROVE  Kept(s)
<1>1. /\ TypeInv' /\ OthersStay(s) /\ db' = db /\ HoldsAsBefore(s)
      /\ session'[s].error = error
      /\ session'[s].todo = <<>> /\ session'[s].call = session[s].call
  BY GiveUpEffect DEF Before
<1>2. LockInv'
  BY <1>1, LocksOnStay DEF Before
<1>3. CallInv(s)'
  BY <1>1, EmptyCall
<1>4. ViewInv(s)' /\ Allowed(s)'
  BY <1>1 DEF ViewInv, Allowed
<1> QED
  BY <1>1, <1>2, <1>3, <1>4 DEF Kept, Before

\* The kinds of statements that a call still has to do.
LEMMA FirstStatement ==
  ASSUME NEW s \in Session, Before(s), NEW do, Running(s, do)
  PROVE  /\ session[s].todo # <<>> /\ session[s].todo \in Seq(Instruction)
         /\ Statement(s) = session[s].todo[1] /\ Statement(s) \in Instruction
         /\ Statement(s).row \in AnyRow /\ Statement(s) = Do(do, Statement(s).row)
         /\ do \in Kinds /\ session[s].todo[1].do = do
         /\ session[s].call.op = "delete" => do \in {"get", "load", "delete", "cascade"}
<1>1. /\ session[s].todo \in Seq(Instruction) /\ session[s].todo # <<>>
      /\ Statement(s).do = do
  BY SessionIsHeld DEF Before, Running
<1>2. Statement(s) = session[s].todo[1] /\ Statement(s) \in Instruction
  BY <1>1, TailOf DEF Statement
<1>3. 1 \in 1..Len(session[s].todo)
  BY <1>1
<1>4. session[s].call.op = "delete" => do \in {"get", "load", "delete", "cascade"}
  BY <1>1, <1>2, <1>3 DEF Before, CallInv, Deleting, Only
<1> QED
  BY <1>1, <1>2, <1>4 DEF Instruction, Do

\* What is said of the call in progress still is when a statement is done.
LEMMA StillDeleting ==
  ASSUME NEW s \in Session, Before(s), session[s].todo # <<>>,
         session[s].call.op = "delete" =>
           session'[s].todo = <<>> \/
           (\E more \in Seq(Instruction) :
              /\ session'[s].todo = more \o Tail(session[s].todo)
              /\ Only(more, {"get", "load", "delete", "cascade"})),
         session'[s].call \in {session[s].call, NoCall},
         session'[s].error = session[s].error
  PROVE  Deleting(s)' /\ Allowed(s)'
<1>1. NoCall.op # "delete"
  BY DEF NoCall
<1>2. Allowed(s)'
  BY <1>1 DEF Before, Allowed
<1>3. ASSUME session[s].call.op = "delete"
      PROVE  Only(session'[s].todo, {"get", "load", "delete", "cascade"})
  <2>1. CASE session'[s].todo = <<>>
    BY <2>1, NothingPending
  <2>2. ASSUME NEW more \in Seq(Instruction),
               session'[s].todo = more \o Tail(session[s].todo),
               Only(more, {"get", "load", "delete", "cascade"})
        PROVE  Only(session'[s].todo, {"get", "load", "delete", "cascade"})
    <3>1. session[s].todo \in Seq(Instruction)
      BY SessionIsHeld DEF Before
    <3>2. Only(session[s].todo, {"get", "load", "delete", "cascade"})
      BY <1>3 DEF Before, CallInv, Deleting
    <3>3. /\ Only(Tail(session[s].todo), {"get", "load", "delete", "cascade"})
          /\ Tail(session[s].todo) \in Seq(Instruction)
      BY <3>1, <3>2, OnlyTail, TailOf
    <3> QED
      BY <2>2, <3>3, OnlyJoined
  <2> QED
    BY <1>3, <2>1, <2>2
<1>4. Deleting(s)'
  BY <1>1, <1>3 DEF Deleting
<1> QED
  BY <1>2, <1>4

LEMMA CascadesFollowTail ==
  ASSUME NEW todo \in Seq(Instruction), todo # <<>>, NEW own, NEW gone,
         CascadesFollow(own, gone, todo)
  PROVE  CascadesFollow(own, gone, Tail(todo))
<1>1. \A i \in 1..Len(Tail(todo)) : i + 1 \in 1..Len(todo) /\ Tail(todo)[i] = todo[i + 1]
  BY TailOf
<1> QED
  BY <1>1 DEF CascadesFollow

LEMMA CascadesFollowJoined ==
  ASSUME NEW more \in Seq(Instruction), NEW rest \in Seq(Instruction), NEW own, NEW gone,
         \A i \in 1..Len(more) : Key(more[i].row) \in gone \ Keys(own),
         CascadesFollow(own, gone, rest)
  PROVE  CascadesFollow(own, gone, more \o rest)
BY Joined DEF CascadesFollow

\* A call that inserts or reads has no cascade.
LEMMA NoCascades ==
  ASSUME NEW todo, NEW kinds, Only(todo, kinds), "cascade" \notin kinds
  PROVE  \A own, gone : CascadesFollow(own, gone, todo)
BY DEF CascadesFollow, Only

LEMMA TypesOfHeld ==
  ASSUME NEW s \in Session, TypeInv
  PROVE  /\ \A row \in AnyRow : row.unique \subseteq AnyValue /\ Refs(row) \subseteq AnyKey
                                /\ Key(row) \in AnyKey
         /\ Keys(View(s)) \subseteq AnyKey
<1>1. \A row \in AnyRow : row.unique \subseteq AnyValue /\ Refs(row) \subseteq AnyKey
                          /\ Key(row) \in AnyKey
  BY DEF AnyValue, AnyKey, Keys
<1>2. View(s) \subseteq AnyRow
  BY SessionIsHeld
<1> QED
  BY <1>1, <1>2 DEF Keys

\* A statement that does not wait is not delayed by anyone.
LEMMA NotDelayed ==
  ASSUME NEW s \in Session, NEW do, Ready(s, do), NEW t \in Session \ {s}
  PROVE  LET row == Statement(s).row
         IN  /\ do = "insert" => ~Claims(t, row.unique)
             /\ do = "refer" => Refs(row) \cap session[t].gone \cap Keys(db) = {}
             /\ do = "update" =>
                  /\ Key(row) \notin Written(t)
                  /\ Rekeys(s, row) => ~Claims(t, row.unique)
             /\ do = "delete" => ~Locks(t, Key(row))
             /\ do = "cascade" => \A c \in Children(s, Key(row)) : ~Locks(t, Key(c))
<1>1. session[s].todo # <<>> /\ Statement(s).do = do
  BY DEF Ready, Running
<1>2. t \in Others(s)
  BY DEF Others
<1>3. ~Delays(t, s)
  BY <1>1, <1>2 DEF Ready, WaitsFor
<1>4. \A kind : Running(s, kind) <=> kind = do
  BY <1>1 DEF Running
<1> QED
  BY <1>3, <1>4 DEF Delays

LEMMA InsertKeeps ==
  ASSUME NEW s \in Session, Before(s), Insert(s)
  PROVE  Kept(s)
<1> DEFINE row == Statement(s).row
           todo == session[s].todo
<1>1. /\ todo # <<>> /\ todo \in Seq(Instruction) /\ row \in AnyRow
      /\ todo[1] = Do("insert", row) /\ todo[1].do = "insert"
      /\ session[s].call.op # "delete"
  BY FirstStatement DEF Insert, Ready
<1>2. CASE Fail(s, "duplicate")
  BY <1>1, <1>2, FailKeeps DEF Errors
<1>3. CASE /\ \A r \in View(s) : r.unique \cap row.unique = {}
           /\ Continue(s, Put(s, session[s].own, row), <<Do("refer", row)>>)
  <2> DEFINE more == <<Do("refer", row)>>
             own == session[s].own \cup {row}
             claims == session[s].claims \cup row.unique
             gone == session[s].gone
             shared == session[s].shared
             new == more \o Tail(todo)
  <2>1. Put(s, session[s].own, row) = Holding(s, own, gone, claims, shared)
    <3>1. session[s] \in SessionType
      BY SessionIsHeld DEF Before
    <3> QED
      BY <3>1 DEF Put, Holding, SessionType
  <2>2. HeldType(own, gone, claims, shared)
    <3>1. HeldType(session[s].own, gone, session[s].claims, shared)
      BY SessionIsHeld DEF Held, Before
    <3>2. IsFiniteSet(own)
      BY <3>1, FS_AddElement DEF HeldType
    <3> QED
      BY <1>1, <3>1, <3>2, TypesOfHeld DEF HeldType, Before
  <2>3. Do("refer", row) \in Instruction /\ Do("refer", row).do = "refer"
    BY <1>1, DoOfRow DEF Kinds
  <2>4. more \in Seq(Instruction)
    BY <2>3
  <2>5. /\ TypeInv' /\ OthersStay(s) /\ db' = db
        /\ session'[s].own = own /\ session'[s].gone = gone
        /\ session'[s].claims = claims /\ session'[s].shared = shared
        /\ session'[s].error = session[s].error
        /\ session'[s].todo = new
        /\ session'[s].call \in {session[s].call, NoCall}
    <3> HIDE DEF more, own, claims, gone, shared
    <3>1. Continue(s, Holding(s, own, gone, claims, shared), more)
      BY <1>3, <2>1 DEF more, own, claims, gone, shared
    <3> QED
      BY <1>1, <2>2, <2>4, <3>1, ContinueEffect DEF Before
  <2>6. \A r \in db : r.unique \cap row.unique # {} => Key(r) \in Written(s)
    <3> SUFFICES ASSUME NEW r \in db, r.unique \cap row.unique # {}
                 PROVE  Key(r) \in Written(s)
      OBVIOUS
    <3>1. r \notin View(s)
      BY <1>3
    <3>2. Key(r) \in Keys(db)
      BY KeysHold
    <3> QED
      BY <3>1, <3>2 DEF View, Written
  <2>7. LockInv'
    <3>1. ASSUME NEW t \in Session \ {s}
          PROVE  session[t].claims \cap row.unique = {} /\ Key(row) \notin Written(t)
      <4>1. ~Claims(t, row.unique)
        BY NotDelayed DEF Insert
      <4>2. Key(row) \in row.unique
        BY <1>1, KeyOfRow
      <4>3. ASSUME Key(row) \in Written(t)
            PROVE  FALSE
        <5>1. PICK r \in db : Key(r) = Key(row)
          BY <4>3, KeysHold DEF Written
        <5>2. Key(r) \in r.unique
          BY KeyOfRow DEF Before, TypeInv
        <5> QED
          BY <4>1, <4>2, <4>3, <5>1, <5>2 DEF Claims
      <4> QED
        BY <4>1, <4>3 DEF Claims
    <3>2. \A r \in session[s].own : r.unique \cap row.unique = {}
      BY <1>3 DEF View
    <3>3. session[s].own \subseteq session[s].own
          /\ Keys(session[s].own) \subseteq Keys(session[s].own) \cup {Key(row)}
      OBVIOUS
    <3>4. \A r \in db : r.unique \cap row.unique # {} => Key(r) \in Written(s) \cup {Key(row)}
      BY <2>6
    <3> QED
      BY <1>1, <2>5, <3>1, <3>2, <3>3, <3>4, LocksOnPut DEF Before
  <2>8. View(s)' = View(s) \cup {row}
    <3>1. Keys(own) = Keys(session[s].own) \cup {Key(row)}
      BY DEF Keys
    <3>2. \A r \in db : Key(r) = Key(row) => r \notin View(s)
      BY <1>1, <1>3, KeyOfRow DEF Before, TypeInv
    <3>3. View(s)' = {r \in db : Key(r) \notin session[s].gone \cup Keys(own)} \cup own
      BY <2>5 DEF View
    <3> QED
      BY <3>1, <3>2, <3>3 DEF View
  <2>9. InOrder(new) /\ Only(new, {"insert", "refer"})
    <3>1. InOrder(todo)
      BY DEF Before, CallInv
    <3>2. Only(todo, {"insert", "refer"})
      BY <1>1, <3>1, MoodOfHead DEF InOrder
    <3>3. InOrder(Tail(todo)) /\ Only(Tail(todo), {"insert", "refer"})
      BY <1>1, <3>1, <3>2, TailInOrder, OnlyTail
    <3>4. Tail(todo) \in Seq(Instruction)
      BY <1>1, TailOf
    <3>5. Only(more, {"insert", "refer"})
      BY <2>3 DEF Only
    <3>6. Only(new, {"insert", "refer"})
      BY <2>4, <3>3, <3>4, <3>5, OnlyJoined
    <3> QED
      BY <2>3, <3>3, <3>4, <3>6, ConsInOrder
  <2>10. CallInv(s)' /\ Allowed(s)'
    <3>1. CascadesFollow(session'[s].own, session'[s].gone, new)
      BY <2>9, NoCascades
    <3>2. Deleting(s)' /\ Allowed(s)'
      BY <1>1, <2>5, StillDeleting
    <3> QED
      BY <2>5, <2>9, <3>1, <3>2 DEF CallInv
  <2>11. ViewInv(s)'
    <3>1. InOrder(todo)
      BY DEF Before, CallInv
    <3>2. SUFFICES ASSUME session[s].error = "none"
                   PROVE  /\ RefsAreThere(View(s) \cup {row}, new)
                          /\ LinksAreThere(View(s) \cup {row}, new)
                          /\ RefsAreLocked(own, shared, new)
                          /\ LinksAreThere(own, new)
      BY <2>5, <2>8 DEF ViewInv
    <3>3. /\ RefsAreThere(View(s), todo) /\ LinksAreThere(View(s), todo)
          /\ RefsAreLocked(session[s].own, shared, todo)
          /\ LinksAreThere(session[s].own, todo)
      BY <3>2 DEF Before, ViewInv
    <3> HIDE DEF todo, new, row, shared
    <3>4. new = <<Do("refer", row)>> \o Tail(todo)
      BY DEF new
    <3>5. RefsAreThere(View(s) \cup {row}, new) /\ LinksAreThere(View(s) \cup {row}, new)
      BY <1>1, <3>1, <3>3, <3>4, InsertKeepsRows DEF Keeping
    <3>6. LinksAreThere(own, new)
      BY <1>1, <3>1, <3>3, <3>4, InsertKeepsRows DEF Keeping
    <3>7. \A x : RefsAreLocked(session[s].own, x, todo) => RefsAreLocked(own, x, new)
      BY <1>1, <3>1, <3>4, InsertKeepsRows DEF Keeping
    <3> QED
      BY <3>3, <3>5, <3>6, <3>7
  <2> QED
    BY <2>5, <2>7, <2>10, <2>11 DEF Kept, Before
<1> QED
  BY <1>2, <1>3 DEF Insert

LEMMA ReferKeeps ==
  ASSUME NEW s \in Session, Before(s), Refer(s)
  PROVE  Kept(s)
<1> DEFINE row == Statement(s).row
           todo == session[s].todo
           refs == Refs(row)
<1>1. /\ todo # <<>> /\ todo \in Seq(Instruction) /\ row \in AnyRow
      /\ todo[1] = Do("refer", row) /\ todo[1].do = "refer"
      /\ session[s].call.op # "delete"
  BY FirstStatement DEF Refer, Ready
<1>2. CASE Fail(s, "missing")
  BY <1>1, <1>2, FailKeeps DEF Errors
<1>3. CASE /\ refs \subseteq Keys(View(s))
           /\ Continue(s, [session[s] EXCEPT !.shared = @ \cup refs], <<>>)
  <2> DEFINE shared == session[s].shared \cup refs
             own == session[s].own
             gone == session[s].gone
             claims == session[s].claims
  <2>0. session[s] \in SessionType
    BY SessionIsHeld DEF Before
  <2>1. [session[s] EXCEPT !.shared = @ \cup refs] = Holding(s, own, gone, claims, shared)
    BY <2>0 DEF Holding, SessionType
  <2>2. HeldType(own, gone, claims, shared)
    <3>1. HeldType(own, gone, claims, session[s].shared)
      BY SessionIsHeld DEF Held, Before
    <3> QED
      BY <1>1, <3>1, TypesOfHeld DEF HeldType, Before
  <2>3. <<>> \in Seq(Instruction) /\ <<>> \o Tail(todo) = Tail(todo)
    BY <1>1, TailOf
  <2>5. /\ TypeInv' /\ OthersStay(s) /\ db' = db
        /\ session'[s].own = own /\ session'[s].gone = gone
        /\ session'[s].claims = claims /\ session'[s].shared = shared
        /\ session'[s].error = session[s].error
        /\ session'[s].todo = <<>> \o Tail(todo)
        /\ session'[s].call \in {session[s].call, NoCall}
    <3> HIDE DEF own, claims, gone, shared
    <3>1. Continue(s, Holding(s, own, gone, claims, shared), <<>>)
      BY <1>3, <2>1
    <3> QED
      BY <1>1, <2>2, <2>3, <3>1, ContinueEffect DEF Before
  <2>6. LockInv'
    <3>1. \A t \in Session \ {s} : refs \cap session[t].gone \cap Keys(db) = {}
      BY NotDelayed DEF Refer
    <3> QED
      BY <2>5, <3>1, LocksOnShare DEF Before
  <2>7. View(s)' = View(s)
    BY <2>5 DEF View
  <2>8. InOrder(Tail(todo)) /\ Only(Tail(todo), {"insert", "refer"})
    <3>1. InOrder(todo)
      BY DEF Before, CallInv
    <3>2. Only(todo, {"insert", "refer"})
      BY <1>1, <3>1, MoodOfHead DEF InOrder
    <3> QED
      BY <1>1, <3>1, <3>2, TailInOrder, OnlyTail
  <2>9. CallInv(s)' /\ Allowed(s)'
    <3>1. CascadesFollow(session'[s].own, session'[s].gone, Tail(todo))
      BY <2>8, NoCascades
    <3>2. Deleting(s)' /\ Allowed(s)'
      BY <1>1, <2>5, StillDeleting
    <3> QED
      BY <2>3, <2>5, <2>8, <3>1, <3>2 DEF CallInv
  <2>10. ViewInv(s)'
    <3>1. SUFFICES ASSUME session[s].error = "none"
                   PROVE  /\ RefsAreThere(View(s), Tail(todo))
                          /\ LinksAreThere(View(s), Tail(todo))
                          /\ RefsAreLocked(own, shared, Tail(todo))
                          /\ LinksAreThere(own, Tail(todo))
      BY <2>3, <2>5, <2>7 DEF ViewInv
    <3>2. /\ RefsAreThere(View(s), todo) /\ LinksAreThere(View(s), todo)
          /\ RefsAreLocked(own, session[s].shared, todo) /\ LinksAreThere(own, todo)
      BY <3>1 DEF Before, ViewInv
    <3> HIDE DEF todo, row
    <3>3. RefsAreThere(View(s), Tail(todo)) /\ LinksAreThere(View(s), Tail(todo))
      BY <1>1, <1>3, <3>2, ReferKeepsRows
    <3>4. RefsAreLocked(own, shared, Tail(todo)) /\ LinksAreThere(own, Tail(todo))
      BY <1>1, <3>2, ReferKeepsRows
    <3> QED
      BY <3>3, <3>4
  <2> QED
    BY <2>5, <2>6, <2>9, <2>10 DEF Kept, Before
<1> QED
  BY <1>2, <1>3 DEF Refer

\* A statement that leaves rows and locks as they are.
LEMMA ReadingKeeps ==
  ASSUME NEW s \in Session, Before(s), TypeInv', OthersStay(s), db' = db, HoldsAsBefore(s),
         session'[s].error = session[s].error,
         Only(session[s].todo, {"get", "update", "load"}),
         InOrder(session'[s].todo), Deleting(s)', Allowed(s)',
         \E kinds : Only(session'[s].todo, kinds) /\ "cascade" \notin kinds
  PROVE  Kept(s)
<1>1. LockInv'
  BY LocksOnStay DEF Before
<1>2. View(s)' = View(s)
  BY SameView
<1>3. CallInv(s)'
  BY NoCascades DEF CallInv
<1>4. SUFFICES ASSUME session[s].error = "none"
               PROVE  /\ RefsAreThere(View(s), session'[s].todo)
                      /\ LinksAreThere(View(s), session'[s].todo)
                      /\ RefsAreLocked(session[s].own, session[s].shared, session'[s].todo)
                      /\ LinksAreThere(session[s].own, session'[s].todo)
  BY <1>1, <1>2, <1>3 DEF ViewInv, HoldsAsBefore, Kept, Before
<1>5. /\ RefsAreThere(View(s), session[s].todo) /\ LinksAreThere(View(s), session[s].todo)
      /\ RefsAreLocked(session[s].own, session[s].shared, session[s].todo)
      /\ LinksAreThere(session[s].own, session[s].todo)
  BY <1>4 DEF Before, ViewInv
<1> QED
  BY <1>5, ReadingIsPending

LEMMA GetKeeps ==
  ASSUME NEW s \in Session, Before(s), Get(s)
  PROVE  Kept(s)
<1> DEFINE todo == session[s].todo
<1>1. /\ todo # <<>> /\ todo \in Seq(Instruction) /\ todo[1].do = "get"
  BY FirstStatement DEF Get, Ready
<1>2. InOrder(todo) /\ Only(todo, {"get", "update", "load"})
  BY <1>1, MoodOfHead DEF Before, CallInv, InOrder
<1>3. CASE Continue(s, session[s], <<>>)
  <2>1. <<>> \in Seq(Instruction) /\ <<>> \o Tail(todo) = Tail(todo)
        /\ Only(<<>>, {"get", "load", "delete", "cascade"})
    BY <1>1, TailOf, NothingPending
  <2>2. /\ TypeInv' /\ OthersStay(s) /\ db' = db /\ HoldsAsBefore(s)
        /\ session'[s].error = session[s].error
        /\ session'[s].todo = <<>> \o Tail(todo)
        /\ session'[s].call \in {session[s].call, NoCall}
    BY <1>1, <1>3, <2>1, ContinueAsBefore DEF Before
  <2>3. InOrder(Tail(todo)) /\ Only(Tail(todo), {"get", "update", "load"})
    BY <1>1, <1>2, TailInOrder, OnlyTail
  <2>4. Deleting(s)' /\ Allowed(s)'
    BY <1>1, <2>1, <2>2, StillDeleting
  <2>5. session'[s].todo = Tail(todo)
    BY <2>1, <2>2
  <2> QED
    BY <1>2, <2>2, <2>3, <2>4, <2>5, ReadingKeeps
<1>4. CASE Remaining(s, session[s], <<>>)
  <2>1. /\ TypeInv' /\ OthersStay(s) /\ db' = db /\ HoldsAsBefore(s)
        /\ session'[s].error = session[s].error
        /\ session'[s].todo = <<>> /\ session'[s].call = NoCall
    BY <1>4, NoneRemaining DEF Before
  <2>2. Deleting(s)' /\ Allowed(s)'
    BY <1>1, <2>1, StillDeleting
  <2>3. InOrder(<<>>) /\ Only(<<>>, {})
    BY NothingPending
  <2> QED
    BY <1>2, <2>1, <2>2, <2>3, ReadingKeeps, SMTT(40)
<1> QED
  BY <1>3, <1>4 DEF Get

LEMMA LoadKeeps ==
  ASSUME NEW s \in Session, Before(s), Load(s)
  PROVE  Kept(s)
<1> DEFINE row == Statement(s).row
           todo == session[s].todo
           children == Children(s, Key(row))
           links == UNION {Children(s, Key(c)) : c \in children}
           more == Deletes(links) \o Deletes(children) \o <<Do("delete", row)>>
<1>1. /\ todo # <<>> /\ todo \in Seq(Instruction) /\ row \in AnyRow
      /\ todo[1] = Do("load", row) /\ todo[1].do = "load" /\ todo[1].row = row
  BY FirstStatement DEF Load, Ready
<1>2. InOrder(todo) /\ Only(todo, {"get", "update", "load"})
  BY <1>1, MoodOfHead DEF Before, CallInv, InOrder
\* It is the last statement of the call.
<1>3. /\ row.table \in {"entities", "relationships", "findings"}
      /\ Len(todo) = 1
  <2>1. 1 \in 1..Len(todo)
    BY <1>1
  <2> QED
    BY <1>1, <1>2, <2>1 DEF InOrder, Targets
<1>4. Tail(todo) = <<>>
  <2>1. Tail(todo) \in Seq(Instruction) /\ Len(Tail(todo)) = 0
    BY <1>1, <1>3, TailOf
  <2> QED
    BY <2>1, EmptyOf
<1>5. View(s) \in SUBSET AnyRow /\ IsFiniteSet(View(s))
  BY SessionIsHeld DEF Before
<1>6. /\ children = {r \in View(s) : Key(row) \in r.owners}
      /\ links \subseteq View(s)
      /\ \A r \in links : \E c \in children : Key(c) \in r.owners
  BY DEF Children
<1>7. more \in Seq(Instruction) /\ InOrder(more) /\ Only(more, {"delete"})
  <2> HIDE DEF children, links, row
  <2>1. PICK stored : stored = View(s)
    OBVIOUS
  <2>2. /\ stored \in SUBSET AnyRow /\ IsFiniteSet(stored)
        /\ children = {r \in stored : Key(row) \in r.owners} /\ links \subseteq stored
    BY <1>5, <1>6, <2>1
  <2> QED
    BY <1>1, <1>3, <1>6, <2>2, DeletionInOrder
<1>8. Continue(s, session[s], more)
  BY DEF Load
<1> HIDE DEF more
<1>9. /\ TypeInv' /\ OthersStay(s) /\ db' = db /\ HoldsAsBefore(s)
      /\ session'[s].error = session[s].error
      /\ session'[s].todo = more \o Tail(todo)
      /\ session'[s].call \in {session[s].call, NoCall}
  BY <1>1, <1>7, <1>8, ContinueAsBefore DEF Before
<1>10. session'[s].todo = more
  <2>1. more \o <<>> = more
    BY <1>7
  <2> QED
    BY <1>4, <1>9, <2>1
<1>11. Only(more, {"get", "load", "delete", "cascade"})
  BY <1>7 DEF Only
<1>12. Deleting(s)' /\ Allowed(s)'
  BY <1>1, <1>7, <1>9, <1>11, StillDeleting
<1>13. InOrder(session'[s].todo) /\ Only(session'[s].todo, {"delete"})
  BY <1>7, <1>10
<1>14. \E kinds : Only(session'[s].todo, kinds) /\ "cascade" \notin kinds
  BY <1>13
<1> QED
  BY <1>2, <1>9, <1>12, <1>13, <1>14, ReadingKeeps

LEMMA UpdateKeeps ==
  ASSUME NEW s \in Session, Before(s), Update(s)
  PROVE  Kept(s)
<1> DEFINE row == Statement(s).row
           todo == session[s].todo
           old == Old(s, row)
<1>1. /\ todo # <<>> /\ todo \in Seq(Instruction) /\ row \in AnyRow
      /\ todo[1] = Do("update", row) /\ todo[1].do = "update" /\ todo[1].row = row
      /\ session[s].call.op # "delete"
  BY FirstStatement DEF Update, Ready
<1>2. CASE GiveUp(s, "stale")
  BY <1>1, <1>2, GiveUpKeeps DEF Errors
<1>3. CASE Fail(s, "duplicate")
  BY <1>1, <1>3, FailKeeps DEF Errors
<1>4. CASE /\ Key(row) \in Keys(View(s))
           /\ Rekeys(s, row) => \A r \in View(s) \ {old} : r.unique \cap row.unique = {}
           /\ Continue(s, Put(s, session[s].own \ {old}, row), <<>>)
  <2> DEFINE others == session[s].own \ {old}
             own == others \cup {row}
             claims == session[s].claims \cup row.unique
             gone == session[s].gone
             shared == session[s].shared
  <2>1. Put(s, others, row) = Holding(s, own, gone, claims, shared)
    <3>1. session[s] \in SessionType
      BY SessionIsHeld DEF Before
    <3> QED
      BY <3>1 DEF Put, Holding, SessionType
  <2>2. HeldType(own, gone, claims, shared)
    <3>1. HeldType(session[s].own, gone, session[s].claims, shared)
      BY SessionIsHeld DEF Held, Before
    <3>2. IsFiniteSet(others)
      BY <3>1, FS_RemoveElement DEF HeldType
    <3>3. IsFiniteSet(own)
      BY <3>2, FS_AddElement
    <3> QED
      BY <1>1, <3>1, <3>3, TypesOfHeld DEF HeldType, Before
  <2>3. <<>> \in Seq(Instruction) /\ <<>> \o Tail(todo) = Tail(todo)
    BY <1>1, TailOf
  <2>4. old \in View(s) /\ Key(old) = Key(row)
    <3>1. \E r \in View(s) : Key(r) = Key(row)
      BY <1>4, KeysHold
    <3> QED
      BY <3>1 DEF Old
  <2>5. /\ TypeInv' /\ OthersStay(s) /\ db' = db
        /\ session'[s].own = own /\ session'[s].gone = gone
        /\ session'[s].claims = claims /\ session'[s].shared = shared
        /\ session'[s].error = session[s].error
        /\ session'[s].todo = <<>> \o Tail(todo)
        /\ session'[s].call \in {session[s].call, NoCall}
    <3>1. Continue(s, Holding(s, own, gone, claims, shared), <<>>)
      BY <1>4, <2>1
    <3> HIDE DEF own, claims, gone, shared
    <3> QED
      BY <1>1, <2>2, <2>3, <3>1, ContinueEffect DEF Before
  \* Who shares a value with the new row is the old one.
  <2>6. \A r \in View(s) : r.unique \cap row.unique # {} => r = old
    <3>1. CASE Rekeys(s, row)
      BY <1>4, <3>1
    <3>2. CASE ~Rekeys(s, row)
      <4>1. row.unique = old.unique
        BY <1>4, <3>2 DEF Rekeys
      <4> QED
        BY <2>4, <4>1, ViewIsDistinct DEF Before, Distinct
    <3> QED
      BY <3>1, <3>2
  <2>7. LockInv'
    <3>1. ASSUME NEW t \in Session \ {s}
          PROVE  session[t].claims \cap row.unique = {} /\ Key(row) \notin Written(t)
      <4>1. Key(row) \notin Written(t) /\ (Rekeys(s, row) => ~Claims(t, row.unique))
        BY NotDelayed DEF Update
      <4>2. CASE Rekeys(s, row)
        BY <4>1, <4>2 DEF Claims
      <4>3. CASE ~Rekeys(s, row)
        <5>1. row.unique = old.unique
          BY <1>4, <4>3 DEF Rekeys
        <5>2. CASE old \in session[s].own
          <6>1. old.unique \subseteq session[s].claims
            BY <5>2 DEF Before, LockInv, Claimed
          <6>2. session[s].claims \cap session[t].claims = {}
            BY DEF Before, LockInv, Apart
          <6> QED
            BY <4>1, <5>1, <6>1, <6>2
        <5>3. CASE old \in db
          <6>1. old.unique \cap session[t].claims # {} => Key(old) \in Written(t)
            BY <5>3 DEF Before, LockInv, Claimed
          <6> QED
            BY <2>4, <4>1, <5>1, <6>1
        <5> QED
          BY <2>4, <5>2, <5>3 DEF View
      <4> QED
        BY <4>2, <4>3
    <3>2. \A r \in others : r.unique \cap row.unique = {}
      BY <2>6 DEF View
    <3>3. others \subseteq session[s].own
          /\ Keys(session[s].own) \subseteq Keys(others) \cup {Key(row)}
      BY <2>4 DEF Keys
    <3>4. ASSUME NEW r \in db, r.unique \cap row.unique # {}
          PROVE  Key(r) \in Written(s) \cup {Key(row)}
      <4>1. Key(r) \in Keys(db)
        BY KeysHold
      <4>2. CASE r \in View(s)
        BY <2>4, <2>6, <3>4, <4>2
      <4>3. CASE r \notin View(s)
        BY <4>1, <4>3 DEF View, Written
      <4> QED
        BY <4>2, <4>3
    <3> HIDE DEF others
    <3> QED
      BY <1>1, <2>5, <3>1, <3>2, <3>3, <3>4, LocksOnPut DEF Before
  <2>8. View(s)' = (View(s) \ {old}) \cup {row}
    <3>1. \A r \in View(s) : Key(r) = Key(row) => r = old
      BY <2>4, SameKeySameRow DEF Before
    <3>2. Keys(own) = Keys(session[s].own) \cup {Key(row)}
      BY <2>4 DEF Keys
    <3>3. View(s)' = {r \in db : Key(r) \notin session[s].gone \cup Keys(own)} \cup own
      BY <2>5 DEF View
    <3>4. \A r \in session[s].own : r \in View(s)
      BY DEF View
    <3>5. \A r \in View(s)' : r \in (View(s) \ {old}) \cup {row}
      <4> SUFFICES ASSUME NEW r \in View(s)', r # row
                   PROVE  r \in View(s) /\ r # old
        OBVIOUS
      <4>1. CASE r \in own
        BY <3>4, <4>1
      <4>2. CASE r \in db /\ Key(r) \notin session[s].gone \cup Keys(own)
        BY <2>4, <3>2, <4>2 DEF View
      <4> QED
        BY <3>3, <4>1, <4>2
    <3>6. \A r \in (View(s) \ {old}) \cup {row} : r \in View(s)'
      <4> SUFFICES ASSUME NEW r \in View(s), r # old, r \notin own
                   PROVE  r \in View(s)'
        BY <3>3
      <4>1. r \in db /\ Key(r) \notin session[s].gone \cup Keys(session[s].own)
        BY DEF View
      <4>2. Key(r) # Key(row)
        BY <3>1
      <4> QED
        BY <3>2, <3>3, <4>1, <4>2
    <3> QED
      BY <3>5, <3>6
  <2>9. Only(todo, {"get", "update", "load"}) /\ row.table = "entities"
    <3>1. 1 \in 1..Len(todo)
      BY <1>1
    <3>2. InOrder(todo)
      BY DEF Before, CallInv
    <3> QED
      BY <1>1, <3>1, <3>2, MoodOfHead DEF InOrder, Targets
  <2>10. InOrder(Tail(todo)) /\ Only(Tail(todo), {"get", "update", "load"})
    BY <1>1, <2>9, TailInOrder, OnlyTail DEF Before, CallInv
  <2>11. CallInv(s)' /\ Allowed(s)'
    <3>1. CascadesFollow(session'[s].own, session'[s].gone, Tail(todo))
      BY <2>10, NoCascades
    <3>2. Deleting(s)' /\ Allowed(s)'
      BY <1>1, <2>5, StillDeleting
    <3> QED
      BY <2>3, <2>5, <2>10, <3>1, <3>2 DEF CallInv
  <2>12. ViewInv(s)'
    <3>1. SUFFICES ASSUME session[s].error = "none"
                   PROVE  /\ RefsAreThere((View(s) \ {old}) \cup {row}, Tail(todo))
                          /\ LinksAreThere((View(s) \ {old}) \cup {row}, Tail(todo))
                          /\ RefsAreLocked(own, shared, Tail(todo))
                          /\ LinksAreThere(own, Tail(todo))
      BY <2>3, <2>5, <2>8 DEF ViewInv
    <3>2. /\ RefsAreThere(View(s), todo) /\ LinksAreThere(View(s), todo)
          /\ RefsAreLocked(session[s].own, shared, todo)
          /\ LinksAreThere(session[s].own, todo)
      BY <3>1 DEF Before, ViewInv
    <3>3. \A stored : Keeping(stored, todo, (stored \ {old}) \cup {row}, Tail(todo))
      <4> HIDE DEF todo, row, old
      <4> SUFFICES ASSUME NEW stored, NEW next, next = (stored \ {old}) \cup {row}
                   PROVE  Keeping(stored, todo, next, Tail(todo))
        OBVIOUS
      <4>1. /\ Only(todo, {"get", "update", "load"}) /\ row \in AnyRow
            /\ row.table = "entities" /\ Key(old) = Key(row)
        BY <1>1, <2>4, <2>9
      <4> QED
        BY <4>1, UpdateKeepsRows
    <3> HIDE DEF todo, row, old, shared
    <3> QED
      BY <3>2, <3>3 DEF Keeping
  <2> QED
    BY <2>5, <2>7, <2>11, <2>12 DEF Kept, Before
<1> QED
  BY <1>2, <1>3, <1>4 DEF Update

\* A statement of a deletion that finds nothing to delete is done.
LEMMA DoneKeeps ==
  ASSUME NEW s \in Session, Before(s), session[s].todo # <<>>,
         Continue(s, session[s], <<>>), InOrder(Tail(session[s].todo)),
         Keeping(View(s), session[s].todo, View(s), Tail(session[s].todo)),
         Keeping(session[s].own, session[s].todo, session[s].own, Tail(session[s].todo))
  PROVE  Kept(s)
<1> DEFINE todo == session[s].todo
           own == session[s].own
           shared == session[s].shared
<1>1. todo \in Seq(Instruction)
  BY SessionIsHeld DEF Before
<1>2. <<>> \in Seq(Instruction) /\ <<>> \o Tail(todo) = Tail(todo)
      /\ Only(<<>>, {"get", "load", "delete", "cascade"})
  BY <1>1, TailOf, NothingPending
<1>3. /\ TypeInv' /\ OthersStay(s) /\ db' = db /\ HoldsAsBefore(s)
      /\ session'[s].error = session[s].error
      /\ session'[s].todo = <<>> \o Tail(todo)
      /\ session'[s].call \in {session[s].call, NoCall}
  BY <1>2, ContinueAsBefore DEF Before
<1>4. LockInv'
  BY <1>3, LocksOnStay DEF Before
<1>5. View(s)' = View(s)
  BY <1>3, SameView
<1>6. Deleting(s)' /\ Allowed(s)'
  BY <1>2, <1>3, StillDeleting
<1>7. session'[s].todo = Tail(todo)
  BY <1>2, <1>3
<1>8. CascadesFollow(own, session[s].gone, Tail(todo))
  BY <1>1, CascadesFollowTail DEF Before, CallInv
<1>9. CallInv(s)'
  BY <1>3, <1>6, <1>7, <1>8 DEF CallInv, HoldsAsBefore
<1>10. ViewInv(s)'
  <2>1. SUFFICES ASSUME session[s].error = "none"
                 PROVE  /\ RefsAreThere(View(s), Tail(todo)) /\ LinksAreThere(View(s), Tail(todo))
                        /\ RefsAreLocked(own, shared, Tail(todo)) /\ LinksAreThere(own, Tail(todo))
    BY <1>3, <1>5, <1>7 DEF ViewInv, HoldsAsBefore
  <2>2. /\ RefsAreThere(View(s), todo) /\ LinksAreThere(View(s), todo)
        /\ RefsAreLocked(own, shared, todo) /\ LinksAreThere(own, todo)
    BY <2>1 DEF Before, ViewInv
  <2> QED
    BY <2>2 DEF Keeping
<1> QED
  BY <1>3, <1>4, <1>6, <1>9, <1>10 DEF Kept, Before

\* A row that nobody else has written or locked is deleted, and the action of
\* the foreign keys remains to be done.
LEMMA RemoveKeeps ==
  ASSUME NEW s \in Session, Before(s), session[s].todo # <<>>,
         NEW key \in Keys(View(s)), \A t \in Session \ {s} : ~Locks(t, key),
         NEW more \in Seq(Instruction), Only(more, {"cascade"}),
         Continue(s, DeleteRow(s, key), more),
         InOrder(more \o Tail(session[s].todo)),
         \A i \in 1..Len(more) :
           Key(more[i].row) \in (session[s].gone \cup {key}) \ Keys(Lacking(session[s].own, key)),
         \A stored \in {View(s), session[s].own} :
           Keeping(stored, session[s].todo, Lacking(stored, key), more \o Tail(session[s].todo))
  PROVE  Kept(s)
<1> DEFINE todo == session[s].todo
           own == Lacking(session[s].own, key)
           gone == session[s].gone \cup {key}
           claims == session[s].claims
           shared == session[s].shared
           new == more \o Tail(todo)
<1>1. DeleteRow(s, key) = Holding(s, own, gone, claims, shared)
  <2>1. session[s] \in SessionType
    BY SessionIsHeld DEF Before
  <2> QED
    BY <2>1 DEF DeleteRow, Lacking, Holding, SessionType
<1>2. todo \in Seq(Instruction) /\ Tail(todo) \in Seq(Instruction)
  BY SessionIsHeld, TailOf DEF Before
<1>3. HeldType(own, gone, claims, shared)
  <2>1. HeldType(session[s].own, session[s].gone, claims, shared)
    BY SessionIsHeld DEF Held, Before
  <2>2. own \in SUBSET session[s].own
    BY DEF Lacking
  <2>3. IsFiniteSet(own)
    BY <2>1, <2>2, FS_Subset DEF HeldType
  <2>4. key \in AnyKey
    BY TypesOfHeld DEF Before
  <2> HIDE DEF own, claims, shared
  <2> QED
    BY <2>1, <2>2, <2>3, <2>4 DEF HeldType
<1>4. /\ TypeInv' /\ OthersStay(s) /\ db' = db
      /\ session'[s].own = own /\ session'[s].gone = gone
      /\ session'[s].claims = claims /\ session'[s].shared = shared
      /\ session'[s].error = session[s].error
      /\ session'[s].todo = new
      /\ session'[s].call \in {session[s].call, NoCall}
  <2>1. Continue(s, Holding(s, own, gone, claims, shared), more)
    BY <1>1
  <2> HIDE DEF own, claims, gone, shared
  <2> QED
    BY <1>3, <2>1, ContinueEffect DEF Before
<1>5. LockInv'
  <2>1. own = {r \in session[s].own : Key(r) # key}
    BY DEF Lacking
  <2> HIDE DEF own
  <2> QED
    BY <1>4, <2>1, LocksOnRemove DEF Before
<1>6. View(s)' = Lacking(View(s), key)
  <2>1. Keys(own) = Keys(session[s].own) \ {key}
    BY KeysLacking
  <2>2. View(s)' = {r \in db : Key(r) \notin gone \cup Keys(own)} \cup own
    BY <1>4 DEF View
  <2> QED
    BY <2>1, <2>2 DEF View, Lacking
<1>7. CascadesFollow(own, gone, new)
  <2>1. CascadesFollow(session[s].own, session[s].gone, Tail(todo))
    BY <1>2, CascadesFollowTail DEF Before, CallInv
  <2>2. CascadesFollow(own, gone, Tail(todo))
    BY <2>1, KeysLacking DEF CascadesFollow
  <2> HIDE DEF own, gone, todo
  <2>3. \A i \in 1..Len(more) : Key(more[i].row) \in gone \ Keys(own)
    BY DEF own, gone
  <2> QED
    BY <1>2, <2>2, <2>3, CascadesFollowJoined
<1>8. CallInv(s)' /\ Allowed(s)'
  <2>1. Only(more, {"get", "load", "delete", "cascade"})
    BY DEF Only
  <2>2. Deleting(s)' /\ Allowed(s)'
    BY <1>4, <2>1, StillDeleting
  <2> QED
    BY <1>4, <1>7, <2>2 DEF CallInv
<1>9. ViewInv(s)'
  <2>1. SUFFICES ASSUME session[s].error = "none"
                 PROVE  /\ RefsAreThere(Lacking(View(s), key), new)
                        /\ LinksAreThere(Lacking(View(s), key), new)
                        /\ RefsAreLocked(own, shared, new)
                        /\ LinksAreThere(own, new)
    BY <1>4, <1>6 DEF ViewInv
  <2>2. /\ RefsAreThere(View(s), todo) /\ LinksAreThere(View(s), todo)
        /\ RefsAreLocked(session[s].own, shared, todo)
        /\ LinksAreThere(session[s].own, todo)
    BY <2>1 DEF Before, ViewInv
  <2>3. /\ Keeping(View(s), todo, Lacking(View(s), key), new)
        /\ Keeping(session[s].own, todo, own, new)
    OBVIOUS
  <2> HIDE DEF todo, new, own, shared
  <2> QED
    BY <2>2, <2>3 DEF Keeping
<1> QED
  BY <1>4, <1>5, <1>8, <1>9 DEF Kept, Before

LEMMA DeleteKeeps ==
  ASSUME NEW s \in Session, Before(s), Delete(s)
  PROVE  Kept(s)
<1> DEFINE row == Statement(s).row
           todo == session[s].todo
           own == session[s].own
<1>1. /\ todo # <<>> /\ todo \in Seq(Instruction) /\ row \in AnyRow
      /\ todo[1] = Do("delete", row) /\ todo[1].do = "delete" /\ todo[1].row = row
  BY FirstStatement DEF Delete, Ready
<1>2. InOrder(todo) /\ Only(todo, {"delete", "cascade"})
  BY <1>1, MoodOfHead DEF Before, CallInv, InOrder
<1>3. InOrder(Tail(todo)) /\ Only(Tail(todo), {"delete", "cascade"})
  BY <1>1, <1>2, TailInOrder, OnlyTail
<1>4. row.table # "evidence"
  <2>1. 1 \in 1..Len(todo)
    BY <1>1
  <2> QED
    BY <1>1, <1>2, <2>1 DEF InOrder, Targets
<1>5. own \subseteq View(s) /\ View(s) \in SUBSET AnyRow /\ own \in SUBSET AnyRow
  <2>1. own \subseteq View(s)
    BY DEF View
  <2> QED
    BY <2>1, SessionIsHeld DEF Before
<1>6. CASE Key(row) \in Keys(View(s)) /\ Continue(s, DeleteRow(s, Key(row)), <<Do("cascade", row)>>)
  <2> DEFINE more == <<Do("cascade", row)>>
  <2>1. /\ Do("cascade", row) \in Instruction /\ Do("cascade", row).do = "cascade"
        /\ Do("cascade", row).row = row
    BY <1>1, DoOfRow DEF Kinds
  <2>2. /\ more \in Seq(Instruction) /\ Only(more, {"cascade"})
        /\ \A i \in 1..Len(more) : Key(more[i].row) = Key(row)
    BY <2>1 DEF Only
  <2>3. InOrder(more \o Tail(todo))
    <3>1. Tail(todo) \in Seq(Instruction)
      BY <1>1, TailOf
    <3> QED
      BY <1>3, <1>4, <2>1, <3>1, ConsInOrder
  <2>4. \A t \in Session \ {s} : ~Locks(t, Key(row))
    BY NotDelayed DEF Delete
  <2>5. ASSUME NEW stored \in SUBSET AnyRow
        PROVE  Keeping(stored, todo, Lacking(stored, Key(row)), more \o Tail(todo))
    <3> HIDE DEF todo, row
    <3> QED
      BY <1>1, <1>2, DeleteKeepsRows
  <2>6. Key(row) \notin Keys(Lacking(own, Key(row)))
    BY KeysLacking
  <2> HIDE DEF more
  <2>7. Continue(s, DeleteRow(s, Key(row)), more)
    BY <1>6 DEF more
  <2>8. \A i \in 1..Len(more) :
          Key(more[i].row) \in (session[s].gone \cup {Key(row)}) \ Keys(Lacking(own, Key(row)))
    BY <2>2, <2>6
  <2>9. \A stored \in {View(s), own} :
          Keeping(stored, todo, Lacking(stored, Key(row)), more \o Tail(todo))
    BY <1>5, <2>5
  <2> HIDE DEF row
  <2> QED
    BY <1>1, <1>6, <2>2, <2>3, <2>4, <2>7, <2>8, <2>9, RemoveKeeps
<1>7. CASE Key(row) \notin Keys(View(s)) /\ Continue(s, session[s], <<>>)
  <2>1. Key(row) \notin Keys(own)
    BY <1>5, <1>7 DEF Keys
  <2>2. ASSUME NEW stored, Key(row) \notin Keys(stored)
        PROVE  Keeping(stored, todo, stored, Tail(todo))
    <3> HIDE DEF todo, row
    <3> QED
      BY <1>1, <2>2, NoDeleteKeepsRows
  <2> QED
    BY <1>1, <1>3, <1>7, <2>1, <2>2, DoneKeeps
<1> QED
  BY <1>6, <1>7 DEF Delete

LEMMA CascadeKeeps ==
  ASSUME NEW s \in Session, Before(s), Cascade(s)
  PROVE  Kept(s)
<1> DEFINE row == Statement(s).row
           todo == session[s].todo
           own == session[s].own
           gone == session[s].gone
<1>1. /\ todo # <<>> /\ todo \in Seq(Instruction) /\ row \in AnyRow
      /\ todo[1] = Do("cascade", row) /\ todo[1].do = "cascade" /\ todo[1].row = row
  BY FirstStatement DEF Cascade, Ready
<1>2. InOrder(todo) /\ Only(todo, {"delete", "cascade"})
  BY <1>1, MoodOfHead DEF Before, CallInv, InOrder
<1>3. InOrder(Tail(todo)) /\ Only(Tail(todo), {"delete", "cascade"}) /\ Tail(todo) \in Seq(Instruction)
  BY <1>1, <1>2, TailInOrder, OnlyTail, TailOf
\* The row has gone, and is no evidence.
<1>4. row.table # "evidence" /\ Key(row) \in gone \ Keys(own)
  <2>1. 1 \in 1..Len(todo)
    BY <1>1
  <2> QED
    BY <1>1, <1>2, <2>1 DEF InOrder, Targets, Before, CallInv, CascadesFollow
<1>5. own \subseteq View(s) /\ View(s) \in SUBSET AnyRow /\ own \in SUBSET AnyRow
  <2>1. own \subseteq View(s)
    BY DEF View
  <2> QED
    BY <2>1, SessionIsHeld DEF Before
<1>6. \A stored \in {View(s), own} : Key(row) \notin Keys(stored)
  <2>1. Key(row) \notin Keys(View(s))
    BY <1>4 DEF View, Keys
  <2> QED
    BY <1>4, <2>1
<1>7. CASE Children(s, Key(row)) = {} /\ Continue(s, session[s], <<>>)
  <2>1. \A stored \in {View(s), own} : \A r \in stored : Key(row) \notin r.owners
    BY <1>5, <1>7 DEF Children
  <2>2. ASSUME NEW stored \in SUBSET AnyRow, \A r \in stored : Key(row) \notin r.owners
        PROVE  Keeping(stored, todo, stored, Tail(todo))
    <3> HIDE DEF todo, row
    <3> QED
      BY <1>1, <1>4, <2>2, NoCascadeKeepsRows
  <2>3. Keeping(View(s), todo, View(s), Tail(todo)) /\ Keeping(own, todo, own, Tail(todo))
    BY <1>5, <2>1, <2>2
  <2> QED
    BY <1>1, <1>3, <1>7, <2>3, DoneKeeps
<1>8. ASSUME NEW c \in Children(s, Key(row)),
             Continue(s, DeleteRow(s, Key(c)), <<Do("cascade", c), Do("cascade", row)>>)
      PROVE  Kept(s)
  <2> DEFINE more == <<Do("cascade", c), Do("cascade", row)>>
             x == Do("cascade", c)
             y == Do("cascade", row)
  <2>1. c \in View(s) /\ c \in AnyRow /\ Key(row) \in c.owners /\ Key(c) \in Keys(View(s))
    BY <1>5, <1>8, KeysHold DEF Children
  <2>2. c.table # "evidence"
    BY <2>1, EvidenceIsOwned
  <2>3. /\ x \in Instruction /\ x.do = "cascade" /\ x.row = c
        /\ y \in Instruction /\ y.do = "cascade" /\ y.row = row
    BY <1>1, <2>1, DoOfRow DEF Kinds
  <2>4. /\ more \in Seq(Instruction) /\ Only(more, {"cascade"})
        /\ \A i \in 1..Len(more) : Key(more[i].row) \in {Key(c), Key(row)}
    <3> HIDE DEF x, y
    <3>1. /\ <<x, y>> \in Seq(Instruction) /\ Len(<<x, y>>) = 2
          /\ <<x, y>>[1] = x /\ <<x, y>>[2] = y
      BY <2>3
    <3>2. \A i \in 1..Len(<<x, y>>) : i = 1 \/ i = 2
      BY <3>1
    <3>3. more = <<x, y>>
      BY DEF x, y
    <3> QED
      BY <2>3, <3>1, <3>2, <3>3 DEF Only
  <2>5. InOrder(more \o Tail(todo))
    <3> DEFINE rest == Tail(todo)
               q == <<y>> \o rest
    <3> HIDE DEF rest, x, y
    <3>1. rest \in Seq(Instruction) /\ InOrder(rest) /\ Only(rest, {"delete", "cascade"})
      BY <1>3 DEF rest
    <3>2. q \in Seq(Instruction) /\ InOrder(q)
      BY <1>4, <2>3, <3>1, ConsInOrder
    <3>3. Only(q, {"delete", "cascade"})
      <4>1. <<y>> \in Seq(Instruction) /\ Only(<<y>>, {"delete", "cascade"})
        BY <2>3 DEF Only
      <4> QED
        BY <3>1, <4>1, OnlyJoined
    <3>4. InOrder(<<x>> \o q)
      <4> HIDE DEF q
      <4> QED
        BY <2>2, <2>3, <3>2, <3>3, ConsInOrder
    <3>5. <<x>> \o (<<y>> \o rest) = <<x, y>> \o rest
      BY <2>3, <3>1, PairJoined
    <3> QED
      BY <3>4, <3>5 DEF rest, x, y
  <2>6. \A t \in Session \ {s} : ~Locks(t, Key(c))
    BY <1>8, NotDelayed DEF Cascade
  <2>7. ASSUME NEW stored \in SUBSET AnyRow, Key(row) \notin Keys(stored)
        PROVE  Keeping(stored, todo, Lacking(stored, Key(c)), more \o Tail(todo))
    <3> HIDE DEF todo, row
    <3> QED
      BY <1>1, <2>1, <2>7, CascadeKeepsRows
  <2>8. \A stored \in {View(s), own} :
          Keeping(stored, todo, Lacking(stored, Key(c)), more \o Tail(todo))
    BY <1>5, <1>6, <2>7
  <2> HIDE DEF more
  <2>9. Continue(s, DeleteRow(s, Key(c)), more)
    BY <1>8 DEF more
  <2>10. \A i \in 1..Len(more) :
           Key(more[i].row) \in (gone \cup {Key(c)}) \ Keys(Lacking(own, Key(c)))
    BY <1>4, <2>4, KeysLacking
  <2> HIDE DEF row
  <2> QED
    BY <1>1, <2>1, <2>4, <2>5, <2>6, <2>8, <2>9, <2>10, RemoveKeeps
<1> QED
  BY <1>7, <1>8 DEF Cascade, OnDelete

LEMMA CancelKeeps ==
  ASSUME NEW s \in Session, Before(s), Cancel(s)
  PROVE  Kept(s)
<1>1. GiveUp(s, "cancelled") /\ "cancelled" \in Errors \ {"none"}
  BY DEF Cancel, Errors
<1> QED
  BY <1>1, GiveUpKeeps

LEMMA VictimKeeps ==
  ASSUME NEW s \in Session, Before(s), DeadlockVictim(s)
  PROVE  Kept(s)
<1>1. Fail(s, "deadlock") /\ "deadlock" \in Errors \ {"none"}
  BY DEF DeadlockVictim, Errors
<1> QED
  BY <1>1, FailKeeps

\* A call begins, with the statements it has to do.
LEMMA CallKeeps ==
  ASSUME NEW s \in Session, Before(s), NEW call \in Calls[s], Call(s, call)
  PROVE  Kept(s)
<1> DEFINE new == [session[s] EXCEPT !.call = call, !.todo = Statements(call), !.calls = @ - 1]
<1>1. session[s] \in SessionType /\ IsFiniteSet(session[s].own) /\ session[s].calls \in Nat
  BY DEF Before, TypeInv, SessionType
<1>2. /\ session[s].todo = <<>> /\ session[s].error = "none" /\ session[s].calls > 0
      /\ SetSession(s, new)
  BY DEF Call
<1>3. /\ Statements(call) \in Seq(Instruction) /\ InOrder(Statements(call))
      /\ call.op = "delete" => Only(Statements(call), {"get", "load"})
      /\ Only(Statements(call), {"insert", "refer", "get", "update", "load"})
  BY StatementsInOrder
<1>4. call \in AnyCall
  BY DEF AnyCall
<1>5. session[s].calls - 1 \in Nat
  BY <1>1, <1>2
<1>6. new \in SessionType
  <2> DEFINE todo == Statements(call)
             calls == session[s].calls - 1
  <2>1. new = [session[s] EXCEPT !.call = call, !.todo = todo, !.calls = calls]
    BY <1>1 DEF SessionType
  <2>2. todo \in Seq(Instruction) /\ calls \in Nat
    BY <1>3, <1>5
  <2> HIDE DEF todo, calls, new
  <2> QED
    BY <1>1, <1>4, <2>1, <2>2 DEF SessionType
<1>7. /\ new.own = session[s].own /\ new.gone = session[s].gone
      /\ new.claims = session[s].claims /\ new.shared = session[s].shared
      /\ new.error = session[s].error /\ new.todo = Statements(call) /\ new.call = call
  BY <1>1 DEF SessionType
<1> HIDE DEF new
<1>8. TypeInv' /\ OthersStay(s) /\ db' = db /\ session'[s] = new
  BY <1>1, <1>2, <1>6, <1>7, SetSessionEffect DEF Before
<1>9. HoldsAsBefore(s)
  BY <1>7, <1>8 DEF HoldsAsBefore
<1>10. Deleting(s)' /\ Allowed(s)'
  BY <1>2, <1>3, <1>7, <1>8 DEF Deleting, Allowed, Only
<1>11. Only(session[s].todo, {"get", "update", "load"})
  BY <1>2, NothingPending
<1>12. /\ InOrder(session'[s].todo)
       /\ \E kinds : Only(session'[s].todo, kinds) /\ "cascade" \notin kinds
  BY <1>3, <1>7, <1>8
<1> QED
  BY <1>7, <1>8, <1>9, <1>10, <1>11, <1>12, ReadingKeeps

\* A transaction that begins sees what is committed.
LEMMA FreshView ==
  ASSUME NEW s \in Session, HoldsNothing(s), session'[s].todo = <<>>, Complete(db')
  PROVE  ViewInv(s)'
<1>1. View(s)' = db'
  BY DEF View, HoldsNothing, Keys
<1>2. RefsAreThere(db', <<>>) /\ LinksAreThere(db', <<>>)
  BY DEF RefsAreThere, LinksAreThere, Complete
<1>3. \A shared : RefsAreLocked({}, shared, <<>>)
  BY DEF RefsAreLocked
<1>4. LinksAreThere({}, <<>>)
  BY DEF LinksAreThere
<1> QED
  BY <1>1, <1>2, <1>3, <1>4 DEF ViewInv, HoldsNothing

LEMMA RollbackKeeps ==
  ASSUME NEW s \in Session, Before(s), EvidenceIsKept, Rollback(s)
  PROVE  Kept(s)
<1>1. db' = db /\ session' = [session EXCEPT ![s] = Ended(s)]
  BY DEF Rollback, SetSession
<1>2. PICK stored : stored = db
  OBVIOUS
<1>3. stored \in SUBSET AnyRow /\ IsFiniteSet(stored) /\ db' = stored
  BY <1>1, <1>2 DEF Before, TypeInv
<1>4. /\ TypeInv' /\ OthersStay(s) /\ HoldsNothing(s)
      /\ session'[s].error = "none"
      /\ session'[s].todo = <<>> /\ session'[s].call = NoCall
  BY <1>1, <1>3, EndedEffect DEF Before
<1>5. LockInv'
  BY <1>1, <1>4, LocksOnReset DEF Before
<1>6. CallInv(s)'
  BY <1>4, EmptyCall
<1>7. Complete(db')
  BY <1>1 DEF EvidenceIsKept
<1>8. ViewInv(s)'
  BY <1>4, <1>7, FreshView
<1>9. Allowed(s)'
  BY <1>4 DEF Allowed
<1> QED
  BY <1>1, <1>4, <1>5, <1>6, <1>8, <1>9 DEF Kept, Before

\* What is committed is complete, since nothing remains to be done.
LEMMA CommitCompletes ==
  ASSUME NEW s \in Session, Before(s), Commit(s)
  PROVE  /\ Before(s)' /\ OthersStay(s) /\ db' = View(s) /\ EvidenceIsKept'
         /\ RefsAreThere(View(s), <<>>) /\ LinksAreThere(View(s), <<>>)
         /\ RefsAreLocked(session[s].own, session[s].shared, <<>>)
         /\ LinksAreThere(session[s].own, <<>>)
<1>1. /\ session[s].todo = <<>> /\ session[s].error = "none" /\ db' = View(s)
      /\ session' = [session EXCEPT ![s] = Ended(s)]
  BY DEF Commit
<1>2. PICK stored : stored = View(s)
  OBVIOUS
<1>3. stored \in SUBSET AnyRow /\ IsFiniteSet(stored) /\ db' = stored
  BY <1>1, <1>2, SessionIsHeld DEF Before
<1>4. /\ TypeInv' /\ OthersStay(s) /\ HoldsNothing(s)
      /\ session'[s].error = "none"
      /\ session'[s].todo = <<>> /\ session'[s].call = NoCall
  BY <1>1, <1>3, EndedEffect DEF Before
<1>5. LockInv'
  BY <1>1, <1>4, LocksOnCommit DEF Before
<1>6. CallInv(s)'
  BY <1>4, EmptyCall
<1>7. /\ RefsAreThere(View(s), <<>>) /\ LinksAreThere(View(s), <<>>)
      /\ RefsAreLocked(session[s].own, session[s].shared, <<>>)
      /\ LinksAreThere(session[s].own, <<>>)
  BY <1>1 DEF Before, ViewInv
<1>8. Complete(db')
  BY <1>1, <1>7, NothingPending DEF RefsAreThere, LinksAreThere, Complete
<1>9. ViewInv(s)'
  BY <1>4, <1>8, FreshView
<1>10. Allowed(s)'
  BY <1>4 DEF Allowed
<1> QED
  BY <1>1, <1>4, <1>5, <1>6, <1>7, <1>8, <1>9, <1>10 DEF Before, EvidenceIsKept

-----------------------------------------------------------------------------
(***************************************************************************)
(* Each step of a session keeps the invariant of the others.               *)
(***************************************************************************)
\* What the locks do not say of a session.
OwnInv(t) == CallInv(t) /\ ViewInv(t) /\ Allowed(t)

LEMMA OthersKeep ==
  ASSUME NEW t \in Session, OwnInv(t), session'[t] = session[t], db' = db
  PROVE  OwnInv(t)'
<1>1. View(t)' = View(t)
  BY DEF View
<1>2. CallInv(t)' /\ Allowed(t)'
  BY DEF OwnInv, CallInv, Deleting, Allowed
<1>3. ViewInv(t)'
  BY <1>1 DEF OwnInv, ViewInv
<1> QED
  BY <1>2, <1>3 DEF OwnInv

\* What a transaction commits is no part of what another has written: what
\* that one refers to is still there, and what it deleted nobody refers to.
LEMMA CommitKeepsOthers ==
  ASSUME NEW s \in Session, Before(s), Commit(s),
         NEW t \in Session, t # s, OwnInv(t)
  PROVE  OwnInv(t)'
<1> DEFINE V == View(t)
           W == View(t)'
           R == View(s)
           todo == session[t].todo
           touched == session[t].gone \cup Keys(session[t].own)
<1>1. /\ TypeInv /\ LockInv /\ session'[t] = session[t] /\ db' = R
      /\ RefsAreThere(R, <<>>) /\ LinksAreThere(R, <<>>)
      /\ RefsAreLocked(session[s].own, session[s].shared, <<>>)
      /\ LinksAreThere(session[s].own, <<>>)
  BY CommitCompletes DEF Before, OthersStay
<1>2. CallInv(t)' /\ Allowed(t)'
  BY <1>1 DEF OwnInv, CallInv, Deleting, Allowed
<1>3. SUFFICES ASSUME session[t].error = "none"
               PROVE  RefsAreThere(W, todo) /\ LinksAreThere(W, todo)
  BY <1>1, <1>2 DEF ViewInv, OwnInv
<1>4. /\ RefsAreThere(V, todo) /\ LinksAreThere(V, todo)
      /\ RefsAreLocked(session[t].own, session[t].shared, todo)
      /\ LinksAreThere(session[t].own, todo)
  BY <1>3 DEF OwnInv, ViewInv
<1>5. /\ W = {r \in R : Key(r) \notin touched} \cup session[t].own
      /\ V = {r \in db : Key(r) \notin touched} \cup session[t].own
      /\ R \subseteq db \cup session[s].own
  BY <1>1 DEF View
<1>6. \A key \in Keys(R) : key \notin touched => key \in Keys(W)
  BY <1>5 DEF Keys
<1>7. \A key \in Keys(session[t].own) : key \in Keys(W)
  BY <1>5 DEF Keys
<1>8. \A key \in Keys(V) : key \in Keys(session[t].own) \/ (key \in Keys(db) /\ key \notin touched)
  BY <1>5 DEF Keys
\* What s has put there, t has not touched, unless it was there before.
<1>9. \A key \in Keys(session[s].own) : key \in touched => key \in Keys(db)
  <2> SUFFICES ASSUME NEW key \in Keys(session[s].own), key \in touched, key \notin Keys(db)
               PROVE  FALSE
    OBVIOUS
  <2>1. key \in session[s].claims
    BY <1>1, OwnKeysClaimed
  <2>2. key \in session[t].claims
    BY <1>1, OwnKeysClaimed DEF LockInv, Claimed
  <2> QED
    BY <1>1, <2>1, <2>2 DEF LockInv, Apart
<1>10. \A key \in Keys(session[s].own) : key \notin touched
  <2> SUFFICES ASSUME NEW key \in Keys(session[s].own), key \in touched
               PROVE  FALSE
    OBVIOUS
  <2>1. key \in Written(s) /\ key \in Written(t)
    BY <1>9 DEF Written
  <2> QED
    BY <1>1, <2>1 DEF LockInv, Apart
<1>11. \A r \in R : r \in session[s].own \/ r \in db
  BY <1>5
<1>12. ASSUME NEW r \in W, NEW key \in Refs(r)
       PROVE  \/ key \in Keys(W)
              \/ PendingRow(todo, "refer", r)
              \/ Pending(todo, "cascade", key)
  <2>1. CASE r \in session[t].own
    <3>1. r \in V
      BY <1>5, <2>1
    <3>2. \/ PendingRow(todo, "refer", r)
          \/ Pending(todo, "cascade", key)
          \/ key \in session[t].shared /\ key \in Keys(V)
      BY <1>4, <1>12, <2>1, <3>1 DEF RefsAreThere, RefsAreLocked
    <3>3. ASSUME key \in session[t].shared, key \in Keys(db), key \notin touched
          PROVE  key \in Keys(W)
      <4>1. key \notin session[s].gone
        BY <1>1, <3>3 DEF LockInv, Apart
      <4>2. CASE key \in Keys(session[s].own)
        <5>1. key \in Keys(R)
          BY <4>2 DEF View, Keys
        <5> QED
          BY <1>6, <3>3, <5>1
      <4>3. CASE key \notin Keys(session[s].own)
        <5>1. PICK q \in db : Key(q) = key
          BY <3>3, KeysHold
        <5>2. q \in R
          BY <4>1, <4>3, <5>1 DEF View
        <5>3. key \in Keys(R)
          BY <5>1, <5>2, KeysHold
        <5> QED
          BY <1>6, <3>3, <5>3
      <4> QED
        BY <4>2, <4>3
    <3> QED
      BY <1>7, <1>8, <3>2, <3>3
  <2>2. CASE r \in R /\ Key(r) \notin touched
    <3>1. key \in Keys(R)
      BY <1>1, <1>12, <2>2, NothingPending DEF RefsAreThere
    <3>2. CASE r \in session[s].own
      <4>1. key \in session[s].shared
        BY <1>1, <1>12, <3>2, NothingPending DEF RefsAreLocked
      <4>2. CASE key \in session[t].gone
        <5>1. key \notin Keys(db)
          BY <1>1, <4>1, <4>2 DEF LockInv, Apart
        <5>2. key \in Keys(session[s].own)
          BY <1>5, <3>1, <5>1 DEF Keys
        <5> QED
          BY <1>10, <4>2, <5>2
      <4> QED
        BY <1>6, <1>7, <3>1, <4>2
    <3>3. CASE r \in db
      <4>1. r \in V
        BY <1>5, <2>2, <3>3
      <4> QED
        BY <1>4, <1>6, <1>7, <1>8, <1>12, <3>1, <4>1 DEF RefsAreThere
    <3> QED
      BY <1>11, <2>2, <3>2, <3>3
  <2> QED
    BY <1>5, <2>1, <2>2
<1>13. ASSUME NEW r \in W, NEW n \in 1..Len(r.named)
       PROVE  \/ Link(r, r.named[n]) \in W
              \/ PendingRow(todo, "insert", Link(r, r.named[n]))
              \/ Pending(todo, "delete", Key(r))
  <2> DEFINE link == Link(r, r.named[n])
  <2>1. CASE r \in session[t].own
    BY <1>4, <1>5, <2>1 DEF LinksAreThere
  <2>2. CASE r \in R /\ Key(r) \notin touched
    <3>1. link \in R
      BY <1>1, <2>2, NothingPending DEF LinksAreThere
    <3>2. CASE r \in session[s].own
      <4>1. link \in session[s].own
        BY <1>1, <3>2, NothingPending DEF LinksAreThere
      <4>2. Key(link) \notin touched
        BY <1>10, <4>1, KeysHold
      <4> QED
        BY <1>5, <3>1, <4>2
    <3>3. CASE r \in db
      <4>1. r \in V
        BY <1>5, <2>2, <3>3
      <4>2. \/ link \in V
            \/ PendingRow(todo, "insert", link)
            \/ Pending(todo, "delete", Key(r))
        BY <1>4, <4>1 DEF LinksAreThere
      <4> QED
        BY <1>5, <3>1, <4>2
    <3> QED
      BY <1>11, <2>2, <3>2, <3>3
  <2> QED
    BY <1>5, <2>1, <2>2
<1> QED
  BY <1>12, <1>13 DEF RefsAreThere, LinksAreThere

-----------------------------------------------------------------------------
(***************************************************************************)
(* The invariant of all sessions.                                          *)
(***************************************************************************)
LEMMA InitInvariant ==
  ASSUME NEW situation \in Situations, TablesInit(situation)
  PROVE  IInv
<1>1. /\ db = situation.rows /\ situation.calls \in [Session -> Nat]
      /\ session = [s \in Session |-> NewSession(situation.calls[s])]
  BY SituationsAssumption DEF TablesInit
<1>2. /\ IsFiniteSet(db) /\ Distinct(db) /\ Complete(db)
  BY <1>1, SituationsAssumption
<1>3. db \in SUBSET AnyRow
  BY <1>1 DEF AnyRow, Given
<1>4. ASSUME NEW s \in Session
      PROVE  /\ session[s].own = {} /\ session[s].gone = {} /\ session[s].claims = {}
             /\ session[s].shared = {} /\ session[s].todo = <<>>
             /\ session[s].call = NoCall /\ session[s].error = "none"
             /\ session[s] \in SessionType
  <2>1. session[s] = [own |-> {}, gone |-> {}, claims |-> {}, shared |-> {}, todo |-> <<>>,
                      call |-> NoCall, error |-> "none", calls |-> situation.calls[s]]
    BY <1>1 DEF NewSession
  <2>2. situation.calls[s] \in Nat /\ NoCall \in AnyCall /\ "none" \in Errors
        /\ <<>> \in Seq(Instruction)
    BY <1>1 DEF AnyCall, Errors
  <2> QED
    BY <2>1, <2>2 DEF SessionType
<1>5. TypeInv
  <2>1. \A s \in Session : IsFiniteSet(session[s].own)
    BY <1>4, FS_EmptySet
  <2>2. session \in [Session -> SessionType]
    BY <1>1, <1>4
  <2> QED
    BY <1>2, <1>3, <2>1, <2>2 DEF TypeInv
<1>6. \A s \in Session : Written(s) = {} /\ View(s) = db
  BY <1>4 DEF Written, View, Keys
<1>7. Apart
  BY <1>4, <1>6 DEF Apart
<1>8. \A s \in Session : Claimed(s) /\ Distinct(session[s].own)
  BY <1>4 DEF Claimed, Distinct
<1>9. RefsAreThere(db, <<>>) /\ LinksAreThere(db, <<>>) /\ LinksAreThere({}, <<>>)
      /\ RefsAreLocked({}, {}, <<>>)
  BY <1>2 DEF RefsAreThere, LinksAreThere, RefsAreLocked, Complete
<1>10. \A s \in Session : CallInv(s)
  BY <1>4, NothingPending DEF CallInv, Deleting, NoCall, CascadesFollow
<1>11. \A s \in Session : ViewInv(s) /\ Allowed(s)
  BY <1>4, <1>6, <1>9 DEF ViewInv, Allowed
<1> QED
  BY <1>2, <1>5, <1>7, <1>8, <1>10, <1>11 DEF IInv, LockInv, EvidenceIsKept

LEMMA StepInvariant ==
  ASSUME IInv, NEW s \in Session,
         SessionStep(s) \/ (\E call \in Calls[s] : Call(s, call))
  PROVE  IInv'
<1>1. Before(s) /\ EvidenceIsKept /\ \A t \in Session : OwnInv(t)
  BY DEF IInv, Before, OwnInv
<1>2. CASE Kept(s)
  <2>1. Before(s)' /\ db' = db /\ \A t \in Session : t # s => session'[t] = session[t]
    BY <1>2 DEF Kept, OthersStay
  <2>2. \A t \in Session : t # s => OwnInv(t)'
    BY <1>1, <2>1, OthersKeep
  <2>3. EvidenceIsKept'
    BY <1>1, <2>1 DEF EvidenceIsKept
  <2> QED
    BY <2>1, <2>2, <2>3 DEF IInv, Before, OwnInv
<1>3. CASE Commit(s)
  <2>1. Before(s)' /\ EvidenceIsKept'
    BY <1>1, <1>3, CommitCompletes
  <2>2. \A t \in Session : t # s => OwnInv(t)'
    BY <1>1, <1>3, CommitKeepsOthers
  <2> QED
    BY <2>1, <2>2 DEF IInv, Before, OwnInv
<1>4. ASSUME NEW call \in Calls[s], Call(s, call)
      PROVE  Kept(s)
  BY <1>1, <1>4, CallKeeps
<1>5. CASE SessionStep(s)
  <2>1. Insert(s) => Kept(s)
    BY <1>1, InsertKeeps
  <2>2. Refer(s) => Kept(s)
    BY <1>1, ReferKeeps
  <2>3. Get(s) => Kept(s)
    BY <1>1, GetKeeps
  <2>4. Update(s) => Kept(s)
    BY <1>1, UpdateKeeps
  <2>5. Load(s) => Kept(s)
    BY <1>1, LoadKeeps
  <2>6. Delete(s) => Kept(s)
    BY <1>1, DeleteKeeps
  <2>7. Cascade(s) => Kept(s)
    BY <1>1, CascadeKeeps
  <2>8. Cancel(s) => Kept(s)
    BY <1>1, CancelKeeps
  <2>9. DeadlockVictim(s) => Kept(s)
    BY <1>1, VictimKeeps
  <2>10. Rollback(s) => Kept(s)
    BY <1>1, RollbackKeeps
  <2> QED
    BY <1>2, <1>3, <1>5, <2>1, <2>2, <2>3, <2>4, <2>5, <2>6, <2>7, <2>8, <2>9, <2>10
    DEF SessionStep
<1> QED
  BY <1>2, <1>4, <1>5

LEMMA StutterInvariant ==
  ASSUME IInv, UNCHANGED <<db, session>>
  PROVE  IInv'
<1>1. TypeInv' /\ EvidenceIsKept'
  BY DEF IInv, TypeInv, EvidenceIsKept
<1>2. LockInv'
  BY DEF IInv, LockInv, Apart, Claimed, Written
<1>3. \A t \in Session : OwnInv(t)'
  BY OthersKeep DEF IInv, OwnInv
<1> QED
  BY <1>1, <1>2, <1>3 DEF IInv, OwnInv


-----------------------------------------------------------------------------
(***************************************************************************)
(* The tables: the reader leaves them alone.                               *)
(***************************************************************************)
LEMMA TablesInvariant ==
  Spec => []IInv
<1>1. Init => IInv
  BY InitInvariant DEF Init
<1>2. IInv /\ [Next]_vars => IInv'
  <2> SUFFICES ASSUME IInv, [Next]_vars
               PROVE  IInv'
    OBVIOUS
  <2>1. CASE UNCHANGED tables
    BY <2>1, StutterInvariant DEF tables
  <2>2. CASE Write
    BY <2>2, StepInvariant DEF Write
  <2>3. [Next]_vars => Write \/ UNCHANGED tables
    BY DEF Next, vars, StartBuild, ProjectEntities, QueryRelationships,
           ProjectRelationships, FailBuild
  <2> QED
    BY <2>1, <2>2, <2>3
<1> QED
  BY <1>1, <1>2, PTL DEF Spec

(***************************************************************************)
(* Whatever sessions commit, the committed rows refer to committed rows    *)
(* only, and keep the evidence they were created with.                     *)
(***************************************************************************)
THEOREM Evidence ==
  Spec => []EvidenceIsKept
<1>1. IInv => EvidenceIsKept
  BY DEF IInv
<1> QED
  BY <1>1, TablesInvariant, PTL

(***************************************************************************)
(* The foreign keys never refuse a delete.                                 *)
(***************************************************************************)
THEOREM Deletion ==
  Spec => []DeletesAreNotRefused
<1>1. IInv => DeletesAreNotRefused
  BY DEF IInv, Allowed, DeletesAreNotRefused
<1> QED
  BY <1>1, TablesInvariant, PTL

-----------------------------------------------------------------------------
(***************************************************************************)
(* The store: what a loop over entities or relationships leaves in it.     *)
(* The folds are computed by induction over the subsets of a finite set.   *)
(***************************************************************************)
LEMMA SmallestSubset ==
  ASSUME NEW S, IsFiniteSet(S), NEW T, T \subseteq SUBSET S, T # {}
  PROVE  \E X \in T : \A x \in X : X \ {x} \notin T
<1> DEFINE R == StrictSubsetOrdering(S)
<1>1. IsWellFoundedOn(R, SUBSET S)
  BY FS_StrictSubsetOrderingWellFounded, FS_FiniteSubsetsOfFinite
<1> HIDE DEF R
<1>2. PICK X \in T : \A Y \in T : <<Y, X>> \notin R
  BY <1>1, WFMin
<1>3. ASSUME NEW x \in X, X \ {x} \in T
      PROVE  FALSE
  <2>1. <<X \ {x}, X>> \in R
    BY <1>3 DEF R, StrictSubsetOrdering
  <2> QED
    BY <1>2, <1>3, <2>1
<1> QED
  BY <1>3

LEMMA EntitiesAdded ==
  ASSUME NEW attributes, IsFiniteSet(DOMAIN attributes)
  PROVE  AddEntities(EmptyGraph, attributes) =
           [nodes |-> [n \in DOMAIN attributes |-> attributes[n]], edges |-> {}]
<1> DEFINE S == DOMAIN attributes
           Added(X) == [nodes |-> [n \in X |-> attributes[n]], edges |-> {}]
           any(X) == CHOOSE x \in X : TRUE
           Step(f, X) == IF X = {} THEN EmptyGraph
                         ELSE AddEntity(f[X \ {any(X)}], any(X), attributes[any(X)])
           iter == CHOOSE f : f = [X \in SUBSET S |-> Step(f, X)]
<1>1. AddEntities(EmptyGraph, attributes) = iter[S]
  BY DEF AddEntities, FoldSet, MapThenFoldSet
<1>2. \A X : X # {} => any(X) \in X
  OBVIOUS
<1> HIDE DEF any
<1>3. ASSUME NEW X, NEW id \in X
      PROVE  AddEntity(Added(X \ {id}), id, attributes[id]) = Added(X)
  <2> DEFINE g == Added(X \ {id})
             nodes == [n \in X |-> attributes[n]]
  <2>1. DOMAIN g.nodes = X \ {id} /\ \A n \in X \ {id} : g.nodes[n] = attributes[n]
    OBVIOUS
  <2>2. [n \in DOMAIN g.nodes \cup {id} |-> IF n = id THEN attributes[id] ELSE g.nodes[n]] = nodes
    BY <2>1
  <2>3. AddEntity(g, id, attributes[id]) = [g EXCEPT !.nodes = nodes]
    BY <2>2 DEF AddEntity
  <2> QED
    BY <2>3
\* The recursion has a solution, so iter is one.
<1>4. \E f : f = [X \in SUBSET S |-> Step(f, X)]
  <2> DEFINE f == [X \in SUBSET S |-> Added(X)]
  <2>1. ASSUME NEW X \in SUBSET S
        PROVE  Step(f, X) = Added(X)
    <3>1. CASE X = {}
      BY <3>1 DEF EmptyGraph
    <3>2. CASE X # {}
      <4>1. any(X) \in X /\ X \ {any(X)} \in SUBSET S
        BY <1>2, <3>2
      <4>2. f[X \ {any(X)}] = Added(X \ {any(X)})
        BY <4>1
      <4> QED
        BY <1>3, <3>2, <4>1, <4>2
    <3> QED
      BY <3>1, <3>2
  <2>2. f = [X \in SUBSET S |-> Step(f, X)]
    BY <2>1
  <2> QED
    BY <2>2
<1>5. iter = [X \in SUBSET S |-> Step(iter, X)]
  BY <1>4
<1> HIDE DEF iter
<1>6. SUFFICES ASSUME NEW T, T = {X \in SUBSET S : iter[X] # Added(X)}, T # {}
               PROVE  FALSE
  <2>1. {X \in SUBSET S : iter[X] # Added(X)} = {}
    BY <1>6
  <2>2. iter[S] = Added(S)
    BY <2>1
  <2> QED
    BY <1>1, <2>2
<1>7. PICK X \in T : \A x \in X : X \ {x} \notin T
  <2>1. T \subseteq SUBSET S
    BY <1>6
  <2> QED
    BY <1>6, <2>1, SmallestSubset
<1>8. X \in SUBSET S /\ iter[X] # Added(X) /\ iter[X] = Step(iter, X)
  BY <1>5, <1>6
<1>9. CASE X = {}
  BY <1>8, <1>9 DEF EmptyGraph
<1>10. CASE X # {}
  <2>1. any(X) \in X /\ X \ {any(X)} \in SUBSET S
    BY <1>2, <1>8, <1>10
  <2>2. iter[X \ {any(X)}] = Added(X \ {any(X)})
    BY <1>6, <1>7, <2>1
  <2> QED
    BY <1>3, <1>8, <1>10, <2>1, <2>2
<1> QED
  BY <1>9, <1>10

\* A graph with nodes of which some may have no attributes.
Grown(nodes, D, edges) ==
  [nodes |-> [n \in D |-> IF n \in DOMAIN nodes THEN nodes[n] ELSE Bare], edges |-> edges]

LEMMA NodeEnsured ==
  ASSUME NEW nodes, NEW D, DOMAIN nodes \subseteq D, NEW edges, NEW id
  PROVE  EnsureNode(Grown(nodes, D, edges), id) = Grown(nodes, D \cup {id}, edges)
<1> DEFINE g == Grown(nodes, D, edges)
           more == [n \in D \cup {id} |-> IF n \in DOMAIN nodes THEN nodes[n] ELSE Bare]
<1>1. /\ g = [nodes |-> g.nodes, edges |-> edges] /\ DOMAIN g.nodes = D
      /\ \A n \in D : g.nodes[n] = IF n \in DOMAIN nodes THEN nodes[n] ELSE Bare
  BY DEF Grown
<1>2. CASE id \in D
  <2>1. D \cup {id} = D
    BY <1>2
  <2> QED
    BY <1>1, <1>2, <2>1 DEF EnsureNode, HasNode
<1>3. CASE id \notin D
  <2>1. [n \in DOMAIN g.nodes \cup {id} |-> IF n = id THEN Bare ELSE g.nodes[n]] = more
    BY <1>1, <1>3
  <2>2. AddEntity(g, id, Bare) = [g EXCEPT !.nodes = more]
    BY <2>1 DEF AddEntity
  <2> QED
    BY <1>1, <1>3, <2>2 DEF EnsureNode, HasNode, Grown
<1> QED
  BY <1>2, <1>3

LEMMA RelationshipAdded ==
  ASSUME NEW nodes, NEW D, DOMAIN nodes \subseteq D, NEW edges, NEW e
  PROVE  AddRelationship(Grown(nodes, D, edges), e) =
           Grown(nodes, D \cup {e.source, e.target}, {f \in edges : ~SameEdge(f, e)} \cup {e})
<1> DEFINE all == D \cup {e.source, e.target}
           h == EnsureNode(EnsureNode(Grown(nodes, D, edges), e.source), e.target)
<1>1. h = Grown(nodes, (D \cup {e.source}) \cup {e.target}, edges)
  <2> DEFINE D1 == D \cup {e.source}
  <2>1. EnsureNode(Grown(nodes, D, edges), e.source) = Grown(nodes, D1, edges)
    BY NodeEnsured
  <2>2. DOMAIN nodes \subseteq D1
    OBVIOUS
  <2> HIDE DEF D1
  <2>3. EnsureNode(Grown(nodes, D1, edges), e.target) = Grown(nodes, D1 \cup {e.target}, edges)
    BY <2>2, NodeEnsured
  <2> QED
    BY <2>1, <2>3 DEF D1
<1>2. (D \cup {e.source}) \cup {e.target} = all
  OBVIOUS
<1>3. h = Grown(nodes, all, edges) /\ h.edges = edges
  BY <1>1, <1>2 DEF Grown
<1>4. AddRelationship(Grown(nodes, D, edges), e) =
        [h EXCEPT !.edges = {f \in h.edges : ~SameEdge(f, e)} \cup {e}]
  BY DEF AddRelationship
<1> HIDE DEF all, h
<1> QED
  BY <1>3, <1>4 DEF Grown, all

Ends(edges) == UNION {{e.source, e.target} : e \in edges}

LEMMA RelationshipsAdded ==
  ASSUME NEW nodes, NEW edges, IsFiniteSet(edges),
         \A e, f \in edges : SameEdge(e, f) => e = f
  PROVE  AddRelationships(Grown(nodes, DOMAIN nodes, {}), edges) =
           Grown(nodes, DOMAIN nodes \cup Ends(edges), edges)
<1> DEFINE base == Grown(nodes, DOMAIN nodes, {})
           Added(X) == Grown(nodes, DOMAIN nodes \cup Ends(X), X)
           any(X) == CHOOSE x \in X : TRUE
           Step(g, X) == IF X = {} THEN base ELSE AddRelationship(g[X \ {any(X)}], any(X))
           iter == CHOOSE g : g = [X \in SUBSET edges |-> Step(g, X)]
<1>1. AddRelationships(base, edges) = iter[edges]
  BY DEF AddRelationships, FoldSet, MapThenFoldSet
<1>2. \A X : X # {} => any(X) \in X
  OBVIOUS
<1> HIDE DEF any
<1>3. ASSUME NEW X \in SUBSET edges, NEW e \in X
      PROVE  AddRelationship(Added(X \ {e}), e) = Added(X)
  <2>1. {f \in X \ {e} : ~SameEdge(f, e)} \cup {e} = X
    OBVIOUS
  <2>2. Ends(X) = Ends(X \ {e}) \cup {e.source, e.target}
    BY DEF Ends
  <2>3. (DOMAIN nodes \cup Ends(X \ {e})) \cup {e.source, e.target} = DOMAIN nodes \cup Ends(X)
    BY <2>2
  <2>4. AddRelationship(Added(X \ {e}), e) =
          Grown(nodes, (DOMAIN nodes \cup Ends(X \ {e})) \cup {e.source, e.target},
                {f \in X \ {e} : ~SameEdge(f, e)} \cup {e})
    <3> DEFINE D == DOMAIN nodes \cup Ends(X \ {e})
               Y == X \ {e}
    <3>1. DOMAIN nodes \subseteq D
      OBVIOUS
    <3> HIDE DEF D, Y
    <3>2. AddRelationship(Grown(nodes, D, Y), e) =
            Grown(nodes, D \cup {e.source, e.target}, {f \in Y : ~SameEdge(f, e)} \cup {e})
      BY <3>1, RelationshipAdded
    <3> QED
      BY <3>2 DEF D, Y
  <2> QED
    BY <2>1, <2>3, <2>4
<1>4. Added({}) = base
  <2>1. DOMAIN nodes \cup Ends({}) = DOMAIN nodes
    BY DEF Ends
  <2> QED
    BY <2>1
<1> HIDE DEF base, Added
<1>5. \E g : g = [X \in SUBSET edges |-> Step(g, X)]
  <2> DEFINE g == [X \in SUBSET edges |-> Added(X)]
  <2>1. ASSUME NEW X \in SUBSET edges
        PROVE  Step(g, X) = Added(X)
    <3>1. CASE X = {}
      BY <1>4, <3>1
    <3>2. CASE X # {}
      <4>1. any(X) \in X /\ X \ {any(X)} \in SUBSET edges
        BY <1>2, <3>2
      <4>2. g[X \ {any(X)}] = Added(X \ {any(X)})
        BY <4>1
      <4> QED
        BY <1>3, <3>2, <4>1, <4>2
    <3> QED
      BY <3>1, <3>2
  <2>2. g = [X \in SUBSET edges |-> Step(g, X)]
    BY <2>1
  <2> QED
    BY <2>2
<1>6. iter = [X \in SUBSET edges |-> Step(iter, X)]
  BY <1>5
<1> HIDE DEF iter
<1>7. SUFFICES ASSUME NEW T, T = {X \in SUBSET edges : iter[X] # Added(X)}, T # {}
               PROVE  FALSE
  <2>1. {X \in SUBSET edges : iter[X] # Added(X)} = {}
    BY <1>7
  <2>2. iter[edges] = Added(edges)
    BY <2>1
  <2> QED
    BY <1>1, <2>2 DEF base, Added
<1>8. PICK X \in T : \A x \in X : X \ {x} \notin T
  <2>1. T \subseteq SUBSET edges
    BY <1>7
  <2> QED
    BY <1>7, <2>1, SmallestSubset
<1>9. X \in SUBSET edges /\ iter[X] # Added(X) /\ iter[X] = Step(iter, X)
  BY <1>6, <1>7
<1>10. CASE X = {}
  BY <1>4, <1>9, <1>10
<1>11. CASE X # {}
  <2>1. any(X) \in X /\ X \ {any(X)} \in SUBSET edges
    BY <1>2, <1>9, <1>11
  <2>2. iter[X \ {any(X)}] = Added(X \ {any(X)})
    BY <1>7, <1>8, <2>1
  <2> QED
    BY <1>3, <1>9, <1>11, <2>1, <2>2
<1> QED
  BY <1>10, <1>11

-----------------------------------------------------------------------------
(***************************************************************************)
(* The reader: its store is made of three committed states of the build.   *)
(***************************************************************************)
Snapshot(d) == d \in SUBSET AnyRow /\ IsFiniteSet(d) /\ Distinct(d) /\ Complete(d)

Edges(d, e) == {EdgeOf(r, LinksOf(e, r)) : r \in RelationsOf(d)}

\* What a build makes of the entities, the relationships and the links that
\* it reads at three moments.
Torn(d1, d2, d3) ==
  Grown(Attributes(d1), EntitiesOf(d1) \cup Ends(Edges(d2, d3)), Edges(d2, d3))

ReadInv ==
  /\ IsFiniteSet(seen) /\ \A d \in seen : Snapshot(d)
  /\ Building => db \in seen
  /\ phase = "cleared" => graph = EmptyGraph
  /\ phase \in {"nodes", "rows"} =>
       \E d \in seen : graph = [nodes |-> Attributes(d), edges |-> {}]
  /\ phase = "rows" => \E d \in seen : rows = RelationsOf(d)
  /\ phase = "built" => \E d1, d2, d3 \in seen : graph = Torn(d1, d2, d3)

LEMMA SnapshotIsTaken ==
  ASSUME IInv
  PROVE  Snapshot(db)
BY DEF IInv, TypeInv, LockInv, EvidenceIsKept, Snapshot

\* Relationships have ids of their own, and entities at their ends.
LEMMA RelationsOfSnapshot ==
  ASSUME NEW d, Snapshot(d)
  PROVE  /\ \A q, r \in RelationsOf(d) : q.id = r.id => q = r
         /\ \A r \in RelationsOf(d) : r.value[1] \in EntitiesOf(d) /\ r.value[2] \in EntitiesOf(d)
<1>1. ASSUME NEW q \in RelationsOf(d), NEW r \in RelationsOf(d), q.id = r.id
      PROVE  q = r
  <2>1. q \in d /\ r \in d /\ q \in AnyRow /\ r \in AnyRow /\ Key(q) = Key(r)
    BY <1>1 DEF RelationsOf, In, Key, Snapshot
  <2>2. Key(q) \in q.unique /\ Key(r) \in r.unique
    BY <2>1, KeyOfRow
  <2> QED
    BY <2>1, <2>2 DEF Snapshot, Distinct
<1>2. ASSUME NEW r \in RelationsOf(d), NEW v, <<"entities", v>> \in r.owners
      PROVE  v \in EntitiesOf(d)
  <2>1. <<"entities", v>> \in Keys(d)
    BY <1>2 DEF RelationsOf, In, Snapshot, Complete, Refs
  <2>2. PICK q \in d : Key(q) = <<"entities", v>>
    BY <2>1, KeysHold
  <2>3. q.table = "entities" /\ q.id = v
    BY <2>2 DEF Key
  <2> QED
    BY <2>3 DEF EntitiesOf, In
<1>3. ASSUME NEW r \in RelationsOf(d)
      PROVE  r.owners = {<<"entities", r.value[1]>>, <<"entities", r.value[2]>>}
  BY RowsAreWellFormed DEF RelationsOf, In, Snapshot, WellFormed
<1> QED
  BY <1>1, <1>2, <1>3

LEMMA EdgesOfSnapshot ==
  ASSUME NEW d, Snapshot(d), NEW e
  PROVE  /\ IsFiniteSet(Edges(d, e)) /\ IsFiniteSet(EntitiesOf(d))
         /\ \A x, y \in Edges(d, e) : x.id = y.id => x = y
         /\ Ends(Edges(d, e)) \subseteq EntitiesOf(d)
<1>1. IsFiniteSet(RelationsOf(d)) /\ IsFiniteSet(In(d, "entities"))
  <2>1. RelationsOf(d) \subseteq d /\ In(d, "entities") \subseteq d
    BY DEF RelationsOf, In
  <2> QED
    BY <2>1, FS_Subset DEF Snapshot
<1>2. IsFiniteSet(Edges(d, e)) /\ IsFiniteSet(EntitiesOf(d))
  <2>1. IsFiniteSet({EdgeOf(r, LinksOf(e, r)) : r \in RelationsOf(d)})
    <3> DEFINE f == [r \in RelationsOf(d) |-> EdgeOf(r, LinksOf(e, r))]
    <3>1. f \in Surjection(RelationsOf(d), Edges(d, e))
      BY DEF Surjection, Edges
    <3> QED
      BY <1>1, <3>1, FS_Surjection DEF Edges
  <2>2. IsFiniteSet({r.id : r \in In(d, "entities")})
    <3> DEFINE f == [r \in In(d, "entities") |-> r.id]
    <3>1. f \in Surjection(In(d, "entities"), EntitiesOf(d))
      BY DEF Surjection, EntitiesOf
    <3> QED
      BY <1>1, <3>1, FS_Surjection DEF EntitiesOf
  <2> QED
    BY <2>1, <2>2 DEF Edges, EntitiesOf
<1>3. ASSUME NEW x \in Edges(d, e), NEW y \in Edges(d, e), x.id = y.id
      PROVE  x = y
  <2>1. PICK q \in RelationsOf(d) : x = EdgeOf(q, LinksOf(e, q))
    BY DEF Edges
  <2>2. PICK r \in RelationsOf(d) : y = EdgeOf(r, LinksOf(e, r))
    BY DEF Edges
  <2>3. q.id = r.id
    BY <1>3, <2>1, <2>2 DEF EdgeOf
  <2> QED
    BY <2>1, <2>2, <2>3, RelationsOfSnapshot
<1>4. ASSUME NEW x \in Edges(d, e)
      PROVE  x.source \in EntitiesOf(d) /\ x.target \in EntitiesOf(d)
  <2>1. PICK q \in RelationsOf(d) : x = EdgeOf(q, LinksOf(e, q))
    BY DEF Edges
  <2>2. x.source = q.value[1] /\ x.target = q.value[2]
    BY <2>1 DEF EdgeOf
  <2> QED
    BY <2>2, RelationsOfSnapshot
<1> QED
  BY <1>2, <1>3, <1>4 DEF Ends

LEMMA EntitiesProjected ==
  ASSUME NEW d, Snapshot(d)
  PROVE  AddEntities(EmptyGraph, Attributes(d)) = [nodes |-> Attributes(d), edges |-> {}]
<1>1. DOMAIN Attributes(d) = EntitiesOf(d)
  BY DEF Attributes
<1>2. Attributes(d) = [n \in DOMAIN Attributes(d) |-> Attributes(d)[n]]
  BY DEF Attributes
<1> QED
  BY <1>1, <1>2, EdgesOfSnapshot, EntitiesAdded

LEMMA RelationshipsProjected ==
  ASSUME NEW d1, NEW d2, NEW d3, Snapshot(d2)
  PROVE  AddRelationships([nodes |-> Attributes(d1), edges |-> {}], Edges(d2, d3)) =
           Torn(d1, d2, d3)
<1> DEFINE nodes == Attributes(d1)
           edges == Edges(d2, d3)
<1>1. DOMAIN nodes = EntitiesOf(d1) /\ nodes = [n \in DOMAIN nodes |-> nodes[n]]
  BY DEF Attributes
<1>2. IsFiniteSet(edges) /\ \A e, f \in edges : SameEdge(e, f) => e = f
  BY EdgesOfSnapshot DEF SameEdge
<1>3. Torn(d1, d2, d3) = Grown(nodes, EntitiesOf(d1) \cup Ends(edges), edges)
  BY DEF Torn
<1> HIDE DEF nodes, edges
<1>4. Grown(nodes, DOMAIN nodes, {}) = [nodes |-> nodes, edges |-> {}]
  BY <1>1 DEF Grown
<1>5. AddRelationships(Grown(nodes, DOMAIN nodes, {}), edges) =
        Grown(nodes, DOMAIN nodes \cup Ends(edges), edges)
  BY <1>2, RelationshipsAdded
<1> QED
  BY <1>1, <1>3, <1>4, <1>5 DEF nodes, edges

LEMMA ReaderInvariant ==
  Spec => []ReadInv
<1>1. Init => ReadInv
  <2> SUFFICES ASSUME Init
               PROVE  ReadInv
    OBVIOUS
  <2>1. phase \in {"idle", "later"} /\ seen = {}
    BY ReaderAssumption DEF Init
  <2> QED
    BY <2>1, FS_EmptySet DEF ReadInv, Building
<1>2. IInv /\ IInv' /\ ReadInv /\ [Next]_vars => ReadInv'
  <2> SUFFICES ASSUME IInv, IInv', ReadInv, [Next]_vars
               PROVE  ReadInv'
    OBVIOUS
  <2>0. Snapshot(db) /\ Snapshot(db')
    <3>1. Snapshot(db)
      BY SnapshotIsTaken
    <3>2. Snapshot(db')
      BY DEF IInv, TypeInv, LockInv, EvidenceIsKept, Snapshot
    <3> QED
      BY <3>1, <3>2
  <2>1. CASE Write
    <3>1. UNCHANGED reader /\ seen' \in {seen, seen \cup {db'}}
          /\ (Building => db' \in seen')
      BY <2>1 DEF Write, ReadInv
    <3>2. IsFiniteSet(seen') /\ \A d \in seen' : Snapshot(d)
      BY <2>0, <3>1, FS_AddElement DEF ReadInv
    <3> QED
      BY <3>1, <3>2 DEF ReadInv, reader, Building
  <2>2. CASE StartBuild
    <3>1. phase' = "cleared" /\ seen' = {db} /\ graph' = EmptyGraph /\ db' = db
      BY <2>2 DEF StartBuild, tables
    <3> QED
      BY <2>0, <3>1, FS_Singleton DEF ReadInv, Building
  <2>3. CASE ProjectEntities
    <3>1. /\ phase = "cleared" /\ phase' = "nodes" /\ seen' = seen /\ db' = db
          /\ graph' = AddEntities(graph, Attributes(db))
      BY <2>3 DEF ProjectEntities, tables
    <3>2. graph' = [nodes |-> Attributes(db), edges |-> {}] /\ db \in seen
      BY <2>0, <3>1, EntitiesProjected DEF ReadInv, Building
    <3> QED
      BY <3>1, <3>2 DEF ReadInv, Building
  <2>4. CASE QueryRelationships
    <3>1. /\ phase = "nodes" /\ phase' = "rows" /\ seen' = seen /\ db' = db
          /\ graph' = graph /\ rows' = RelationsOf(db)
      BY <2>4 DEF QueryRelationships, tables
    <3> QED
      BY <3>1 DEF ReadInv, Building
  <2>5. CASE ProjectRelationships
    <3>1. /\ phase = "rows" /\ phase' = "built" /\ seen' = seen /\ db' = db
          /\ graph' = AddRelationships(graph, {EdgeOf(r, LinksOf(db, r)) : r \in rows})
      BY <2>5 DEF ProjectRelationships, tables
    <3>2. PICK d1 \in seen : graph = [nodes |-> Attributes(d1), edges |-> {}]
      BY <3>1 DEF ReadInv
    <3>3. PICK d2 \in seen : rows = RelationsOf(d2)
      BY <3>1 DEF ReadInv
    <3>4. {EdgeOf(r, LinksOf(db, r)) : r \in rows} = Edges(d2, db)
      BY <3>3 DEF Edges
    <3>5. Snapshot(d2) /\ db \in seen
      BY <3>1 DEF ReadInv, Building
    <3>6. graph' = Torn(d1, d2, db)
      BY <3>1, <3>2, <3>4, <3>5, RelationshipsProjected
    <3> QED
      BY <3>1, <3>5, <3>6 DEF ReadInv, Building
  <2>6. CASE FailBuild
    <3>1. phase' = "failed" /\ seen' = seen
      BY <2>6 DEF FailBuild
    <3> QED
      BY <3>1 DEF ReadInv, Building
  <2>7. CASE UNCHANGED vars
    BY <2>7 DEF vars, tables, reader, ReadInv, Building
  <2> QED
    BY <2>1, <2>2, <2>3, <2>4, <2>5, <2>6, <2>7 DEF Next
<1> QED
  BY <1>1, <1>2, TablesInvariant, PTL DEF Spec

-----------------------------------------------------------------------------
(***************************************************************************)
(* What the store says of the tables.                                      *)
(***************************************************************************)
LEMMA TornOnce ==
  ASSUME NEW d, Snapshot(d)
  PROVE  Torn(d, d, d) = Project(d)
<1>1. EntitiesOf(d) \cup Ends(Edges(d, d)) = EntitiesOf(d)
  BY EdgesOfSnapshot
<1>2. DOMAIN Attributes(d) = EntitiesOf(d)
      /\ Attributes(d) = [n \in EntitiesOf(d) |-> Attributes(d)[n]]
  BY DEF Attributes
<1>3. Torn(d, d, d) = [nodes |-> Attributes(d), edges |-> Edges(d, d)]
  <2> DEFINE nodes == Attributes(d)
  <2> HIDE DEF nodes
  <2>1. Grown(nodes, EntitiesOf(d), Edges(d, d)) = [nodes |-> nodes, edges |-> Edges(d, d)]
    BY <1>2 DEF Grown, nodes
  <2> QED
    BY <1>1, <2>1 DEF Torn, nodes
<1> QED
  BY <1>3 DEF Project, Edges

LEMMA BuiltOfOne ==
  ASSUME ReadInv, Projected, NEW d, seen = {d}
  PROVE  graph = Project(d) /\ Snapshot(d)
<1>1. Snapshot(d)
  BY DEF ReadInv
<1>2. graph = Torn(d, d, d)
  BY DEF ReadInv, Projected
<1> QED
  BY <1>1, <1>2, TornOnce

(***************************************************************************)
(* A build during which nothing is committed is exact.                     *)
(***************************************************************************)
THEOREM Exactness ==
  Spec => []QuietBuildIsExact
<1>1. ReadInv => QuietBuildIsExact
  <2> SUFFICES ASSUME ReadInv, Projected, Cardinality(seen) = 1
               PROVE  graph \in {Project(d) : d \in seen}
    BY DEF QuietBuildIsExact
  <2>1. PICK d : seen = {d}
    BY FS_Singleton DEF ReadInv
  <2> QED
    BY <2>1, BuiltOfOne
<1> QED
  BY <1>1, ReaderInvariant, PTL

(***************************************************************************)
(* A build that races commits has every fact that was there throughout,    *)
(* and none that never was.                                                *)
(***************************************************************************)
THEOREM Stability ==
  Spec => []StableFactsAreProjected
<1>1. ReadInv => StableFactsAreProjected
  <2> SUFFICES ASSUME ReadInv, Projected
               PROVE  StableFactsAreProjected
    BY DEF StableFactsAreProjected
  <2>1. PICK d1 \in seen, d2 \in seen, d3 \in seen : graph = Torn(d1, d2, d3)
    BY DEF ReadInv, Projected
  <2>2. Snapshot(d2)
    BY DEF ReadInv
  <2>3. /\ DOMAIN graph.nodes = EntitiesOf(d1) \cup Ends(Edges(d2, d3))
        /\ \A n \in EntitiesOf(d1) : graph.nodes[n] = Attributes(d1)[n]
        /\ graph.edges = Edges(d2, d3)
    <3>1. DOMAIN Attributes(d1) = EntitiesOf(d1)
      BY DEF Attributes
    <3> QED
      BY <2>1, <3>1 DEF Torn, Grown
  <2>4. \A n \in DOMAIN graph.nodes : \E d \in seen : n \in EntitiesOf(d)
    BY <2>2, <2>3, EdgesOfSnapshot
  <2>5. ASSUME NEW e, \A d \in seen : e \in EntitiesOf(d)
        PROVE  HasNode(graph, e) /\ \E d \in seen : graph.nodes[e] = Attributes(d)[e]
    BY <2>3, <2>5 DEF HasNode
  <2>6. ASSUME NEW f \in graph.edges
        PROVE  \E d \in seen : \E r \in RelationsOf(d) : f = EdgeOf(r, f.evidence)
    <3>1. PICK r \in RelationsOf(d2) : f = EdgeOf(r, LinksOf(d3, r))
      BY <2>3 DEF Edges
    <3>2. f = EdgeOf(r, f.evidence)
      BY <3>1 DEF EdgeOf
    <3> QED
      BY <3>2
  <2>7. ASSUME NEW r \in UNION {RelationsOf(d) : d \in seen}, \A d \in seen : r \in d
        PROVE  \E f \in graph.edges :
                 /\ f = EdgeOf(r, f.evidence)
                 /\ \A ev \in (UNION {LinksOf(d, r) : d \in seen}) \cup f.evidence :
                      /\ (\A d \in seen : ev \in LinksOf(d, r)) => ev \in f.evidence
                      /\ ev \in f.evidence => \E d \in seen : ev \in LinksOf(d, r)
    <3> DEFINE f == EdgeOf(r, LinksOf(d3, r))
    <3>1. r \in RelationsOf(d2)
      BY <2>7 DEF RelationsOf, In
    <3>2. f \in graph.edges
      BY <2>3, <3>1 DEF Edges
    <3>3. f.evidence = LinksOf(d3, r) /\ f = EdgeOf(r, f.evidence)
      BY DEF EdgeOf
    <3> HIDE DEF f
    <3> QED
      BY <3>2, <3>3
  <2> QED
    BY <2>4, <2>5, <2>6, <2>7 DEF StableFactsAreProjected
<1> QED
  BY <1>1, ReaderInvariant, PTL

\* Without a relationship and its links, the tables say the same of the rest.
LEMMA ProjectWithout ==
  ASSUME NEW d, Snapshot(d), NEW r \in RelationsOf(d)
  PROVE  /\ Attributes(Without(d, r)) = Attributes(d)
         /\ RelationsOf(Without(d, r)) = RelationsOf(d) \ {r}
         /\ \A q \in RelationsOf(d) \ {r} : LinksOf(Without(d, r), q) = LinksOf(d, q)
<1> DEFINE w == Without(d, r)
<1>1. r \in d /\ r.table = "relationships" /\ Key(r) = <<"relationships", r.id>>
  BY DEF RelationsOf, In, Key
<1>2. \A q \in d : WellFormed(q)
  BY RowsAreWellFormed DEF Snapshot
<1>3. In(w, "entities") = In(d, "entities")
  <2>1. ASSUME NEW q \in In(d, "entities")
        PROVE  q \in w
    <3>1. q \in d /\ q.table = "entities" /\ q.owners = {}
      BY <1>2, <2>1 DEF In, WellFormed, Refs
    <3> QED
      BY <1>1, <3>1 DEF Without
  <2> QED
    BY <2>1 DEF In, Without
<1>4. In(w, "evidence") = In(d, "evidence")
  <2>1. ASSUME NEW q \in In(d, "evidence")
        PROVE  q \in w
    <3>1. q \in d /\ q.table = "evidence" /\ q.owners = {}
      BY <1>2, <2>1 DEF In, WellFormed
    <3> QED
      BY <1>1, <3>1 DEF Without
  <2> QED
    BY <2>1 DEF In, Without
<1>5. RelationsOf(w) = RelationsOf(d) \ {r}
  <2>1. ASSUME NEW q \in RelationsOf(d), q # r
        PROVE  q \in w
    <3>1. /\ q \in d /\ q.table = "relationships"
          /\ q.owners = {<<"entities", q.value[1]>>, <<"entities", q.value[2]>>}
      BY <1>2, <2>1 DEF RelationsOf, In, WellFormed
    <3>2. Key(r) \notin q.owners
      BY <1>1, <3>1
    <3> QED
      BY <2>1, <3>1, <3>2 DEF Without
  <2> QED
    BY <2>1 DEF RelationsOf, In, Without
<1>6. ASSUME NEW q \in RelationsOf(d), q # r
      PROVE  LinksOf(w, q) = LinksOf(d, q)
  <2>1. q.table = "relationships" /\ q.id # r.id
    BY <1>6, RelationsOfSnapshot DEF RelationsOf, In
  <2>2. ASSUME NEW v
        PROVE  Link(q, v) \in w <=> Link(q, v) \in d
    <3>1. Link(q, v).table = "relationship_evidence" /\ Link(q, v).owners = {Key(q)}
      BY <2>1 DEF Link, Row, LinkTable
    <3>2. Link(q, v) # r /\ Key(r) \notin Link(q, v).owners
      BY <1>1, <2>1, <3>1 DEF Key
    <3> QED
      BY <3>2 DEF Without
  <2>3. {e \in In(w, "evidence") : Link(q, e.id) \in w} =
          {e \in In(d, "evidence") : Link(q, e.id) \in d}
    BY <1>4, <2>2
  <2> QED
    BY <2>3 DEF LinksOf
<1>7. EntitiesOf(w) = EntitiesOf(d)
  BY <1>3 DEF EntitiesOf
<1>8. Attributes(w) = Attributes(d)
  <2> DEFINE Of(S) == [e \in {q.id : q \in S} |-> (CHOOSE q \in S : q.id = e).value[1]]
  <2>1. Attributes(w) = Of(In(w, "entities"))
    BY DEF Attributes, EntitiesOf
  <2>2. Attributes(d) = Of(In(d, "entities"))
    BY DEF Attributes, EntitiesOf
  <2> HIDE DEF Of, w
  <2> QED
    BY <1>3, <2>1, <2>2
<1> QED
  BY <1>5, <1>6, <1>8

(***************************************************************************)
(* Removing an edge from a clone gives what a build would give without the *)
(* relationship.                                                           *)
(***************************************************************************)
THEOREM Remediation ==
  Spec => []CounterfactualMatchesRemediation
<1>1. ASSUME NEW d, Snapshot(d), NEW r \in RelationsOf(d)
      PROVE  RemoveRelationship(Project(d), r.id) = Project(Without(d, r))
  <2> DEFINE g == Project(d)
             w == Without(d, r)
             edge == EdgeOf(r, LinksOf(d, r))
  <2>1. g = [nodes |-> Attributes(d), edges |-> Edges(d, d)]
    BY DEF Project, Edges
  <2>2. edge \in Edges(d, d) /\ edge.id = r.id
    BY DEF Edges, EdgeOf
  <2>3. \A e \in Edges(d, d) : e.id = r.id => e = edge
    BY <1>1, <2>2, EdgesOfSnapshot
  <2>4. RemoveRelationship(g, r.id) = [nodes |-> Attributes(d), edges |-> Edges(d, d) \ {edge}]
    <3> HIDE DEF edge, g
    <3>1. PICK E, N : E = Edges(d, d) /\ N = Attributes(d)
      OBVIOUS
    <3>2. g = [nodes |-> N, edges |-> E]
      BY <2>1, <3>1
    <3>3. g.edges = E /\ [g EXCEPT !.edges = E \ {edge}] = [nodes |-> N, edges |-> E \ {edge}]
      BY <3>2
    <3>4. HasRelationship(g, r.id)
      BY <2>2, <3>1, <3>3 DEF HasRelationship
    <3>5. \A e \in E : e.id = r.id <=> e = edge
      BY <2>2, <2>3, <3>1
    <3>6. PICK c : c = CHOOSE e \in E : e.id = r.id
      OBVIOUS
    <3>7. c \in E /\ c.id = r.id
      BY <2>2, <3>1, <3>6
    <3>8. c = edge
      BY <3>5, <3>7
    <3> QED
      BY <3>1, <3>3, <3>4, <3>6, <3>8 DEF RemoveRelationship
  <2>5. Edges(d, d) \ {edge} = {EdgeOf(q, LinksOf(w, q)) : q \in RelationsOf(w)}
    <3> HIDE DEF w
    <3>1. ASSUME NEW q \in RelationsOf(d), q # r
          PROVE  EdgeOf(q, LinksOf(d, q)) # edge
      <4>1. q.id # r.id
        BY <1>1, <3>1, RelationsOfSnapshot
      <4>2. EdgeOf(q, LinksOf(d, q)).id = q.id /\ edge.id = r.id
        BY DEF EdgeOf
      <4> QED
        BY <4>1, <4>2
    <3>2. \A q \in RelationsOf(w) : q \in RelationsOf(d) /\ q # r /\ LinksOf(w, q) = LinksOf(d, q)
      BY <1>1, ProjectWithout DEF w
    <3>3. \A q \in RelationsOf(d) : q # r => q \in RelationsOf(w)
      BY <1>1, ProjectWithout DEF w
    <3> HIDE DEF edge
    <3>4. ASSUME NEW e \in Edges(d, d) \ {edge}
          PROVE  e \in {EdgeOf(q, LinksOf(w, q)) : q \in RelationsOf(w)}
      <4>1. PICK q \in RelationsOf(d) : e = EdgeOf(q, LinksOf(d, q))
        BY DEF Edges
      <4>2. q # r
        BY <4>1 DEF edge
      <4>3. q \in RelationsOf(w) /\ e = EdgeOf(q, LinksOf(w, q))
        BY <3>2, <3>3, <4>1, <4>2
      <4> QED
        BY <4>3
    <3>5. ASSUME NEW q \in RelationsOf(w)
          PROVE  EdgeOf(q, LinksOf(w, q)) \in Edges(d, d) \ {edge}
      <4>1. EdgeOf(q, LinksOf(w, q)) = EdgeOf(q, LinksOf(d, q))
        BY <3>2
      <4> QED
        BY <3>1, <3>2, <4>1 DEF Edges
    <3> QED
      BY <3>4, <3>5
  <2>6. Attributes(w) = Attributes(d)
    BY <1>1, ProjectWithout
  <2>7. Project(w) = [nodes |-> Attributes(w),
                      edges |-> {EdgeOf(q, LinksOf(w, q)) : q \in RelationsOf(w)}]
    BY DEF Project
  <2> HIDE DEF w, edge, g
  <2>8. RemoveRelationship(g, r.id) = Project(w)
    BY <2>4, <2>5, <2>6, <2>7
  <2> QED
    BY <2>8 DEF g, w
<1>2. ReadInv => CounterfactualMatchesRemediation
  <2> SUFFICES ASSUME ReadInv, phase = "built", seen = {db}, NEW r \in RelationsOf(db)
               PROVE  RemoveRelationship(graph, r.id) = Project(Without(db, r))
    BY DEF CounterfactualMatchesRemediation
  <2>1. graph = Project(db) /\ Snapshot(db)
    BY BuiltOfOne DEF Projected
  <2>2. PICK d : d = db
    OBVIOUS
  <2> QED
    BY <1>1, <2>1, <2>2
<1> QED
  BY <1>2, ReaderInvariant, PTL
=============================================================================

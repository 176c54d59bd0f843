---------------------------- MODULE CanonicalTables ----------------------------
(***************************************************************************)
(* The canonical tables (app/domain/models.py, migration 0001) under       *)
(* concurrent sessions that write to them through the repositories         *)
(* (app/storage/repositories.py).                                          *)
(*                                                                         *)
(* A call of a repository is a series of statements, and a statement may   *)
(* wait for another transaction.  PostgreSQL runs at READ COMMITTED: a     *)
(* statement sees what is committed when it starts and what its own        *)
(* transaction did.  Columns that no property tells apart are one value.   *)
(***************************************************************************)
EXTENDS FiniteSets, Naturals, Sequences, SequencesExt

CONSTANTS
  Session,
  Calls,       \* the calls that each session may make
  Situations   \* the rows at first, and how many calls each session makes

VARIABLES
  db,        \* the committed rows
  session    \* of each session: its transaction, and the call it is in

-----------------------------------------------------------------------------
(***************************************************************************)
(* Rows.  A row has the keys of its owners, with which it is deleted, the  *)
(* evidence it cites, its value, and what no other row may share with it.  *)
(* `named` is what its creator asked to have linked.                       *)
(***************************************************************************)
Row(table, id, owners, cites, unique, value, named) ==
  [table |-> table, id |-> id, owners |-> owners, cites |-> cites,
   unique |-> unique \cup {<<table, id>>}, value |-> value, named |-> named]

Key(r) == <<r.table, r.id>>

Keys(R) == {Key(r) : r \in R}

Entity(id, canonicalKey, value) ==
  Row("entities", id, {}, {}, {<<"canonical_key", canonicalKey>>}, <<value>>, <<>>)

EvidenceRow(id) == Row("evidence", id, {}, {}, {}, <<>>, <<>>)

Relationship(id, source, target, evidence) ==
  Row("relationships", id, {<<"entities", source>>, <<"entities", target>>}, {}, {},
      <<source, target>>, evidence)

Finding(id, entity, evidence) ==
  Row("findings", id, {<<"entities", entity>>}, {}, {}, <<>>, evidence)

AuditLog(id) == Row("audit_log", id, {}, {}, {}, <<>>, <<>>)

\* RelationshipEvidence and FindingEvidence; their ids are new ones.
LinkTable(owner) ==
  IF owner.table = "relationships" THEN "relationship_evidence" ELSE "finding_evidence"

Link(owner, ev) ==
  Row(LinkTable(owner), <<owner.id, ev>>, {Key(owner)}, {<<"evidence", ev>>}, {}, <<>>, <<>>)

\* Mutant: findings are deleted with their entity by the ORM only.
OnDeleteByOrm(table) == IF table = "findings" THEN "NO ACTION" ELSE "CASCADE"

\* What the foreign key to an owner does to the row.
OnDelete(table) == "CASCADE"

Refs(r) == r.owners \cup r.cites

\* The schema lets only evidence be cited, and a link belong only to what it
\* names; only relationships and findings are created with evidence.
WellFormed(r) ==
  /\ r = Row(r.table, r.id, r.owners, r.cites, r.unique, r.value, r.named)
  /\ r.named \in Seq(ToSet(r.named))
  /\ r.named # <<>> => r.table \in {"relationships", "findings"}
  /\ r.table = "entities" => Refs(r) = {}
  /\ r.table = "evidence" => r.owners = {}
  /\ r.table = "relationships" =>
       r.owners = {<<"entities", r.value[1]>>, <<"entities", r.value[2]>>}
  /\ \A key \in r.cites : key[1] = "evidence"
  /\ r.table = "relationship_evidence" => r.owners = {<<"relationships", r.id[1]>>}
  /\ r.table = "finding_evidence" => r.owners = {<<"findings", r.id[1]>>}

Distinct(rows) == \A q, r \in rows : q.unique \cap r.unique # {} => q = r

\* What rows refer to is there, and so is the evidence they were created with.
Complete(rows) ==
  \A r \in rows :
    /\ Refs(r) \subseteq Keys(rows)
    /\ \A i \in 1..Len(r.named) : Link(r, r.named[i]) \in rows

ASSUME CallsAssumption ==
  \A s \in Session : \A call \in Calls[s] :
    /\ WellFormed(call.row)
    /\ call.op \in {"create", "update", "delete", "add_evidence"}
    /\ call.op = "update" => call.row.table = "entities"
    /\ call.op = "delete" =>
         call.row.table \in {"entities", "relationships", "findings"}

ASSUME SituationsAssumption ==
  \A situation \in Situations :
    /\ IsFiniteSet(situation.rows)
    /\ \A r \in situation.rows : WellFormed(r)
    /\ Distinct(situation.rows)
    /\ Complete(situation.rows)
    /\ situation.calls \in [Session -> Nat]

-----------------------------------------------------------------------------
(***************************************************************************)
(* A session: the rows its transaction has written, the keys it has        *)
(* deleted, the values it has put in an index, the keys it has locked for  *)
(* the sake of a reference, the statements that remain of its call, and    *)
(* the error that ended it.                                                *)
(***************************************************************************)
NoCall == [op |-> "none"]

NewSession(calls) ==
  [own |-> {}, gone |-> {}, claims |-> {}, shared |-> {}, todo |-> <<>>,
   call |-> NoCall, error |-> "none", calls |-> calls]

TablesInit(situation) ==
  /\ db = situation.rows
  /\ session = [s \in Session |-> NewSession(situation.calls[s])]

View(s) ==
  {r \in db : Key(r) \notin session[s].gone \cup Keys(session[s].own)} \cup session[s].own

\* The committed rows that the transaction has changed or deleted: another
\* transaction may not lock them against changes.
Written(t) == (Keys(session[t].own) \cup session[t].gone) \cap Keys(db)

Others(s) == Session \ {s}

Statement(s) == Head(session[s].todo)

Running(s, kind) == session[s].todo # <<>> /\ Statement(s).do = kind

-----------------------------------------------------------------------------
(***************************************************************************)
(* Calls.  Those that need a row read it first; session.get may also find  *)
(* nothing, which ends the call.  The read of an update is its caller's,   *)
(* who hands it the entity that it has loaded in the same session.         *)
(***************************************************************************)
Do(what, row) == [do |-> what, row |-> row]

Inserts(rows) == [i \in 1..Len(rows) |-> Do("insert", rows[i])]

\* create flushes the row, then the links to the evidence that is named.
Statements(call) ==
  CASE call.op \in {"create", "add_evidence"} ->
         Inserts(<<call.row>> \o
                 [i \in 1..Len(call.row.named) |-> Link(call.row, call.row.named[i])])
    [] call.op = "update" -> <<Do("get", call.row), Do("update", call.row)>>
    [] call.op = "delete" -> <<Do("get", call.row), Do("load", call.row)>>

SetSession(s, new) ==
  /\ session' = [session EXCEPT ![s] = new]
  /\ UNCHANGED db

Call(s, call) ==
  /\ session[s].todo = <<>> /\ session[s].error = "none" /\ session[s].calls > 0
  /\ SetSession(s, [session[s] EXCEPT !.call = call, !.todo = Statements(call),
                                      !.calls = @ - 1])

\* What has been done, and what remains to be done: the call may be over.
Remaining(s, done, todo) ==
  SetSession(s, [done EXCEPT !.todo = todo, !.call = IF todo = <<>> THEN NoCall ELSE @])

Continue(s, done, todo) == Remaining(s, done, todo \o Tail(session[s].todo))

\* The server undoes a transaction, and unlocks its rows, when a statement of
\* it fails; one that the client gives up stays open until it is rolled back.
Fail(s, error) ==
  SetSession(s, [session[s] EXCEPT !.todo = <<>>, !.error = error,
                                   !.own = {}, !.gone = {}, !.claims = {}, !.shared = {}])

GiveUp(s, error) ==
  SetSession(s, [session[s] EXCEPT !.todo = <<>>, !.error = error])

-----------------------------------------------------------------------------
(* Whom a statement waits for.                                             *)

Locks(t, key) == key \in Written(t) \cup session[t].shared

\* It has put one of the values in an index, where the entry outlives the row
\* until the transaction ends, or has written the committed row that has it.
Claims(t, unique) ==
  \/ session[t].claims \cap unique # {}
  \/ \E r \in db : Key(r) \in Written(t) /\ r.unique \cap unique # {}

Children(s, key) == {r \in View(s) : key \in r.owners}

Old(s, row) == CHOOSE r \in View(s) : Key(r) = Key(row)

\* A key column is changed.
Rekeys(s, row) ==
  Key(row) \in Keys(View(s)) /\ Old(s, row).unique # row.unique

Delays(t, s) ==
  LET row == Statement(s).row
      key == Key(row)
  IN  CASE Running(s, "insert")  -> Claims(t, row.unique)
        [] Running(s, "refer")   -> Refs(row) \cap session[t].gone \cap Keys(db) # {}
        [] Running(s, "update")  -> \/ key \in Written(t)
                                    \/ Rekeys(s, row) /\ Locks(t, key)
                                    \/ Rekeys(s, row) /\ Claims(t, row.unique)
        [] Running(s, "delete")  -> Locks(t, key)
        [] Running(s, "cascade") -> \E c \in Children(s, key) : Locks(t, Key(c))
        [] OTHER -> FALSE

WaitsFor(s) ==
  IF session[s].todo = <<>> THEN {} ELSE {t \in Others(s) : Delays(t, s)}

Ready(s, kind) == Running(s, kind) /\ WaitsFor(s) = {}

Deadlocked(s) ==
  \E D \in SUBSET Session : s \in D /\ \A t \in D : WaitsFor(t) \cap D # {}

-----------------------------------------------------------------------------
(* Statements.                                                             *)

Put(s, others, row) ==
  [session[s] EXCEPT !.own = others \cup {row}, !.claims = @ \cup row.unique]

Insert(s) ==
  /\ Ready(s, "insert")
  /\ LET row == Statement(s).row
     IN  IF \E r \in View(s) : r.unique \cap row.unique # {}
           THEN Fail(s, "duplicate")
           ELSE Continue(s, Put(s, session[s].own, row), <<Do("refer", row)>>)

\* The foreign keys of the new row: what it refers to is locked FOR KEY SHARE.
Refer(s) ==
  /\ Ready(s, "refer")
  /\ LET refs == Refs(Statement(s).row)
     IN  IF refs \subseteq Keys(View(s))
           THEN Continue(s, [session[s] EXCEPT !.shared = @ \cup refs], <<>>)
           ELSE Fail(s, "missing")

\* get_by_id: None ends the call, which returns False.
Get(s) ==
  /\ Ready(s, "get")
  /\ IF Key(Statement(s).row) \in Keys(View(s))
       THEN Continue(s, session[s], <<>>)
       ELSE Remaining(s, session[s], <<>>)

\* An UPDATE that meets no row is a StaleDataError.
Update(s) ==
  /\ Ready(s, "update")
  /\ LET row == Statement(s).row
     IN  IF Key(row) \notin Keys(View(s)) THEN GiveUp(s, "stale")
         ELSE IF Rekeys(s, row) /\ \E r \in View(s) \ {Old(s, row)} :
                                      r.unique \cap row.unique # {}
           THEN Fail(s, "duplicate")
         ELSE Continue(s, Put(s, session[s].own \ {Old(s, row)}, row), <<>>)

Deletes(rows) ==
  LET order == SetToSeq(rows) IN [i \in 1..Len(order) |-> Do("delete", order[i])]

\* session.delete loads what the ORM cascades to; the flush deletes links
\* before what they belong to, and that before the row itself.
Load(s) ==
  /\ Ready(s, "load")
  /\ LET row == Statement(s).row
         children == Children(s, Key(row))
         links == UNION {Children(s, Key(c)) : c \in children}
     IN  Continue(s, session[s], Deletes(links) \o Deletes(children) \o <<Do("delete", row)>>)

DeleteRow(s, key) ==
  [session[s] EXCEPT !.own = {r \in @ : Key(r) # key}, !.gone = @ \cup {key}]

\* A DELETE that meets no row is none; one that does is followed by the
\* action of the foreign keys to it.
Delete(s) ==
  /\ Ready(s, "delete")
  /\ LET row == Statement(s).row
     IN  IF Key(row) \in Keys(View(s))
           THEN Continue(s, DeleteRow(s, Key(row)), <<Do("cascade", row)>>)
           ELSE Continue(s, session[s], <<>>)

\* The foreign keys to a deleted row act on the rows that are there now, of
\* whichever transaction.
Cascade(s) ==
  /\ Ready(s, "cascade")
  /\ LET row == Statement(s).row
         children == Children(s, Key(row))
     IN  IF children = {} THEN Continue(s, session[s], <<>>)
         ELSE IF \E c \in children : OnDelete(c.table) = "NO ACTION"
           THEN Fail(s, "referenced")
         ELSE \E c \in children :
                Continue(s, DeleteRow(s, Key(c)), <<Do("cascade", c), Do("cascade", row)>>)

\* Mutant: the caller swallows the error and goes on.
CancelSwallowed(s) ==
  /\ session[s].todo # <<>>
  /\ Remaining(s, session[s], <<>>)

\* The connection fails or the task is cancelled, at any statement.
Cancel(s) ==
  /\ session[s].todo # <<>>
  /\ GiveUp(s, "cancelled")

DeadlockVictim(s) ==
  /\ Deadlocked(s)
  /\ Fail(s, "deadlock")

Ended(s) == NewSession(session[s].calls)

HasWritten(s) ==
  session[s].gone \cup session[s].claims \cup session[s].shared # {}

Commit(s) ==
  /\ session[s].todo = <<>> /\ session[s].error = "none" /\ HasWritten(s)
  /\ db' = View(s)
  /\ session' = [session EXCEPT ![s] = Ended(s)]

Rollback(s) ==
  /\ session[s].todo = <<>> /\ (HasWritten(s) \/ session[s].error # "none")
  /\ SetSession(s, Ended(s))

SessionStep(s) ==
  \/ Insert(s) \/ Refer(s) \/ Get(s) \/ Update(s) \/ Load(s) \/ Delete(s) \/ Cascade(s)
  \/ Cancel(s) \/ DeadlockVictim(s) \/ Commit(s) \/ Rollback(s)

-----------------------------------------------------------------------------
(* Properties.                                                             *)

(***************************************************************************)
(* Whatever sessions commit, the committed rows refer to committed rows    *)
(* only, and a relationship or finding that is there has every evidence    *)
(* that its creator named, though row and links are flushed apart          *)
(* (repositories.py:99): it never loses one while it stands (ARCH-6).      *)
(***************************************************************************)
EvidenceIsKept == Complete(db)

(***************************************************************************)
(* A delete is never refused for the sake of what refers to the row: what  *)
(* the ORM has loaded it deletes itself, and what another session commits  *)
(* between that read and the DELETE (repositories.py:61), the foreign key  *)
(* takes with it.                                                          *)
(***************************************************************************)
DeletesAreNotRefused ==
  \A s \in Session : session[s].call.op = "delete" =>
    session[s].error \in {"none", "deadlock", "cancelled"}

=============================================================================

--------------------------- MODULE ShowcaseRunProofs ---------------------------
(***************************************************************************)
(* For every number of runs, every fixture and whatever the clients write: *)
(* nothing of the fixture is ever committed, a database that holds a row   *)
(* from the start of a run on is refused by its check, a report lists a    *)
(* closed part of what there was, and the paths, evidence and findings it  *)
(* computes from are the fixture's.                                        *)
(***************************************************************************)
EXTENDS ShowcaseRun, PathTheorems

-----------------------------------------------------------------------------
(***************************************************************************)
(* The inductive invariant.                                                *)
(***************************************************************************)
RunState ==
  [phase : Phase, step : Nat \ {0}, own : SUBSET FixtureRows,
   reads : Seq(SUBSET AllRows), outcome : Outcome, standing : SUBSET AllRows,
   lost : SUBSET Keys(AllRows), quiet : BOOLEAN]

StepInRange(s) ==
  /\ s.phase = "checking" => s.step <= Len(Tables)
  /\ s.phase = "loading" => s.step <= Len(Fixture)
  /\ s.phase = "resolving" => s.step = 1
  /\ s.phase = "selecting" => s.step <= Len(Selects)

ReadsAreTyped(s) ==
  /\ s.phase \in {"idle", "checking", "loading", "resolving"} => s.reads = <<>>
  /\ s.phase = "selecting" => Len(s.reads) = s.step - 1
  /\ \A k \in 1..Len(s.reads) : s.reads[k] \subseteq Rows(AllRows, Selects[k])

\* While a run checks, its standing rows are in tables it has yet to check;
\* once it has gone on there are none.
StandingIsUnchecked(s) ==
  /\ s.phase = "checking" =>
       \A r \in s.standing : \E k \in s.step..Len(Tables) : r.table = Tables[k]
  /\ s.phase \in {"loading", "resolving", "selecting", "analysing"} => s.standing = {}
  /\ s.outcome \in {"inconsistent", "report"} => s.standing = {}
  /\ s.outcome # "none" => s.phase \in {"ending", "ended"}

RunInv(s) ==
  /\ s \in RunState
  /\ StepInRange(s)
  /\ ReadsAreTyped(s)
  /\ StandingIsUnchecked(s)

\* The committed rows are those of clients, whatever runs do.
RowsOfClients == db \subseteq UNION Batches

CommitsInRange == commits \in 0..MaxCommits

IInv ==
  /\ RowsOfClients
  /\ CommitsInRange
  /\ run \in [Run -> RunState]
  /\ \A x \in Run : RunInv(run[x]) /\ run[x].standing \subseteq db

-----------------------------------------------------------------------------
\* Client rows are no fixture rows: their keys differ.
LEMMA ClientsAndFixture == FixtureRows \cap UNION Batches = {}
<1>1. ASSUME NEW r \in FixtureRows, r \in UNION Batches
      PROVE  FALSE
  BY <1>1, FixtureIsComplete, ZenonT(40) DEF Keys
<1> QED
  BY <1>1

\* No run has begun and nothing is committed.
LEMMA InitInv == Init => IInv
<1> SUFFICES ASSUME Init
             PROVE  IInv
  OBVIOUS
<1>1. NewRun \in RunState
  BY DEF NewRun, RunState, Phase, Outcome
<1>2. RunInv(NewRun)
  BY <1>1 DEF NewRun, RunInv, StepInRange, ReadsAreTyped, StandingIsUnchecked
<1>3. RowsOfClients
  BY DEF Init, RowsOfClients
<1>4. CommitsInRange
  BY CommitsAreBounded DEF Init, CommitsInRange
<1> QED
  BY <1>1, <1>2, <1>3, <1>4 DEF Init, IInv, NewRun

\* The state of a run after a commit of a client.
AfterCommit(s, R) ==
  [s EXCEPT !.standing = @ \cap R,
            !.lost = IF s.phase = "selecting"
                     THEN @ \cup Keys(Rows(db \ R, "entities"))
                     ELSE @,
            !.quiet = FALSE]

LEMMA AfterCommitFacts ==
  ASSUME NEW s \in RunState, NEW R, db \subseteq AllRows
  PROVE  LET t == AfterCommit(s, R)
         IN  /\ t \in RunState /\ t.phase = s.phase /\ t.step = s.step /\ t.own = s.own
             /\ t.reads = s.reads /\ t.outcome = s.outcome
             /\ t.standing = s.standing \cap R /\ t.quiet = FALSE
             /\ s.lost \subseteq t.lost
             /\ s.phase = "selecting" => Keys(Rows(db \ R, "entities")) \subseteq t.lost
<1> DEFINE lost == IF s.phase = "selecting"
                   THEN s.lost \cup Keys(Rows(db \ R, "entities"))
                   ELSE s.lost
           a == [s EXCEPT !.standing = @ \cap R]
           b == [a EXCEPT !.lost = lost]
           t == [b EXCEPT !.quiet = FALSE]
<1>1. Keys(Rows(db \ R, "entities")) \subseteq Keys(AllRows)
  BY DEF Keys, Rows
<1>2. lost \in SUBSET Keys(AllRows) /\ s.standing \cap R \in SUBSET AllRows
  BY <1>1 DEF RunState
<1>3. /\ s.lost \subseteq lost
      /\ s.phase = "selecting" => Keys(Rows(db \ R, "entities")) \subseteq lost
  OBVIOUS
<1>4. AfterCommit(s, R) = t
  BY DEF AfterCommit, RunState
<1> HIDE DEF lost
<1>5. /\ a \in RunState /\ a.phase = s.phase /\ a.step = s.step /\ a.own = s.own
      /\ a.reads = s.reads /\ a.outcome = s.outcome /\ a.standing = s.standing \cap R
  BY <1>2 DEF RunState
<1> HIDE DEF a
<1>6. /\ b \in RunState /\ b.phase = a.phase /\ b.step = a.step /\ b.own = a.own
      /\ b.reads = a.reads /\ b.outcome = a.outcome /\ b.standing = a.standing
      /\ b.lost = lost
  BY <1>2, <1>5 DEF RunState
<1> HIDE DEF b
<1>7. /\ t \in RunState /\ t.phase = b.phase /\ t.step = b.step /\ t.own = b.own
      /\ t.reads = b.reads /\ t.outcome = b.outcome /\ t.standing = b.standing
      /\ t.lost = b.lost /\ t.quiet = FALSE
  BY <1>6 DEF RunState
<1> HIDE DEF t
<1> QED
  BY <1>3, <1>4, <1>5, <1>6, <1>7

\* A commit of a client takes rows away from standing and leaves the phase of
\* every run as it is.
LEMMA CommitInv ==
  ASSUME IInv, NEW R, R \subseteq UNION Batches, Committed(R)
  PROVE  IInv'
<1> DEFINE New(x) == AfterCommit(run[x], R)
<1>1. ASSUME NEW x \in Run
      PROVE  /\ New(x) \in RunState
             /\ RunInv(New(x))
             /\ New(x).standing \subseteq R
  <2>1. run[x] \in RunState /\ RunInv(run[x]) /\ db \subseteq AllRows
    BY DEF IInv, RowsOfClients, AllRows
  <2>2. /\ New(x) \in RunState
        /\ New(x).phase = run[x].phase /\ New(x).step = run[x].step
        /\ New(x).reads = run[x].reads /\ New(x).outcome = run[x].outcome
        /\ New(x).standing = run[x].standing \cap R
    BY <2>1, AfterCommitFacts
  <2> HIDE DEF New
  <2> QED
    BY <2>1, <2>2 DEF RunInv, StepInRange, ReadsAreTyped, StandingIsUnchecked
<1>2. run' = [x \in Run |-> New(x)] /\ db' = R
  BY DEF Committed, AfterCommit
<1>3. CommitsInRange'
  <2>1. commits < MaxCommits /\ commits' = commits + 1
    BY DEF Committed
  <2>2. commits \in 0..MaxCommits
    BY DEF IInv, CommitsInRange
  <2> QED
    BY <2>1, <2>2, CommitsAreBounded DEF CommitsInRange
<1> HIDE DEF New
<1> QED
  BY <1>1, <1>2, <1>3 DEF IInv, RowsOfClients

\* A step of a run needs to be looked at by itself only.
LEMMA RunStepInv ==
  ASSUME IInv, NEW x \in Run, NEW s, SetRun(x, s), RunInv(s), s.standing \subseteq db
  PROVE  IInv'
<1>1. run' = [run EXCEPT ![x] = s] /\ db' = db /\ commits' = commits
  BY DEF SetRun
<1>2. s \in RunState
  BY DEF RunInv
<1>3. CommitsInRange'
  BY <1>1 DEF IInv, CommitsInRange
<1> QED
  BY <1>1, <1>2, <1>3 DEF IInv, RowsOfClients

\* A run ends with an outcome that is not about what it has read, or without
\* standing rows.
LEMMA EndInv ==
  ASSUME NEW s, RunInv(s), NEW o \in Outcome,
         o \in {"inconsistent", "report"} => s.standing = {}
  PROVE  RunInv(End(s, o)) /\ End(s, o).standing = s.standing
<1>1. s \in RunState
  BY DEF RunInv
<1>2. /\ End(s, o) \in RunState
      /\ End(s, o).phase = "ending" /\ End(s, o).outcome = o
      /\ End(s, o).reads = s.reads /\ End(s, o).standing = s.standing
  BY <1>1 DEF End, RunState, Phase
<1> QED
  BY <1>2 DEF RunInv, StepInRange, ReadsAreTyped, StandingIsUnchecked

\* The next step of a phase, or the first of the next one.
LEMMA AdvanceProperties ==
  ASSUME NEW s \in RunState, NEW count \in Nat, NEW next \in Phase
  PROVE  /\ Advance(s, count, next) \in RunState
         /\ Advance(s, count, next).own = s.own
         /\ Advance(s, count, next).reads = s.reads
         /\ Advance(s, count, next).outcome = s.outcome
         /\ Advance(s, count, next).standing = s.standing
         /\ Advance(s, count, next).lost = s.lost
         /\ Advance(s, count, next).quiet = s.quiet
         /\ s.step < count =>
              /\ Advance(s, count, next).phase = s.phase
              /\ Advance(s, count, next).step = s.step + 1
         /\ ~(s.step < count) =>
              /\ Advance(s, count, next).phase = next
              /\ Advance(s, count, next).step = 1
<1>1. CASE s.step < count
  BY <1>1 DEF Advance, RunState
<1>2. CASE ~(s.step < count)
  <2> DEFINE b == [s EXCEPT !.step = 1]
             a == [b EXCEPT !.phase = next]
  <2>1. Advance(s, count, next) = a
    BY <1>2 DEF Advance
  <2>2. /\ b \in RunState
        /\ b.own = s.own /\ b.reads = s.reads
        /\ b.outcome = s.outcome /\ b.standing = s.standing /\ b.lost = s.lost
        /\ b.quiet = s.quiet /\ b.step = 1
    BY DEF RunState
  <2> HIDE DEF b
  <2>3. /\ a \in RunState
        /\ a.own = b.own /\ a.reads = b.reads
        /\ a.outcome = b.outcome /\ a.standing = b.standing /\ a.lost = b.lost
        /\ a.quiet = b.quiet /\ a.phase = next /\ a.step = b.step
    BY <2>2 DEF RunState
  <2> HIDE DEF a
  <2> QED
    BY <1>2, <2>1, <2>2, <2>3
<1> QED
  BY <1>1, <1>2

\* What the assumptions say of the tables and rows.
LEMMA ParameterFacts ==
  /\ Len(Tables) \in Nat \ {0}
  /\ Len(Fixture) \in Nat \ {0}
  /\ \A k \in 1..Len(Fixture) : Fixture[k] \in FixtureRows
  /\ Len(Selects) = 9
  /\ FixtureRows \subseteq AllRows /\ UNION Batches \subseteq AllRows
<1>1. \A S : \A q \in Seq(S) : q # <<>> => Len(q) \in Nat \ {0}
  OBVIOUS
<1>2. Len(Tables) \in Nat \ {0} /\ Len(Fixture) \in Nat \ {0}
  BY <1>1, TablesAreComplete
<1>3. Len(Selects) = 9
  BY DEF Selects
<1> QED
  BY <1>2, <1>3 DEF FixtureRows, AllRows

-----------------------------------------------------------------------------
(***************************************************************************)
(* The steps of a run.                                                     *)
(***************************************************************************)
\* A run starts with every committed row standing and every table unchecked.
LEMMA StartInv ==
  ASSUME IInv, NEW x \in Run, Start(x)
  PROVE  IInv'
<1> DEFINE s == [NewRun EXCEPT !.phase = "checking", !.standing = db]
<1>1. db \subseteq AllRows
  BY ParameterFacts DEF IInv, RowsOfClients
<1>2. /\ NewRun \in RunState /\ NewRun.step = 1 /\ NewRun.reads = <<>>
      /\ NewRun.outcome = "none"
  BY DEF NewRun, RunState, Phase, Outcome
<1>3. /\ s \in RunState
      /\ s.phase = "checking" /\ s.step = NewRun.step /\ s.reads = NewRun.reads
      /\ s.outcome = NewRun.outcome /\ s.standing = db
  BY <1>1, <1>2 DEF RunState, Phase
<1>4. \A r \in db : \E k \in 1..Len(Tables) : r.table = Tables[k]
  BY <1>1, TablesAreComplete
<1>6. SetRun(x, s)
  BY DEF Start
<1> HIDE DEF s
<1>7. StepInRange(s) /\ ReadsAreTyped(s) /\ StandingIsUnchecked(s)
  BY <1>2, <1>3, <1>4, ParameterFacts DEF StepInRange, ReadsAreTyped, StandingIsUnchecked
<1> QED
  BY <1>3, <1>6, <1>7, RunStepInv DEF RunInv

\* A table without visible rows holds no standing row.
LEMMA CheckTableInv ==
  ASSUME IInv, NEW x \in Run, CheckTable(x)
  PROVE  IInv'
<1> DEFINE s == run[x]
           a == Advance(s, Len(Tables), "loading")
<1>1. RunInv(s) /\ s \in RunState /\ s.standing \subseteq db /\ s.phase = "checking"
  BY DEF IInv, CheckTable
<1>2. CASE Rows(Visible(x), Tables[s.step]) # {}
  <2>1. SetRun(x, End(s, "not_ready"))
    BY <1>2 DEF CheckTable
  <2>2. RunInv(End(s, "not_ready")) /\ End(s, "not_ready").standing = s.standing
    BY <1>1, EndInv DEF Outcome
  <2> QED
    BY <1>1, <2>1, <2>2, RunStepInv
<1>3. CASE Rows(Visible(x), Tables[s.step]) = {}
  <2>1. SetRun(x, a)
    BY <1>3 DEF CheckTable
  <2>2. /\ a \in RunState /\ a.reads = s.reads
        /\ a.outcome = s.outcome /\ a.standing = s.standing
        /\ s.step < Len(Tables) => a.phase = s.phase /\ a.step = s.step + 1
        /\ ~(s.step < Len(Tables)) => a.phase = "loading" /\ a.step = 1
    <3>1. "loading" \in Phase /\ Len(Tables) \in Nat
      BY ParameterFacts DEF Phase
    <3> HIDE DEF s
    <3> QED
      BY <1>1, <3>1, AdvanceProperties
  <2>3. \A r \in s.standing : r.table # Tables[s.step]
    BY <1>1, <1>3 DEF Rows, Visible
  <2>4. s.step \in Nat \ {0} /\ s.step <= Len(Tables) /\ Len(Tables) \in Nat /\ Len(Fixture) \in Nat \ {0}
    BY <1>1, ParameterFacts DEF RunInv, RunState, StepInRange
  <2>5. \A r \in s.standing : \E k \in s.step..Len(Tables) : r.table = Tables[k]
    BY <1>1 DEF RunInv, StandingIsUnchecked
  <2>6. \A r \in s.standing : \E k \in s.step + 1..Len(Tables) : r.table = Tables[k]
    BY <2>3, <2>4, <2>5
  <2>7. ~(s.step < Len(Tables)) => s.standing = {}
    BY <2>4, <2>6
  <2>8. s.reads = <<>> /\ s.outcome = "none"
    BY <1>1 DEF RunInv, ReadsAreTyped, StandingIsUnchecked
  <2> HIDE DEF a, s
  <2>9. StepInRange(a)
    BY <1>1, <2>2, <2>4 DEF StepInRange
  <2>10. ReadsAreTyped(a) /\ StandingIsUnchecked(a)
    BY <1>1, <2>2, <2>4, <2>6, <2>7, <2>8 DEF ReadsAreTyped, StandingIsUnchecked
  <2> QED
    BY <1>1, <2>1, <2>2, <2>9, <2>10, RunStepInv DEF RunInv
<1> QED
  BY <1>2, <1>3

\* A fixture row is inserted, or its id is taken and the run fails.
LEMMA LoadRowInv ==
  ASSUME IInv, NEW x \in Run, LoadRow(x)
  PROVE  IInv'
<1> DEFINE s == run[x]
           row == Fixture[s.step]
           t == [s EXCEPT !.own = @ \cup {row}]
           a == Advance(t, Len(Fixture), "resolving")
<1>1. RunInv(s) /\ s \in RunState /\ s.standing \subseteq db /\ s.phase = "loading"
  BY DEF IInv, LoadRow
<1>2. s.step \in Nat \ {0} /\ s.step <= Len(Fixture) /\ Len(Fixture) \in Nat
  BY <1>1, ParameterFacts DEF RunInv, RunState, StepInRange
<1>3. CASE Key(row) \in Keys(db)
  <2>1. SetRun(x, End(s, "failed"))
    BY <1>3 DEF LoadRow
  <2>2. RunInv(End(s, "failed")) /\ End(s, "failed").standing = s.standing
    BY <1>1, EndInv DEF Outcome
  <2> QED
    BY <1>1, <2>1, <2>2, RunStepInv
<1>4. CASE Key(row) \notin Keys(db)
  <2>1. SetRun(x, a)
    BY <1>4 DEF LoadRow
  <2>2. row \in FixtureRows
    BY <1>2, ParameterFacts
  <2>3. /\ t \in RunState /\ t.reads = s.reads /\ t.outcome = s.outcome
        /\ t.standing = s.standing /\ t.phase = s.phase /\ t.step = s.step
    BY <1>1, <2>2 DEF RunState
  <2> HIDE DEF t
  <2>4. /\ a \in RunState /\ a.reads = s.reads
        /\ a.outcome = s.outcome /\ a.standing = s.standing
        /\ s.step < Len(Fixture) => a.phase = s.phase /\ a.step = s.step + 1
        /\ ~(s.step < Len(Fixture)) => a.phase = "resolving" /\ a.step = 1
    <3>1. "resolving" \in Phase
      BY DEF Phase
    <3> HIDE DEF s
    <3> QED
      BY <1>2, <2>3, <3>1, AdvanceProperties
  <2>5. s.reads = <<>> /\ s.outcome = "none" /\ s.standing = {}
    BY <1>1 DEF RunInv, ReadsAreTyped, StandingIsUnchecked
  <2> HIDE DEF a, s
  <2>6. StepInRange(a) /\ ReadsAreTyped(a) /\ StandingIsUnchecked(a)
    BY <1>1, <1>2, <2>4, <2>5 DEF StepInRange, ReadsAreTyped, StandingIsUnchecked
  <2> QED
    BY <1>1, <2>1, <2>4, <2>6, RunStepInv DEF RunInv
<1> QED
  BY <1>3, <1>4

\* The scope is resolved, after which nothing has been read yet.
LEMMA ResolveInv ==
  ASSUME IInv, NEW x \in Run, Resolve(x)
  PROVE  IInv'
<1> DEFINE s == run[x]
           t == [s EXCEPT !.phase = "selecting"]
<1>1. RunInv(s) /\ s \in RunState /\ s.standing \subseteq db /\ s.phase = "resolving"
  BY DEF IInv, Resolve
<1>2. /\ t \in RunState /\ t.reads = s.reads /\ t.outcome = s.outcome
      /\ t.standing = s.standing /\ t.phase = "selecting" /\ t.step = s.step
  BY <1>1 DEF RunState, Phase
<1>3. s.step = 1 /\ s.reads = <<>> /\ s.outcome = "none" /\ s.standing = {}
  BY <1>1 DEF RunInv, StepInRange, ReadsAreTyped, StandingIsUnchecked
<1>4. RunInv(End(s, "failed")) /\ End(s, "failed").standing = s.standing
  BY <1>1, EndInv DEF Outcome
<1>5. SetRun(x, t) \/ SetRun(x, End(s, "failed"))
  BY DEF Resolve
<1> HIDE DEF t, s
<1>6. StepInRange(t) /\ ReadsAreTyped(t) /\ StandingIsUnchecked(t)
  BY <1>2, <1>3, ParameterFacts DEF StepInRange, ReadsAreTyped, StandingIsUnchecked
<1> QED
  BY <1>1, <1>2, <1>4, <1>5, <1>6, RunStepInv DEF RunInv

\* What a SELECT answers is in its table.
LEMMA SelectInv ==
  ASSUME IInv, NEW x \in Run, Select(x)
  PROVE  IInv'
<1> DEFINE s     == run[x]
           k     == s.step
           reads == s.reads
           rows  == Rows(Visible(x), Selects[k])
           Of(owners) == {l \in rows : l.refs[1] \in Keys(owners)}
           Kept(owners) == {l \in reads[3] : l.refs[1] \in Keys(owners)}
           t(answer) == [s EXCEPT !.reads = Append(@, answer)]
           a(answer) == Advance(t(answer), Len(Selects), "analysing")
<1>1. RunInv(s) /\ s \in RunState /\ s.standing \subseteq db /\ s.phase = "selecting"
  BY DEF IInv, Select
<1>2. /\ k \in Nat \ {0} /\ k <= 9
      /\ reads \in Seq(SUBSET AllRows) /\ Len(reads) = k - 1
      /\ \A i \in 1..Len(reads) : reads[i] \subseteq Rows(AllRows, Selects[i])
      /\ s.standing = {}
      /\ s.outcome = "none"
  BY <1>1, ParameterFacts
     DEF RunInv, RunState, StepInRange, ReadsAreTyped, StandingIsUnchecked
<1>3. Visible(x) \subseteq AllRows
  BY <1>1, ParameterFacts DEF IInv, RowsOfClients, RunState, Visible
<1>4. rows \subseteq Rows(AllRows, Selects[k])
  BY <1>3 DEF Rows
<1>5. PICK answer : /\ SetRun(x, a(answer))
                    /\ \/ answer = rows
                       \/ \E kept : k = 6 /\ answer = Of(reads[5] \ kept) \cup Kept(kept)
                       \/ answer = Of(reads[k - 1])
  BY DEF Select
<1>6. k = 6 => reads[3] \subseteq Rows(AllRows, Selects[k])
  <2>1. Selects[3] = Selects[6]
    BY DEF Selects
  <2>2. k = 6 => 3 \in 1..Len(reads)
    BY <1>2
  <2> HIDE DEF k, reads
  <2> QED
    BY <1>2, <2>1, <2>2
<1>7. answer \subseteq Rows(AllRows, Selects[k])
  <2> HIDE DEF k, reads, rows
  <2> QED
    BY <1>4, <1>5, <1>6
<1>8. /\ t(answer) \in RunState /\ t(answer).reads = Append(reads, answer)
      /\ t(answer).outcome = s.outcome /\ t(answer).standing = s.standing
      /\ t(answer).phase = s.phase /\ t(answer).step = k
  <2>1. answer \in SUBSET AllRows
    BY <1>7 DEF Rows
  <2>2. Append(reads, answer) \in Seq(SUBSET AllRows)
    BY <1>2, <2>1
  <2> QED
    BY <1>1, <2>2 DEF RunState
<1> HIDE DEF t
<1>9. /\ a(answer) \in RunState /\ a(answer).reads = Append(reads, answer)
      /\ a(answer).outcome = s.outcome /\ a(answer).standing = s.standing
      /\ k < 9 => a(answer).phase = "selecting" /\ a(answer).step = k + 1
      /\ ~(k < 9) => a(answer).phase = "analysing" /\ a(answer).step = 1
  <2>1. "analysing" \in Phase /\ Len(Selects) = 9 /\ Len(Selects) \in Nat
    BY ParameterFacts DEF Phase
  <2>2. t(answer) \in RunState
    BY <1>8
  <2>3. /\ a(answer) \in RunState /\ a(answer).reads = t(answer).reads
        /\ a(answer).outcome = t(answer).outcome
        /\ a(answer).standing = t(answer).standing
        /\ t(answer).step < Len(Selects) =>
             a(answer).phase = t(answer).phase /\ a(answer).step = t(answer).step + 1
        /\ ~(t(answer).step < Len(Selects)) =>
             a(answer).phase = "analysing" /\ a(answer).step = 1
    BY <2>1, <2>2, AdvanceProperties
  <2> HIDE DEF a, s, k, reads
  <2> QED
    BY <1>1, <1>8, <2>1, <2>3
<1> HIDE DEF a, reads, k, rows
<1>10. /\ Len(Append(reads, answer)) = k
       /\ \A i \in 1..k : Append(reads, answer)[i] \subseteq Rows(AllRows, Selects[i])
  <2>1. answer \in SUBSET AllRows
    BY <1>7 DEF Rows
  <2>2. /\ Len(Append(reads, answer)) = k
        /\ Append(reads, answer)[k] = answer
        /\ \A i \in 1..k - 1 : Append(reads, answer)[i] = reads[i]
    BY <1>2, <2>1
  <2> QED
    BY <1>2, <1>7, <2>2
<1>11. StepInRange(a(answer)) /\ ReadsAreTyped(a(answer)) /\ StandingIsUnchecked(a(answer))
  BY <1>2, <1>9, <1>10, ParameterFacts
     DEF StepInRange, ReadsAreTyped, StandingIsUnchecked
<1> QED
  BY <1>1, <1>5, <1>9, <1>11, RunStepInv DEF RunInv

\* The analysis follows the last SELECT, when no row is standing.
LEMMA AnalyseInv ==
  ASSUME IInv, NEW x \in Run, Analyse(x)
  PROVE  IInv'
<1> DEFINE s == run[x]
<1>1. RunInv(s) /\ s.standing \subseteq db /\ s.standing = {}
  BY DEF IInv, Analyse, RunInv, StandingIsUnchecked
<1>2. \E o \in Outcome : SetRun(x, End(s, o))
  BY DEF Analyse, Outcome
<1> HIDE DEF s
<1> QED
  BY <1>1, <1>2, EndInv, RunStepInv

\* A refusal of the schema keeps the standing rows.
LEMMA RefuseSchemaInv ==
  ASSUME IInv, NEW x \in Run, RefuseSchema(x)
  PROVE  IInv'
<1> DEFINE s == run[x]
<1>1. RunInv(s) /\ s.standing \subseteq db /\ SetRun(x, End(s, "not_ready"))
  BY DEF IInv, RefuseSchema
<1>2. RunInv(End(s, "not_ready")) /\ End(s, "not_ready").standing = s.standing
  BY <1>1, EndInv DEF Outcome
<1> HIDE DEF s
<1> QED
  BY <1>1, <1>2, RunStepInv

\* A failure keeps the standing rows, and is not about what was read.
LEMMA FailInv ==
  ASSUME IInv, NEW x \in Run, Fail(x)
  PROVE  IInv'
<1> DEFINE s == run[x]
<1>1. RunInv(s) /\ s.standing \subseteq db /\ SetRun(x, End(s, "failed"))
  BY DEF IInv, Fail
<1>2. RunInv(End(s, "failed")) /\ End(s, "failed").standing = s.standing
  BY <1>1, EndInv DEF Outcome
<1> HIDE DEF s
<1> QED
  BY <1>1, <1>2, RunStepInv

\* The rollback gives up the rows of the run itself only.
LEMMA RollbackInv ==
  ASSUME IInv, NEW x \in Run, Rollback(x)
  PROVE  IInv'
<1> DEFINE s == run[x]
           b == [s EXCEPT !.phase = "ended"]
           t == [b EXCEPT !.own = {}]
<1>1. RunInv(s) /\ s \in RunState /\ s.standing \subseteq db /\ SetRun(x, t)
  BY DEF IInv, Rollback
<1>2. /\ b \in RunState /\ b.reads = s.reads /\ b.outcome = s.outcome
      /\ b.standing = s.standing /\ b.phase = "ended"
  BY <1>1 DEF RunState, Phase
<1> HIDE DEF b
<1>3. /\ t \in RunState /\ t.reads = b.reads /\ t.outcome = b.outcome
      /\ t.standing = b.standing /\ t.phase = b.phase
  BY <1>2 DEF RunState
<1> HIDE DEF t, s
<1>4. StepInRange(t) /\ ReadsAreTyped(t) /\ StandingIsUnchecked(t)
  BY <1>1, <1>2, <1>3 DEF RunInv, StepInRange, ReadsAreTyped, StandingIsUnchecked
<1> QED
  BY <1>1, <1>2, <1>3, <1>4, RunStepInv DEF RunInv

-----------------------------------------------------------------------------
(***************************************************************************)
(* Other clients.                                                          *)
(***************************************************************************)
\* A client commits its rows.
LEMMA WriteBatchInv ==
  ASSUME IInv, NEW B \in Batches, WriteBatch(B)
  PROVE  IInv'
<1>1. db \cup B \subseteq UNION Batches /\ Committed(db \cup B)
  BY DEF IInv, RowsOfClients, WriteBatch
<1> QED
  BY <1>1, CommitInv

\* A client deletes a row with what cascades.
LEMMA DeleteRowInv ==
  ASSUME IInv, NEW r, DeleteRow(r)
  PROVE  IInv'
<1>1. PICK all : Committed(db \ all)
  BY DEF DeleteRow
<1>2. db \ all \subseteq UNION Batches
  BY DEF IInv, RowsOfClients
<1> QED
  BY <1>1, <1>2, CommitInv

-----------------------------------------------------------------------------
(***************************************************************************)
(* The theorems.                                                           *)
(***************************************************************************)
\* What holds of runs and rows in every behaviour, with any number of runs
\* of run_showcase and clients at work.
THEOREM Invariance == Spec => []IInv
<1>1. IInv /\ [Next]_vars => IInv'
  <2> SUFFICES ASSUME IInv, [Next]_vars
               PROVE  IInv'
    OBVIOUS
  <2>1. ASSUME NEW B \in Batches, WriteBatch(B) PROVE IInv'
    BY <2>1, WriteBatchInv
  <2>2. ASSUME NEW r \in db, DeleteRow(r) PROVE IInv'
    BY <2>2, DeleteRowInv
  <2>3. ASSUME NEW x \in Run, Start(x) PROVE IInv'
    BY <2>3, StartInv
  <2>4. ASSUME NEW x \in Run, Proceed(x) PROVE IInv'
    BY <2>4, CheckTableInv, LoadRowInv, ResolveInv, SelectInv, AnalyseInv, RollbackInv
       DEF Proceed
  <2>5. ASSUME NEW x \in Run, Fail(x) PROVE IInv'
    BY <2>5, FailInv
  <2>7. ASSUME NEW x \in Run, RefuseSchema(x) PROVE IInv'
    BY <2>7, RefuseSchemaInv
  <2>6. CASE UNCHANGED vars
    BY <2>6 DEF vars, IInv, RowsOfClients, CommitsInRange
  <2> QED
    BY <2>1, <2>2, <2>3, <2>4, <2>5, <2>6, <2>7 DEF Next
<1> QED
  BY <1>1, InitInv, PTL DEF Spec

\* The types of run_showcase's state, and of what each SELECT returns.
THEOREM TypeCorrect == Spec => []TypeOK
<1>1. IInv => TypeOK
  BY ParameterFacts
     DEF IInv, RowsOfClients, CommitsInRange, RunInv, RunState, ReadsAreTyped, TypeOK
<1> QED
  BY <1>1, Invariance, PTL

\* The rollback in run_showcase: no row of the fixture is ever committed.
THEOREM Privacy == Spec => []FixtureStaysPrivate
<1>1. IInv => FixtureStaysPrivate
  BY ClientsAndFixture DEF IInv, RowsOfClients, FixtureStaysPrivate
<1> QED
  BY <1>1, Invariance, PTL

\* ensure_database_ready: a row that is committed when a run starts, and
\* still when its check has ended, stops the run, whichever table it is in
\* and whatever is committed meanwhile.
THEOREM Refusal == Spec => []NonEmptyIsRefused
<1>1. IInv => NonEmptyIsRefused
  BY DEF IInv, RunInv, StandingIsUnchecked, NonEmptyIsRefused
<1> QED
  BY <1>1, Invariance, PTL

-----------------------------------------------------------------------------
(***************************************************************************)
(* What runs read.  The invariant says how the answers of the SELECTs of a *)
(* run relate to each other and to what is committed.                      *)
(***************************************************************************)
\* A run has inserted the fixture up to its step, and all of it when it reads.
OwnInv(s) ==
  /\ s.phase \in {"idle", "checking"} => s.own = {}
  /\ s.phase = "loading" => s.own = {Fixture[i] : i \in 1..s.step - 1}
  /\ s.phase \in {"resolving", "selecting", "analysing"} => s.own = FixtureRows
  /\ s.phase = "analysing" => Len(s.reads) = 9

\* Each answer holds the fixture's rows of its table, and foreign rows that
\* refer to foreign rows.
AnswersInv(R) ==
  \A k \in 1..Len(R) :
    /\ R[k] \cap FixtureRows = Rows(FixtureRows, Selects[k])
    /\ \A r \in R[k] \ FixtureRows : Refs(r) \subseteq Keys(UNION Batches)

\* The entities of a projected relationship are there as long as the run
\* selects, unless they were deleted meanwhile; so they are listed.
EndpointsInv(s, D) ==
  /\ s.phase = "selecting" /\ Len(s.reads) >= 2 =>
       \A r \in s.reads[2] : Refs(r) \subseteq Keys(D \cup FixtureRows) \cup s.lost
  /\ Len(s.reads) >= 4 =>
       \A r \in s.reads[2] : Refs(r) \subseteq Keys(s.reads[4]) \cup s.lost

\* The evidence of every link is there: it is never deleted.
ClosureInv(R, D) ==
  /\ \A k \in {3, 6} : k <= Len(R) => \A l \in R[k] : l.refs[2] \in Keys(D \cup FixtureRows)
  /\ Len(R) >= 7 => \A l \in R[6] : l.refs[2] \in Keys(R[7])

\* As long as no client commits, what was committed at the start of a run is
\* all there is, and it reads nothing but the fixture.
QuietInv(s, D) ==
  s.quiet => /\ s.phase # "idle" => s.standing = D
             /\ \A k \in 1..Len(s.reads) : s.reads[k] \subseteq FixtureRows
             /\ s.outcome # "inconsistent"

ReportInv(s) == s.outcome = "report" => Len(s.reads) = 9 /\ AllProjected(s.reads)

DetailInv(s, D) ==
  /\ OwnInv(s) /\ AnswersInv(s.reads)
  /\ EndpointsInv(s, D) /\ ClosureInv(s.reads, D)
  /\ QuietInv(s, D) /\ ReportInv(s)

ReadInv == ReferencesHold(db) /\ \A x \in Run : DetailInv(run[x], db)

-----------------------------------------------------------------------------
(***************************************************************************)
(* Rows and their keys.                                                    *)
(***************************************************************************)
\* The references of a row, by the columns of its table.
LEMMA RowReferences ==
  ASSUME NEW r \in AllRows
  PROVE  /\ r.table = "relationships" =>
              /\ Refs(r) = {r.refs[1], r.refs[2]}
              /\ r.refs[1][1] = "entities" /\ r.refs[2][1] = "entities"
         /\ r.table = "relationship_evidence" =>
              /\ Refs(r) = {r.refs[1], r.refs[2]}
              /\ r.refs[1][1] = "relationships" /\ r.refs[2][1] = "evidence"
         /\ r.table = "finding_evidence" =>
              /\ Refs(r) = {r.refs[1], r.refs[2]}
              /\ r.refs[1][1] = "findings" /\ r.refs[2][1] = "evidence"
         /\ r.table = "findings" => Refs(r) = {r.refs[1]} /\ r.refs[1][1] = "entities"
         /\ r.table = "scope_definitions" => Refs(r) = {r.refs[1]} /\ r.refs[1][1] = "scopes"
         /\ r.table \notin {"relationships", "relationship_evidence", "finding_evidence",
                            "findings", "scope_definitions"} => Refs(r) = {}
<1>1. /\ Len(r.refs) = Len(Parents(r.table))
      /\ \A i \in 1..Len(r.refs) : r.refs[i][1] = Parents(r.table)[i]
  BY RowsAreTyped
<1>2. CASE r.table = "relationships"
  <2>1. Parents(r.table) = <<"entities", "entities">>
    BY <1>2 DEF Parents
  <2>2. Len(r.refs) = 2 /\ r.refs[1][1] = "entities" /\ r.refs[2][1] = "entities"
    BY <1>1, <2>1
  <2>3. 1..Len(r.refs) = {1, 2}
    BY <2>2
  <2>4. Refs(r) = {r.refs[1], r.refs[2]}
    BY <2>3 DEF Refs
  <2> QED
    BY <1>2, <2>2, <2>4
<1>3. CASE r.table = "relationship_evidence"
  <2>1. Parents(r.table) = <<"relationships", "evidence">>
    BY <1>3 DEF Parents
  <2>2. Len(r.refs) = 2 /\ r.refs[1][1] = "relationships" /\ r.refs[2][1] = "evidence"
    BY <1>1, <2>1
  <2>3. 1..Len(r.refs) = {1, 2}
    BY <2>2
  <2>4. Refs(r) = {r.refs[1], r.refs[2]}
    BY <2>3 DEF Refs
  <2> QED
    BY <1>3, <2>2, <2>4
<1>4. CASE r.table = "finding_evidence"
  <2>1. Parents(r.table) = <<"findings", "evidence">>
    BY <1>4 DEF Parents
  <2>2. Len(r.refs) = 2 /\ r.refs[1][1] = "findings" /\ r.refs[2][1] = "evidence"
    BY <1>1, <2>1
  <2>3. 1..Len(r.refs) = {1, 2}
    BY <2>2
  <2>4. Refs(r) = {r.refs[1], r.refs[2]}
    BY <2>3 DEF Refs
  <2> QED
    BY <1>4, <2>2, <2>4
<1>5. CASE r.table = "findings"
  <2>1. Parents(r.table) = <<"entities">>
    BY <1>5 DEF Parents
  <2>2. Len(r.refs) = 1 /\ r.refs[1][1] = "entities"
    BY <1>1, <2>1
  <2>3. 1..Len(r.refs) = {1}
    BY <2>2
  <2>4. Refs(r) = {r.refs[1]}
    BY <2>3 DEF Refs
  <2> QED
    BY <1>5, <2>2, <2>4
<1>6. CASE r.table = "scope_definitions"
  <2>1. Parents(r.table) = <<"scopes">>
    BY <1>6 DEF Parents
  <2>2. Len(r.refs) = 1 /\ r.refs[1][1] = "scopes"
    BY <1>1, <2>1
  <2>3. 1..Len(r.refs) = {1}
    BY <2>2
  <2>4. Refs(r) = {r.refs[1]}
    BY <2>3 DEF Refs
  <2> QED
    BY <1>6, <2>2, <2>4
<1>7. CASE r.table \notin {"relationships", "relationship_evidence", "finding_evidence",
                           "findings", "scope_definitions"}
  <2>1. Parents(r.table) = <<>>
    BY <1>7 DEF Parents
  <2>2. Len(r.refs) = 0
    BY <1>1, <2>1
  <2>3. Refs(r) = {}
    BY <2>2 DEF Refs
  <2> QED
    BY <1>7, <2>3
<1> QED
  BY <1>2, <1>3, <1>4, <1>5, <1>6, <1>7

\* Keys of the fixture are never those of clients, the fixture is closed, and
\* a key names one row.
LEMMA KeyFacts ==
  /\ \A r \in FixtureRows : Refs(r) \subseteq Keys(FixtureRows)
  /\ Keys(FixtureRows) \cap Keys(UNION Batches) = {}
  /\ \A r, q \in AllRows : Key(r) = Key(q) => r = q /\ r.table = q.table
  /\ \A R : \A r \in R : Key(r) \in Keys(R)
  /\ \A R : \A key \in Keys(R) : \E r \in R : key = Key(r) /\ key[1] = r.table /\ key[2] = r.id
  /\ \A R, S : R \subseteq S => Keys(R) \subseteq Keys(S)
<1>1. ASSUME NEW r \in FixtureRows PROVE Refs(r) \subseteq Keys(FixtureRows)
  <2>1. PICK i \in 1..Len(Fixture) : r = Fixture[i]
    BY DEF FixtureRows
  <2>2. Refs(r) \subseteq {Key(Fixture[j]) : j \in 1..i - 1}
    BY <2>1, FixtureIsComplete
  <2>3. \A j \in 1..i - 1 : Fixture[j] \in FixtureRows
    BY ParameterFacts
  <2> QED
    BY <2>2, <2>3 DEF Keys
<1>2. Keys(FixtureRows) \cap Keys(UNION Batches) = {}
  BY FixtureIsComplete
<1>3. \A r, q \in AllRows : Key(r) = Key(q) => r = q /\ r.table = q.table
  BY RowsAreTyped
<1>4. \A R : \A r \in R : Key(r) \in Keys(R)
  BY DEF Keys
<1>5. \A R : \A key \in Keys(R) : \E r \in R : key = Key(r) /\ key[1] = r.table /\ key[2] = r.id
  BY DEF Keys, Key
<1>6. \A R, S : R \subseteq S => Keys(R) \subseteq Keys(S)
  BY DEF Keys
<1> QED
  BY <1>1, <1>2, <1>3, <1>4, <1>5, <1>6

-----------------------------------------------------------------------------
(***************************************************************************)
(* Commits of clients.                                                     *)
(***************************************************************************)
\* Evidence that stays keeps the answers of a run closed.
LEMMA ClosureKept ==
  ASSUME NEW R, NEW D, NEW E, ClosureInv(R, D), Len(R) \in Nat,
         \A k \in 1..Len(R) : R[k] \subseteq Rows(AllRows, Selects[k]),
         \A r \in D : r.table = "evidence" => r \in E
  PROVE  ClosureInv(R, E)
<1>1. \A k \in {3, 6} : k <= Len(R) => \A l \in R[k] : l.refs[2] \in Keys(E \cup FixtureRows)
  <2> SUFFICES ASSUME NEW k \in {3, 6}, k <= Len(R), NEW l \in R[k]
               PROVE  l.refs[2] \in Keys(E \cup FixtureRows)
    OBVIOUS
  <2>1. l.refs[2] \in Keys(D \cup FixtureRows)
    BY DEF ClosureInv
  <2>2. PICK q \in D \cup FixtureRows : l.refs[2] = Key(q) /\ l.refs[2][1] = q.table
    BY <2>1, KeyFacts
  <2>3. l \in AllRows /\ l.table = "relationship_evidence"
    <3>1. k \in 1..Len(R)
      OBVIOUS
    <3>2. Selects[k] = "relationship_evidence"
      BY DEF Selects
    <3> QED
      BY <3>1, <3>2 DEF Rows
  <2>4. q.table = "evidence"
    BY <2>2, <2>3, RowReferences
  <2>5. q \in E \cup FixtureRows
    BY <2>4
  <2> QED
    BY <2>2, <2>5, KeyFacts
<1> QED
  BY <1>1 DEF ClosureInv

\* An entity that a client deletes while a run selects is lost to it.
LEMMA EndpointsKept ==
  ASSUME NEW s \in RunState, NEW D, NEW E, NEW t, EndpointsInv(s, D),
         \A k \in 1..Len(s.reads) : s.reads[k] \subseteq Rows(AllRows, Selects[k]),
         t.phase = s.phase, t.reads = s.reads, s.lost \subseteq t.lost,
         s.phase = "selecting" => Keys(Rows(D \ E, "entities")) \subseteq t.lost
  PROVE  EndpointsInv(t, E)
<1>1. ASSUME s.phase = "selecting", Len(s.reads) >= 2, NEW r \in s.reads[2], NEW key \in Refs(r)
      PROVE  key \in Keys(E \cup FixtureRows) \cup t.lost
  <2>1. key \in Keys(D \cup FixtureRows) \/ key \in t.lost
    BY <1>1 DEF EndpointsInv
  <2>2. SUFFICES ASSUME key \in Keys(D \cup FixtureRows)
                 PROVE  key \in Keys(E \cup FixtureRows) \/ key \in t.lost
    BY <2>1
  <2>3. PICK q \in D \cup FixtureRows : key = Key(q) /\ key[1] = q.table
    BY <2>2, KeyFacts
  <2>4. r \in AllRows /\ r.table = "relationships"
    <3>1. Len(s.reads) \in Nat
      BY DEF RunState
    <3>2. 2 \in 1..Len(s.reads) /\ Selects[2] = "relationships"
      BY <1>1, <3>1 DEF Selects
    <3> QED
      BY <1>1, <3>2 DEF Rows
  <2>5. q.table = "entities"
    BY <1>1, <2>3, <2>4, RowReferences
  <2>6. CASE q \in E \cup FixtureRows
    BY <2>3, <2>6, KeyFacts
  <2>7. CASE q \notin E \cup FixtureRows
    <3>1. q \in Rows(D \ E, "entities")
      BY <2>3, <2>5, <2>7 DEF Rows
    <3> QED
      BY <1>1, <2>3, <3>1, KeyFacts
  <2> QED
    BY <2>6, <2>7
<1>2. Len(s.reads) >= 4 =>
        \A r \in s.reads[2] : Refs(r) \subseteq Keys(s.reads[4]) \cup t.lost
  BY DEF EndpointsInv
<1> QED
  BY <1>1, <1>2 DEF EndpointsInv

\* A commit of a client concerns a run only by what is committed now.
LEMMA CommitRead ==
  ASSUME IInv, ReadInv, NEW R, Committed(R), ReferencesHold(R),
         \A r \in db : r.table = "evidence" => r \in R
  PROVE  ReadInv'
<1> DEFINE New(x) == AfterCommit(run[x], R)
<1>1. ASSUME NEW x \in Run
      PROVE  DetailInv(New(x), R)
  <2> DEFINE s == run[x]
  <2>1. s \in RunState /\ RunInv(s) /\ DetailInv(s, db) /\ db \subseteq AllRows
    BY ParameterFacts DEF IInv, ReadInv, RowsOfClients
  <2>2. /\ New(x).phase = s.phase /\ New(x).step = s.step /\ New(x).own = s.own
        /\ New(x).reads = s.reads /\ New(x).outcome = s.outcome /\ New(x).quiet = FALSE
        /\ s.lost \subseteq New(x).lost
        /\ s.phase = "selecting" => Keys(Rows(db \ R, "entities")) \subseteq New(x).lost
    BY <2>1, AfterCommitFacts, ZenonT(40)
  <2> HIDE DEF New
  <2>3. OwnInv(New(x)) /\ QuietInv(New(x), R) /\ ReportInv(New(x))
    BY <2>1, <2>2 DEF DetailInv, OwnInv, QuietInv, ReportInv
  <2>4. \A k \in 1..Len(s.reads) : s.reads[k] \subseteq Rows(AllRows, Selects[k])
    BY <2>1 DEF RunInv, ReadsAreTyped
  <2>5. ClosureInv(s.reads, R)
    <3>1. Len(s.reads) \in Nat
      BY <2>1 DEF RunState
    <3>2. ClosureInv(s.reads, db)
      BY <2>1 DEF DetailInv
    <3> HIDE DEF s
    <3> QED
      BY <2>4, <3>1, <3>2, ClosureKept
  <2>6. EndpointsInv(New(x), R)
    <3>1. EndpointsInv(s, db)
      BY <2>1 DEF DetailInv
    <3> HIDE DEF s
    <3> QED
      BY <2>1, <2>2, <2>4, <3>1, EndpointsKept
  <2> QED
    BY <2>1, <2>2, <2>3, <2>5, <2>6 DEF DetailInv
<1>2. run' = [x \in Run |-> New(x)] /\ db' = R
  BY DEF Committed, AfterCommit
<1> HIDE DEF New
<1> QED
  BY <1>1, <1>2 DEF ReadInv

\* What a client commits takes no evidence away.
LEMMA WriteBatchRead ==
  ASSUME IInv, ReadInv, NEW B \in Batches, WriteBatch(B)
  PROVE  ReadInv'
<1>1. Committed(db \cup B) /\ ReferencesHold(db \cup B)
  BY DEF WriteBatch
<1> QED
  BY <1>1, CommitRead

\* A row goes with what refers to it, and what refers to that: nothing else
\* referred to any of these.
LEMMA DeleteRowRead ==
  ASSUME IInv, ReadInv, NEW r, DeleteRow(r)
  PROVE  ReadInv'
<1> DEFINE direct == {q \in db : q = r \/ Key(r) \in Refs(q)}
           all == {q \in db : q \in direct \/ Refs(q) \cap Keys(direct) # {}}
<1>1. /\ r \in db /\ r.table \in {"entities", "relationships", "findings"}
      /\ Committed(db \ all)
  BY DEF DeleteRow
<1>2. db \subseteq AllRows
  BY ParameterFacts DEF IInv, RowsOfClients
<1>3. \A q \in direct : q = r \/ Key(r) \in Refs(q)
  OBVIOUS
<1>4. \A q : q \in all <=> q \in db /\ (q \in direct \/ Refs(q) \cap Keys(direct) # {})
  OBVIOUS
<1>5. \A q : q \in direct <=> q \in db /\ (q = r \/ Key(r) \in Refs(q))
  OBVIOUS
<1> HIDE DEF direct, all
<1>6. \A q : Key(q)[1] = q.table
  BY DEF Key
<1>7. \A q \in direct : q = r \/ q.table # "evidence"
  <2>1. \A q \in AllRows : q.table = "evidence" => Refs(q) = {}
    BY RowReferences
  <2> QED
    BY <1>2, <1>5, <2>1
<1>8. \A q \in db : q.table = "evidence" => q \in db \ all
  <2>1. \A q \in AllRows : q.table = "evidence" => Refs(q) = {}
    BY RowReferences
  <2> QED
    BY <1>1, <1>2, <1>4, <1>7, <2>1
<1>9. ASSUME NEW q \in db \ all, NEW key \in Refs(q)
      PROVE  key \in Keys(db \ all)
  <2>1. key \in Keys(db)
    BY <1>9 DEF ReadInv, ReferencesHold
  <2>2. PICK d \in db : key = Key(d) /\ key[1] = d.table
    BY <2>1, KeyFacts
  <2>3. d \notin direct
    <3> SUFFICES ASSUME d \in direct PROVE FALSE
      OBVIOUS
    <3>1. key \in Refs(q) \cap Keys(direct)
      BY <1>9, <2>2, KeyFacts
    <3> QED
      BY <1>4, <1>9, <3>1
  <2>4. d \notin all
    <3> SUFFICES ASSUME d \in all PROVE FALSE
      OBVIOUS
    <3>1. PICK key2 \in Refs(d) : key2 \in Keys(direct)
      BY <1>4, <2>3
    <3>2. PICK e \in direct : key2 = Key(e) /\ key2[1] = e.table
      BY <3>1, KeyFacts
    <3>3. e # r
      BY <1>5, <2>3, <3>1, <3>2
    <3>4. Key(r) \in Refs(e)
      BY <1>3, <3>3
    <3>5. q \in AllRows /\ d \in AllRows /\ e \in AllRows
      BY <1>2, <1>5, <1>9
    <3>6. Refs(e) # {} /\ e.table # "scope_definitions"
      <4>1. e.table = "scope_definitions" => Key(r)[1] = "scopes"
        BY <3>4, <3>5, RowReferences
      <4> QED
        BY <1>1, <1>6, <3>4, <4>1
    <3>7. e.table \in {"relationships", "relationship_evidence", "finding_evidence", "findings"}
      BY <3>5, <3>6, RowReferences
    <3>8. d.table \in {"relationship_evidence", "finding_evidence"}
      BY <3>1, <3>2, <3>5, <3>7, RowReferences
    <3>9. key[1] \notin {"relationship_evidence", "finding_evidence"}
      BY <1>9, <3>5, RowReferences
    <3> QED
      BY <2>2, <3>8, <3>9
  <2>5. d \in db \ all
    BY <2>4
  <2> QED
    BY <2>2, <2>5, KeyFacts
<1>10. ReferencesHold(db \ all)
  BY <1>9 DEF ReferencesHold
<1> QED
  BY <1>1, <1>8, <1>10, CommitRead


-----------------------------------------------------------------------------
(***************************************************************************)
(* What the steps of a run read.                                           *)
(***************************************************************************)
\* A step of a run concerns no other run.
LEMMA RunStepRead ==
  ASSUME IInv, ReadInv, NEW x \in Run, NEW s, SetRun(x, s), DetailInv(s, db)
  PROVE  ReadInv'
<1>1. run' = [run EXCEPT ![x] = s] /\ db' = db
  BY DEF SetRun
<1>2. \A y \in Run : run'[y] = IF y = x THEN s ELSE run[y]
  BY <1>1 DEF IInv
<1>3. \A y \in Run : DetailInv(run'[y], db)
  BY <1>2 DEF ReadInv
<1>4. ReferencesHold(db)'
  BY <1>1 DEF ReadInv, ReferencesHold
<1> QED
  BY <1>1, <1>3, <1>4 DEF ReadInv

\* What is known of a run before one of its steps.
LEMMA RunFacts ==
  ASSUME IInv, ReadInv, NEW x \in Run
  PROVE  /\ run[x] \in RunState /\ RunInv(run[x]) /\ DetailInv(run[x], db)
         /\ run[x].step \in Nat \ {0} /\ Len(run[x].reads) \in Nat
         /\ db \subseteq AllRows /\ db \subseteq UNION Batches
<1>1. run[x] \in RunState /\ RunInv(run[x]) /\ DetailInv(run[x], db)
  BY DEF IInv, ReadInv
<1>2. run[x].step \in Nat \ {0} /\ Len(run[x].reads) \in Nat
  BY <1>1 DEF RunState
<1>3. db \subseteq AllRows /\ db \subseteq UNION Batches
  BY ParameterFacts DEF IInv, RowsOfClients
<1> QED
  BY <1>1, <1>2, <1>3

\* A run that ends keeps what it has read.
LEMMA EndRead ==
  ASSUME NEW s \in RunState, NEW D, DetailInv(s, D), NEW o \in Outcome,
         s.phase # "idle",
         o = "inconsistent" => ~s.quiet,
         o = "report" => Len(s.reads) = 9 /\ AllProjected(s.reads)
  PROVE  DetailInv(End(s, o), D)
<1>1. /\ End(s, o).phase = "ending" /\ End(s, o).outcome = o /\ End(s, o).own = s.own
      /\ End(s, o).reads = s.reads /\ End(s, o).standing = s.standing
      /\ End(s, o).quiet = s.quiet /\ End(s, o).lost = s.lost
  BY DEF End, RunState
<1> QED
  BY <1>1 DEF DetailInv, OwnInv, EndpointsInv, QuietInv, ReportInv

\* A run begins with nothing inserted and nothing read.
LEMMA StartRead ==
  ASSUME IInv, ReadInv, NEW x \in Run, Start(x)
  PROVE  ReadInv'
<1> DEFINE s == [NewRun EXCEPT !.phase = "checking", !.standing = db]
<1>1. /\ s.phase = "checking" /\ s.own = {} /\ s.reads = <<>> /\ s.outcome = "none"
      /\ s.standing = db
  BY DEF NewRun
<1>2. SetRun(x, s)
  BY DEF Start
<1> HIDE DEF s
<1>3. Len(s.reads) = 0
  BY <1>1
<1>4. OwnInv(s) /\ QuietInv(s, db) /\ ReportInv(s)
  BY <1>1, <1>3 DEF OwnInv, QuietInv, ReportInv
<1>5. AnswersInv(s.reads) /\ EndpointsInv(s, db) /\ ClosureInv(s.reads, db)
  BY <1>3 DEF AnswersInv, EndpointsInv, ClosureInv
<1> QED
  BY <1>2, <1>4, <1>5, RunStepRead DEF DetailInv

\* The check reads nothing that is kept.
LEMMA CheckTableRead ==
  ASSUME IInv, ReadInv, NEW x \in Run, CheckTable(x)
  PROVE  ReadInv'
<1> DEFINE s == run[x]
           a == Advance(s, Len(Tables), "loading")
<1>1. s \in RunState /\ DetailInv(s, db) /\ s.phase = "checking"
  BY RunFacts DEF CheckTable
<1>2. RunInv(s) /\ s.outcome = "none" /\ Len(s.reads) = 0
  <2>1. s.reads = <<>>
    BY <1>1, RunFacts DEF RunInv, ReadsAreTyped
  <2> QED
    BY <1>1, <2>1, RunFacts DEF RunInv, StandingIsUnchecked
<1>3. DetailInv(End(s, "not_ready"), db)
  <2>1. "not_ready" \in Outcome
    BY DEF Outcome
  <2> HIDE DEF s
  <2> QED
    BY <1>1, <2>1, EndRead
<1>4. /\ a.own = s.own /\ a.reads = s.reads /\ a.outcome = s.outcome
      /\ a.standing = s.standing /\ a.quiet = s.quiet
      /\ \/ a.phase = "checking"
         \/ a.phase = "loading" /\ a.step = 1
  <2>1. "loading" \in Phase /\ Len(Tables) \in Nat
    BY ParameterFacts DEF Phase
  <2> HIDE DEF s
  <2> QED
    BY <1>1, <2>1, AdvanceProperties
<1>5. SetRun(x, a) \/ SetRun(x, End(s, "not_ready"))
  BY DEF CheckTable
<1> HIDE DEF a, s
<1>6. OwnInv(a)
  <2>1. s.own = {}
    BY <1>1 DEF DetailInv, OwnInv
  <2>2. {Fixture[i] : i \in 1..1 - 1} = {}
    OBVIOUS
  <2> QED
    BY <1>4, <2>1, <2>2 DEF OwnInv
<1>7. EndpointsInv(a, db) /\ QuietInv(a, db) /\ ReportInv(a)
  BY <1>1, <1>2, <1>4 DEF DetailInv, EndpointsInv, QuietInv, ReportInv
<1>8. DetailInv(a, db)
  BY <1>1, <1>4, <1>6, <1>7 DEF DetailInv
<1> QED
  BY <1>3, <1>5, <1>8, RunStepRead

\* After the last insert the run has the whole fixture.
LEMMA LoadRowRead ==
  ASSUME IInv, ReadInv, NEW x \in Run, LoadRow(x)
  PROVE  ReadInv'
<1> DEFINE s == run[x]
           row == Fixture[s.step]
           t == [s EXCEPT !.own = @ \cup {row}]
           a == Advance(t, Len(Fixture), "resolving")
<1>1. s \in RunState /\ DetailInv(s, db) /\ s.phase = "loading"
  BY RunFacts DEF LoadRow
<1>2. s.step \in Nat \ {0} /\ s.step <= Len(Fixture) /\ Len(Fixture) \in Nat
  BY <1>1, RunFacts, ParameterFacts DEF RunInv, StepInRange
<1>3. DetailInv(End(s, "failed"), db)
  <2>1. "failed" \in Outcome
    BY DEF Outcome
  <2> HIDE DEF s
  <2> QED
    BY <1>1, <2>1, EndRead
<1>4. s.outcome = "none" /\ Len(s.reads) = 0
  <2>1. s.reads = <<>>
    BY <1>1, RunFacts DEF RunInv, ReadsAreTyped
  <2> QED
    BY <1>1, <2>1, RunFacts DEF RunInv, StandingIsUnchecked
<1>5. SetRun(x, a) \/ SetRun(x, End(s, "failed"))
  BY DEF LoadRow
<1>6. row \in FixtureRows
  BY <1>2, ParameterFacts
<1>7. /\ t \in RunState /\ t.own = s.own \cup {row} /\ t.reads = s.reads
      /\ t.outcome = s.outcome /\ t.standing = s.standing /\ t.quiet = s.quiet
      /\ t.phase = "loading" /\ t.step = s.step
  BY <1>1, <1>6 DEF RunState
<1> HIDE DEF t
<1>8. /\ a.own = t.own /\ a.reads = s.reads /\ a.outcome = s.outcome
      /\ a.standing = s.standing /\ a.quiet = s.quiet
      /\ s.step < Len(Fixture) => a.phase = "loading" /\ a.step = s.step + 1
      /\ ~(s.step < Len(Fixture)) => a.phase = "resolving"
  <2>1. "resolving" \in Phase
    BY DEF Phase
  <2> HIDE DEF s
  <2> QED
    BY <1>2, <1>7, <2>1, AdvanceProperties
<1>9. t.own = {Fixture[i] : i \in 1..s.step}
  <2>1. s.own = {Fixture[i] : i \in 1..s.step - 1}
    BY <1>1 DEF DetailInv, OwnInv
  <2>2. \A i : i \in 1..s.step <=> i \in 1..s.step - 1 \/ i = s.step
    BY <1>2
  <2> HIDE DEF s
  <2> QED
    BY <1>7, <2>1, <2>2
<1> HIDE DEF a, s, row
<1>10. OwnInv(a)
  <2>1. CASE s.step < Len(Fixture)
    <3>1. a.step - 1 = s.step
      BY <1>2, <1>8, <2>1
    <3>2. a.own = {Fixture[i] : i \in 1..a.step - 1}
      BY <1>8, <1>9, <3>1
    <3> QED
      BY <1>8, <2>1, <3>2 DEF OwnInv
  <2>2. CASE ~(s.step < Len(Fixture))
    <3>1. s.step = Len(Fixture)
      BY <1>2, <2>2
    <3> QED
      BY <1>8, <1>9, <2>2, <3>1 DEF OwnInv, FixtureRows
  <2> QED
    BY <2>1, <2>2
<1>11. EndpointsInv(a, db) /\ QuietInv(a, db) /\ ReportInv(a)
  BY <1>1, <1>4, <1>8 DEF DetailInv, EndpointsInv, QuietInv, ReportInv
<1>12. DetailInv(a, db)
  BY <1>1, <1>8, <1>10, <1>11 DEF DetailInv
<1> QED
  BY <1>3, <1>5, <1>12, RunStepRead

\* Resolving the scope leaves the rows as they are.
LEMMA ResolveRead ==
  ASSUME IInv, ReadInv, NEW x \in Run, Resolve(x)
  PROVE  ReadInv'
<1> DEFINE s == run[x]
           t == [s EXCEPT !.phase = "selecting"]
<1>1. s \in RunState /\ DetailInv(s, db) /\ s.phase = "resolving"
  BY RunFacts DEF Resolve
<1>2. s.outcome = "none" /\ Len(s.reads) = 0
  <2>1. s.reads = <<>>
    BY <1>1, RunFacts DEF RunInv, ReadsAreTyped
  <2> QED
    BY <1>1, <2>1, RunFacts DEF RunInv, StandingIsUnchecked
<1>3. DetailInv(End(s, "failed"), db)
  <2>1. "failed" \in Outcome
    BY DEF Outcome
  <2> HIDE DEF s
  <2> QED
    BY <1>1, <2>1, EndRead
<1>4. /\ t.own = s.own /\ t.reads = s.reads /\ t.outcome = s.outcome
      /\ t.standing = s.standing /\ t.quiet = s.quiet /\ t.phase = "selecting"
  BY <1>1 DEF RunState
<1>5. SetRun(x, t) \/ SetRun(x, End(s, "failed"))
  BY DEF Resolve
<1> HIDE DEF t, s
<1>6. OwnInv(t) /\ EndpointsInv(t, db) /\ QuietInv(t, db) /\ ReportInv(t)
  BY <1>1, <1>2, <1>4 DEF DetailInv, OwnInv, EndpointsInv, QuietInv, ReportInv
<1>7. DetailInv(t, db)
  BY <1>1, <1>4, <1>6 DEF DetailInv
<1> QED
  BY <1>3, <1>5, <1>7, RunStepRead


\* A refusal of the schema comes before anything is read.
LEMMA RefuseSchemaRead ==
  ASSUME IInv, ReadInv, NEW x \in Run, RefuseSchema(x)
  PROVE  ReadInv'
<1> DEFINE s == run[x]
<1>1. s \in RunState /\ DetailInv(s, db) /\ s.phase # "idle" /\ SetRun(x, End(s, "not_ready"))
  BY RunFacts DEF RefuseSchema
<1>2. "not_ready" \in Outcome
  BY DEF Outcome
<1> HIDE DEF s
<1>3. DetailInv(End(s, "not_ready"), db)
  BY <1>1, <1>2, EndRead
<1> QED
  BY <1>1, <1>3, RunStepRead

\* A failure says nothing of what was read.
LEMMA FailRead ==
  ASSUME IInv, ReadInv, NEW x \in Run, Fail(x)
  PROVE  ReadInv'
<1> DEFINE s == run[x]
<1>1. s \in RunState /\ DetailInv(s, db) /\ s.phase # "idle" /\ SetRun(x, End(s, "failed"))
  BY RunFacts DEF Fail
<1>2. "failed" \in Outcome
  BY DEF Outcome
<1> HIDE DEF s
<1>3. DetailInv(End(s, "failed"), db)
  BY <1>1, <1>2, EndRead
<1> QED
  BY <1>1, <1>3, RunStepRead

\* The rollback gives up what was inserted, not what was read.
LEMMA RollbackRead ==
  ASSUME IInv, ReadInv, NEW x \in Run, Rollback(x)
  PROVE  ReadInv'
<1> DEFINE s == run[x]
           b == [s EXCEPT !.phase = "ended"]
           t == [b EXCEPT !.own = {}]
<1>1. /\ s \in RunState /\ DetailInv(s, db) /\ s.phase = "ending"
      /\ SetRun(x, t)
  BY RunFacts DEF Rollback
<1>2. /\ b \in RunState /\ b.reads = s.reads /\ b.outcome = s.outcome
      /\ b.standing = s.standing /\ b.quiet = s.quiet /\ b.phase = "ended"
      /\ b.lost = s.lost
  BY <1>1 DEF RunState, Phase
<1> HIDE DEF b
<1>3. /\ t.own = {} /\ t.reads = s.reads /\ t.outcome = s.outcome
      /\ t.standing = s.standing /\ t.quiet = s.quiet /\ t.phase = "ended"
      /\ t.lost = s.lost
  BY <1>2 DEF RunState
<1> HIDE DEF t, s
<1>4. OwnInv(t) /\ EndpointsInv(t, db) /\ QuietInv(t, db) /\ ReportInv(t)
  BY <1>1, <1>3 DEF DetailInv, OwnInv, EndpointsInv, QuietInv, ReportInv
<1>5. DetailInv(t, db)
  BY <1>1, <1>3, <1>4 DEF DetailInv
<1> QED
  BY <1>1, <1>5, RunStepRead

\* A SELECT answers with all visible rows of its table or, for links, with
\* those of the rows answered before; the kept links are visible as well or
\* were answered earlier.
IsAnswer(answer, R, V, k) ==
  /\ answer \subseteq Rows(AllRows, Selects[k])
  /\ Selects[k] \notin Links => answer = Rows(V, Selects[k])
  /\ \A l \in answer : l \in Rows(V, Selects[k]) \/ (k = 6 /\ l \in R[3])
  /\ Selects[k] \in Links =>
       \A l \in Rows(V, Selects[k]) :
         l.refs[1] \in Keys(R[k - 1]) /\ (k = 6 => l \in R[3]) => l \in answer

LEMMA SelectAnswer ==
  ASSUME IInv, ReadInv, NEW x \in Run, Select(x)
  PROVE  \E answer :
           /\ SetRun(x, Advance([run[x] EXCEPT !.reads = Append(@, answer)],
                                Len(Selects), "analysing"))
           /\ IsAnswer(answer, run[x].reads, Visible(x), run[x].step)
<1> DEFINE s     == run[x]
           k     == s.step
           reads == s.reads
           V     == Visible(x)
           rows  == Rows(V, Selects[k])
           Of(owners) == {l \in rows : l.refs[1] \in Keys(owners)}
           Kept(owners) == {l \in reads[3] : l.refs[1] \in Keys(owners)}
           To(answer) == SetRun(x, Advance([s EXCEPT !.reads = Append(@, answer)],
                                           Len(Selects), "analysing"))
<1>1. RunInv(s) /\ s \in RunState /\ s.phase = "selecting"
  BY RunFacts DEF Select
<1>2. /\ k \in Nat \ {0} /\ k <= 9 /\ Len(reads) = k - 1
      /\ \A i \in 1..Len(reads) : reads[i] \subseteq Rows(AllRows, Selects[i])
  BY <1>1, ParameterFacts DEF RunInv, RunState, StepInRange, ReadsAreTyped
<1>3. V \subseteq AllRows
  BY <1>1, RunFacts, ParameterFacts DEF RunState, Visible
<1>4. rows \subseteq Rows(AllRows, Selects[k])
  BY <1>3 DEF Rows
<1>5. PICK answer : /\ To(answer)
                    /\ \/ Selects[k] \notin Links /\ answer = rows
                       \/ /\ Selects[k] \in Links /\ k = 6
                          /\ \E kept : answer = Of(reads[5] \ kept) \cup Kept(kept)
                       \/ Selects[k] \in Links /\ k # 6 /\ answer = Of(reads[k - 1])
  <2>1. CASE Selects[k] \notin Links
    <3>1. k # 6
      BY <2>1 DEF Selects, Links
    <3>2. To(rows)
      BY <2>1, <3>1 DEF Select
    <3> QED
      BY <2>1, <3>2
  <2>2. CASE Selects[k] \in Links /\ k = 6
    <3>1. \E kept : To(Of(reads[5] \ kept) \cup Kept(kept))
      BY <2>2 DEF Select
    <3> QED
      BY <2>2, <3>1
  <2>3. CASE Selects[k] \in Links /\ k # 6
    <3>1. To(Of(reads[k - 1]))
      BY <2>3 DEF Select
    <3> QED
      BY <2>3, <3>1
  <2> QED
    BY <2>1, <2>2, <2>3
<1>6. k = 6 => reads[3] \subseteq Rows(AllRows, Selects[k])
  <2>1. Selects[3] = Selects[6]
    BY DEF Selects
  <2>2. k = 6 => 3 \in 1..Len(reads)
    BY <1>2
  <2> HIDE DEF k, reads
  <2> QED
    BY <1>2, <2>1, <2>2
<1> HIDE DEF k, reads, rows, V
<1>7. IsAnswer(answer, reads, V, k)
  <2>1. CASE Selects[k] \notin Links /\ answer = rows
    BY <1>4, <2>1 DEF IsAnswer, rows
  <2>2. CASE Selects[k] \in Links /\ k # 6 /\ answer = Of(reads[k - 1])
    BY <1>4, <2>2 DEF IsAnswer, rows
  <2>3. ASSUME NEW kept, Selects[k] \in Links, k = 6,
               answer = Of(reads[5] \ kept) \cup Kept(kept)
        PROVE  IsAnswer(answer, reads, V, k)
    <3>1. \A l : l \in answer <=>
            \/ l \in rows /\ l.refs[1] \in Keys(reads[5] \ kept)
            \/ l \in reads[3] /\ l.refs[1] \in Keys(kept)
      BY <2>3
    <3>2. answer \subseteq Rows(AllRows, Selects[k])
      BY <1>4, <1>6, <2>3, <3>1
    <3>3. \A key \in Keys(reads[5]) : key \in Keys(reads[5] \ kept) \/ key \in Keys(kept)
      BY DEF Keys
    <3>4. k - 1 = 5
      BY <2>3
    <3>5. \A l \in rows : l.refs[1] \in Keys(reads[k - 1]) /\ l \in reads[3] => l \in answer
      BY <3>1, <3>3, <3>4
    <3> QED
      BY <2>3, <3>1, <3>2, <3>5 DEF IsAnswer, rows
  <2> QED
    BY <1>5, <2>1, <2>2, <2>3
<1> QED
  BY <1>5, <1>7 DEF k, reads, V


\* The fixture is visible to a run that selects, and whatever is visible
\* refers to what is visible.
LEMMA VisibleFacts ==
  ASSUME IInv, ReadInv, NEW x \in Run, run[x].own = FixtureRows
  PROVE  /\ Visible(x) = db \cup FixtureRows /\ Visible(x) \subseteq AllRows
         /\ \A r \in Visible(x) : Refs(r) \subseteq Keys(Visible(x))
         /\ \A r \in db : Refs(r) \subseteq Keys(UNION Batches)
<1>1. Visible(x) = db \cup FixtureRows /\ Visible(x) \subseteq AllRows
  BY RunFacts, ParameterFacts DEF Visible
<1>2. ReferencesHold(db) /\ db \subseteq UNION Batches
  BY RunFacts DEF ReadInv
<1>3. \A r \in db : Refs(r) \subseteq Keys(db)
  BY <1>2 DEF ReferencesHold
<1>4. Keys(db) \subseteq Keys(UNION Batches) /\ Keys(db) \subseteq Keys(Visible(x))
      /\ Keys(FixtureRows) \subseteq Keys(Visible(x))
  BY <1>1, <1>2, KeyFacts
<1>5. \A r \in Visible(x) : Refs(r) \subseteq Keys(Visible(x))
  BY <1>1, <1>3, <1>4, KeyFacts
<1>6. \A r \in db : Refs(r) \subseteq Keys(UNION Batches)
  BY <1>3, <1>4
<1> QED
  BY <1>1, <1>2, <1>5, <1>6

\* A key of a visible row is the key of a visible row of its table.
LEMMA KeyOfTable ==
  ASSUME NEW V, NEW key \in Keys(V), NEW table, key[1] = table
  PROVE  key \in Keys(Rows(V, table))
<1>1. PICK r \in V : key = Key(r) /\ key[1] = r.table
  BY KeyFacts
<1>2. r \in Rows(V, table)
  BY <1>1 DEF Rows
<1> QED
  BY <1>1, <1>2, KeyFacts

\* The table of a SELECT, and of the owners of the links it answers.
LEMMA SelectTables ==
  ASSUME NEW k \in 1..9
  PROVE  /\ Selects[k] \in Links <=> k \in {3, 6, 9}
         /\ Selects[1] = "entities" /\ Selects[2] = "relationships"
         /\ Selects[3] = "relationship_evidence" /\ Selects[4] = "entities"
         /\ Selects[5] = "relationships" /\ Selects[6] = "relationship_evidence"
         /\ Selects[7] = "evidence" /\ Selects[8] = "findings"
         /\ Selects[9] = "finding_evidence"
<1>1. k \in {1, 2, 3, 4, 5, 6, 7, 8, 9}
  OBVIOUS
<1>2. /\ Selects[1] = "entities" /\ Selects[2] = "relationships"
      /\ Selects[3] = "relationship_evidence" /\ Selects[4] = "entities"
      /\ Selects[5] = "relationships" /\ Selects[6] = "relationship_evidence"
      /\ Selects[7] = "evidence" /\ Selects[8] = "findings"
      /\ Selects[9] = "finding_evidence"
  BY DEF Selects
<1>3. Selects[k] \in Links <=> k \in {3, 6, 9}
  BY <1>1, <1>2 DEF Links
<1> QED
  BY <1>2, <1>3

\* An answer holds its part of the fixture, and refers to foreign rows from
\* foreign rows only.
LEMMA AnswerKept ==
  ASSUME IInv, ReadInv, NEW x \in Run, run[x].own = FixtureRows,
         NEW R, NEW k \in 1..9, AnswersInv(R), Len(R) = k - 1,
         NEW answer, IsAnswer(answer, R, Visible(x), k)
  PROVE  /\ answer \cap FixtureRows = Rows(FixtureRows, Selects[k])
         /\ \A r \in answer \ FixtureRows : Refs(r) \subseteq Keys(UNION Batches)
<1> DEFINE V == Visible(x)
<1>1. /\ V = db \cup FixtureRows
      /\ \A r \in db : Refs(r) \subseteq Keys(UNION Batches)
  BY VisibleFacts
<1> HIDE DEF V
<1>2. k = 6 => 3 \in 1..Len(R) /\ 5 \in 1..Len(R)
  OBVIOUS
<1>3. k = 6 => /\ R[3] \cap FixtureRows = Rows(FixtureRows, Selects[k])
               /\ \A r \in R[3] \ FixtureRows : Refs(r) \subseteq Keys(UNION Batches)
  <2>1. Selects[3] = Selects[6]
    BY DEF Selects
  <2> QED
    BY <1>2, <2>1 DEF AnswersInv
<1>4. \A l \in answer : (l \in V /\ l.table = Selects[k]) \/ (k = 6 /\ l \in R[3])
  BY DEF IsAnswer, Rows, V
<1>6. \A r \in answer \ FixtureRows : Refs(r) \subseteq Keys(UNION Batches)
  BY <1>1, <1>3, <1>4
<1>7. answer \cap FixtureRows \subseteq Rows(FixtureRows, Selects[k])
  BY DEF IsAnswer, Rows
<1>8. ASSUME NEW l \in FixtureRows, l.table = Selects[k]
      PROVE  l \in answer
  <2>1. l \in Rows(V, Selects[k])
    BY <1>1, <1>8 DEF Rows
  <2>2. CASE Selects[k] \notin Links
    BY <2>1, <2>2 DEF IsAnswer, V
  <2>3. CASE Selects[k] \in Links
    <3>1. k \in {3, 6, 9}
      BY <2>3, SelectTables
    <3>2. k - 1 \in 1..Len(R)
      BY <3>1
    <3>3. l \in AllRows
      BY <1>8, ParameterFacts
    <3>4. l.refs[1] \in Keys(FixtureRows) /\ l.refs[1][1] = Selects[k - 1]
      <4>1. Refs(l) \subseteq Keys(FixtureRows)
        BY <1>8, KeyFacts
      <4>2. CASE k = 3
        <5>1. k - 1 = 2
          BY <4>2
        <5> QED
          BY <1>8, <3>3, <4>1, <4>2, <5>1, RowReferences, SelectTables
      <4>3. CASE k = 6
        <5>1. k - 1 = 5
          BY <4>3
        <5> QED
          BY <1>8, <3>3, <4>1, <4>3, <5>1, RowReferences, SelectTables
      <4>4. CASE k = 9
        <5>1. k - 1 = 8
          BY <4>4
        <5> QED
          BY <1>8, <3>3, <4>1, <4>4, <5>1, RowReferences, SelectTables
      <4> QED
        BY <3>1, <4>2, <4>3, <4>4
    <3>5. l.refs[1] \in Keys(Rows(FixtureRows, Selects[k - 1]))
      BY <3>4, KeyOfTable
    <3>6. Rows(FixtureRows, Selects[k - 1]) \subseteq R[k - 1]
      BY <3>2 DEF AnswersInv
    <3>7. l.refs[1] \in Keys(R[k - 1])
      BY <3>5, <3>6, KeyFacts
    <3>8. k = 6 => l \in R[3]
      BY <1>3, <1>8 DEF Rows
    <3> QED
      BY <2>1, <2>3, <3>7, <3>8 DEF IsAnswer, V
  <2> QED
    BY <2>2, <2>3
<1>9. answer \cap FixtureRows = Rows(FixtureRows, Selects[k])
  BY <1>7, <1>8 DEF Rows
<1> QED
  BY <1>6, <1>9


\* What an answer refers to has been or will be answered.
LEMMA ClosureOfAnswer ==
  ASSUME IInv, ReadInv, NEW x \in Run, run[x].own = FixtureRows,
         NEW R, NEW k \in 1..9, Len(R) = k - 1, ClosureInv(R, db),
         \A i \in 1..k - 1 : R[i] \subseteq Rows(AllRows, Selects[i]),
         NEW answer, IsAnswer(answer, R, Visible(x), k),
         NEW S, Len(S) = k, S[k] = answer, \A i \in 1..k - 1 : S[i] = R[i]
  PROVE  ClosureInv(S, db)
<1> DEFINE V == Visible(x)
<1>1. /\ V = db \cup FixtureRows /\ V \subseteq AllRows
      /\ \A r \in V : Refs(r) \subseteq Keys(V)
  BY VisibleFacts
<1> HIDE DEF V
<1>2. \A l \in answer : (l \in V /\ l.table = Selects[k]) \/ (k = 6 /\ l \in R[3])
  BY DEF IsAnswer, Rows, V
<1>3. k \notin {3, 6, 9} => answer = Rows(V, Selects[k])
  BY SelectTables DEF IsAnswer, V
<1>4. ASSUME NEW i \in {3, 6}, i <= k, NEW l \in S[i]
      PROVE  l.refs[2] \in Keys(V)
  <2>1. CASE i < k
    <3>1. S[i] = R[i] /\ i <= Len(R)
      BY <1>4, <2>1
    <3> QED
      BY <1>1, <1>4, <3>1 DEF ClosureInv
  <2>2. CASE i = k /\ l \in V /\ l.table = Selects[k]
    <3>1. l.table = "relationship_evidence" /\ l \in AllRows
      BY <1>1, <1>4, <2>2, SelectTables
    <3>2. l.refs[2] \in Refs(l)
      BY <3>1, RowReferences
    <3> QED
      BY <1>1, <2>2, <3>2
  <2>3. CASE i = k /\ k = 6 /\ l \in R[3]
    <3>1. 3 <= Len(R)
      BY <2>3
    <3> QED
      BY <1>1, <2>3, <3>1 DEF ClosureInv
  <2> QED
    BY <1>2, <1>4, <2>1, <2>2, <2>3
<1>5. k >= 7 => \A l \in S[6] : l.refs[2] \in Keys(S[7])
  <2>1. CASE k = 7
    <3>1. ASSUME NEW l \in S[6]
          PROVE  l.refs[2] \in Keys(S[7])
      <4>1. l \in AllRows /\ l.table = "relationship_evidence"
        <5>1. S[6] \subseteq Rows(AllRows, Selects[6])
          BY <2>1
        <5> QED
          BY <3>1, <5>1, SelectTables DEF Rows
      <4>2. l.refs[2][1] = "evidence"
        BY <4>1, RowReferences
      <4>3. l.refs[2] \in Keys(V)
        BY <1>4, <2>1, <3>1
      <4>4. S[7] = Rows(V, "evidence")
        BY <1>3, <2>1, SelectTables
      <4> QED
        BY <4>2, <4>3, <4>4, KeyOfTable
    <3> QED
      BY <3>1
  <2>2. CASE k > 7
    <3>1. S[6] = R[6] /\ S[7] = R[7] /\ Len(R) >= 7
      BY <2>2
    <3> QED
      BY <3>1 DEF ClosureInv
  <2> QED
    BY <2>1, <2>2
<1> QED
  BY <1>1, <1>4, <1>5 DEF ClosureInv

\* The entities of the relationships that were projected are visible, or lost.
LEMMA EndpointsOfAnswer ==
  ASSUME IInv, ReadInv, NEW x \in Run, run[x].own = FixtureRows,
         run[x].phase = "selecting",
         NEW k \in 1..9, Len(run[x].reads) = k - 1,
         \A i \in 1..k - 1 : run[x].reads[i] \subseteq Rows(AllRows, Selects[i]),
         NEW answer, IsAnswer(answer, run[x].reads, Visible(x), k),
         NEW t, t.lost = run[x].lost,
         Len(t.reads) = k, t.reads[k] = answer, \A i \in 1..k - 1 : t.reads[i] = run[x].reads[i]
  PROVE  EndpointsInv(t, db)
<1> DEFINE V == Visible(x)
           s == run[x]
           R == s.reads
           S == t.reads
<1>1. /\ V = db \cup FixtureRows /\ V \subseteq AllRows
      /\ \A r \in V : Refs(r) \subseteq Keys(V)
  BY VisibleFacts
<1>2. EndpointsInv(s, db)
  BY DEF ReadInv, DetailInv
<1>3. k \notin {3, 6, 9} => answer = Rows(V, Selects[k])
  BY SelectTables DEF IsAnswer
<1> HIDE DEF V
<1>4. ASSUME k >= 2, NEW r \in S[2]
      PROVE  Refs(r) \subseteq Keys(V) \cup s.lost
  <2>1. CASE k = 2
    BY <1>1, <1>3, <1>4, <2>1 DEF Rows
  <2>2. CASE k > 2
    <3>1. S[2] = R[2] /\ Len(R) >= 2
      BY <2>2
    <3> QED
      BY <1>1, <1>2, <1>4, <3>1 DEF EndpointsInv
  <2> QED
    BY <1>4, <2>1, <2>2
<1>5. ASSUME k >= 4, NEW r \in S[2], NEW key \in Refs(r)
      PROVE  key \in Keys(S[4]) \cup s.lost
  <2>1. CASE k = 4
    <3>1. r \in AllRows /\ r.table = "relationships"
      <4>1. S[2] \subseteq Rows(AllRows, Selects[2])
        BY <2>1
      <4> QED
        BY <1>5, <4>1, SelectTables DEF Rows
    <3>2. key[1] = "entities"
      BY <1>5, <3>1, RowReferences
    <3>3. S[4] = Rows(V, "entities")
      BY <1>3, <2>1, SelectTables
    <3>4. key \in Keys(V) => key \in Keys(S[4])
      BY <3>2, <3>3, KeyOfTable
    <3> QED
      BY <1>4, <1>5, <3>4
  <2>2. CASE k > 4
    <3>1. S[2] = R[2] /\ S[4] = R[4] /\ Len(R) >= 4
      BY <2>2
    <3> QED
      BY <1>2, <1>5, <3>1 DEF EndpointsInv
  <2> QED
    BY <1>5, <2>1, <2>2
<1> QED
  BY <1>1, <1>4, <1>5 DEF EndpointsInv

\* A SELECT of a run.
LEMMA SelectRead ==
  ASSUME IInv, ReadInv, NEW x \in Run, Select(x)
  PROVE  ReadInv'
<1> DEFINE s     == run[x]
           k     == s.step
           reads == s.reads
           t(answer) == [s EXCEPT !.reads = Append(@, answer)]
           a(answer) == Advance(t(answer), Len(Selects), "analysing")
<1>1. RunInv(s) /\ s \in RunState /\ DetailInv(s, db) /\ s.phase = "selecting"
  BY RunFacts DEF Select
<1>2. /\ k \in Nat \ {0} /\ k <= 9 /\ Len(reads) = k - 1
      /\ reads \in Seq(SUBSET AllRows)
      /\ \A i \in 1..Len(reads) : reads[i] \subseteq Rows(AllRows, Selects[i])
      /\ s.standing = {} /\ s.outcome = "none"
  BY <1>1, ParameterFacts
     DEF RunInv, RunState, StepInRange, ReadsAreTyped, StandingIsUnchecked
<1>3. PICK answer : SetRun(x, a(answer)) /\ IsAnswer(answer, reads, Visible(x), k)
  BY SelectAnswer
<1>4. s.own = FixtureRows
  BY <1>1 DEF DetailInv, OwnInv
<1>5. answer \in SUBSET AllRows
  BY <1>3 DEF IsAnswer, Rows
<1>6. /\ t(answer) \in RunState /\ t(answer).reads = Append(reads, answer)
      /\ t(answer).outcome = s.outcome /\ t(answer).standing = s.standing
      /\ t(answer).own = s.own /\ t(answer).quiet = s.quiet /\ t(answer).lost = s.lost
      /\ t(answer).phase = s.phase /\ t(answer).step = k
  <2>1. Append(reads, answer) \in Seq(SUBSET AllRows)
    BY <1>2, <1>5
  <2> QED
    BY <1>1, <2>1 DEF RunState
<1> HIDE DEF t
<1>7. /\ a(answer).reads = Append(reads, answer) /\ a(answer).outcome = s.outcome
      /\ a(answer).standing = s.standing /\ a(answer).own = s.own
      /\ a(answer).quiet = s.quiet /\ a(answer).lost = s.lost
      /\ k < 9 => a(answer).phase = "selecting"
      /\ ~(k < 9) => a(answer).phase = "analysing"
  <2>1. "analysing" \in Phase /\ Len(Selects) = 9 /\ Len(Selects) \in Nat
    BY ParameterFacts DEF Phase
  <2>2. /\ a(answer).reads = t(answer).reads /\ a(answer).outcome = t(answer).outcome
        /\ a(answer).standing = t(answer).standing /\ a(answer).own = t(answer).own
        /\ a(answer).quiet = t(answer).quiet /\ a(answer).lost = t(answer).lost
        /\ t(answer).step < Len(Selects) => a(answer).phase = t(answer).phase
        /\ ~(t(answer).step < Len(Selects)) => a(answer).phase = "analysing"
    BY <1>6, <2>1, AdvanceProperties
  <2> HIDE DEF a, s, k, reads
  <2> QED
    BY <1>1, <1>6, <2>1, <2>2
<1> DEFINE S == Append(reads, answer)
<1> HIDE DEF a
<1>8. Len(S) = k /\ S[k] = answer /\ \A i \in 1..k - 1 : S[i] = reads[i]
  <2> HIDE DEF reads, k
  <2> QED
    BY <1>2, <1>5
<1>9. k \in 1..9
  BY <1>2, SMTT(40)
<1> HIDE DEF S, reads, k
<1>10. AnswersInv(S)
  <2>1. AnswersInv(reads)
    BY <1>1 DEF DetailInv, reads
  <2>2. /\ answer \cap FixtureRows = Rows(FixtureRows, Selects[k])
        /\ \A r \in answer \ FixtureRows : Refs(r) \subseteq Keys(UNION Batches)
    <3> HIDE DEF s
    <3> QED
      BY <1>2, <1>3, <1>4, <1>9, <2>1, AnswerKept DEF s
  <2>3. \A i \in 1..k : i = k \/ i \in 1..k - 1
    BY <1>9
  <2>4. \A i \in 1..k - 1 : i \in 1..Len(reads)
    BY <1>2
  <2> QED
    BY <1>8, <2>1, <2>2, <2>3, <2>4 DEF AnswersInv
<1>11. ClosureInv(S, db)
  <2>1. ClosureInv(reads, db)
    BY <1>1 DEF DetailInv, reads
  <2>2. \A i \in 1..k - 1 : reads[i] \subseteq Rows(AllRows, Selects[i])
    BY <1>2
  <2>3. run[x].own = FixtureRows
    BY <1>4
  <2> QED
    BY <1>2, <1>3, <1>8, <1>9, <2>1, <2>2, <2>3, ClosureOfAnswer
<1>12. s.quiet => db = {} /\ \A i \in 1..Len(S) : S[i] \subseteq FixtureRows
  <2> SUFFICES ASSUME s.quiet
               PROVE  db = {} /\ \A i \in 1..Len(S) : S[i] \subseteq FixtureRows
    OBVIOUS
  <2>1. /\ s.standing = db
        /\ \A i \in 1..Len(reads) : reads[i] \subseteq FixtureRows
    BY <1>1 DEF DetailInv, QuietInv, reads
  <2>2. Visible(x) = FixtureRows
    BY <1>2, <1>4, <2>1 DEF Visible
  <2>3. answer \subseteq FixtureRows
    <3>1. k = 6 => 3 \in 1..Len(reads)
      BY <1>2
    <3>2. \A l \in answer : l \in Rows(FixtureRows, Selects[k]) \/ (k = 6 /\ l \in reads[3])
      BY <1>3, <2>2 DEF IsAnswer
    <3> QED
      BY <2>1, <3>1, <3>2 DEF Rows
  <2>4. \A i \in 1..k : i = k \/ i \in 1..Len(reads)
    BY <1>2
  <2>5. \A i \in 1..k - 1 : i \in 1..Len(reads)
    BY <1>2
  <2>6. \A i \in 1..Len(reads) : i \in 1..k - 1
    BY <1>2
  <2> QED
    BY <1>2, <1>8, <2>1, <2>3, <2>4, <2>6
<1>13. OwnInv(a(answer)) /\ QuietInv(a(answer), db) /\ ReportInv(a(answer))
  <2>1. a(answer).reads = S
    BY <1>7 DEF S, reads
  <2>2. a(answer).phase = "selecting" \/ (a(answer).phase = "analysing" /\ k = 9)
    BY <1>2, <1>7 DEF k
  <2>3. a(answer).outcome = "none"
    BY <1>2, <1>7
  <2> HIDE DEF s
  <2>4. OwnInv(a(answer))
    BY <1>4, <1>7, <1>8, <2>1, <2>2 DEF OwnInv
  <2>5. QuietInv(a(answer), db)
    BY <1>2, <1>7, <1>12, <2>1, <2>3 DEF QuietInv
  <2>6. ReportInv(a(answer))
    BY <2>3 DEF ReportInv
  <2> QED
    BY <2>4, <2>5, <2>6
<1>14. EndpointsInv(a(answer), db)
  <2> DEFINE t2 == a(answer)
  <2>1. t2.reads = S /\ t2.lost = run[x].lost
    BY <1>7 DEF S, reads
  <2>2. /\ run[x].own = FixtureRows /\ run[x].phase = "selecting"
        /\ Len(run[x].reads) = k - 1 /\ IsAnswer(answer, run[x].reads, Visible(x), k)
        /\ \A i \in 1..k - 1 : run[x].reads[i] \subseteq Rows(AllRows, Selects[i])
    BY <1>1, <1>2, <1>3, <1>4 DEF reads
  <2>3. /\ Len(t2.reads) = k /\ t2.reads[k] = answer
        /\ \A i \in 1..k - 1 : t2.reads[i] = run[x].reads[i]
    BY <1>8, <2>1 DEF reads
  <2> HIDE DEF t2, s
  <2>4. EndpointsInv(t2, db)
    BY <1>9, <2>1, <2>2, <2>3, EndpointsOfAnswer
  <2> QED
    BY <2>4 DEF t2
<1>15. DetailInv(a(answer), db)
  <2>1. a(answer).reads = S
    BY <1>7 DEF S, reads
  <2> QED
    BY <1>10, <1>11, <1>13, <1>14, <2>1 DEF DetailInv
<1> QED
  BY <1>3, <1>15, RunStepRead


\* A run that has read nothing but the fixture has read it all.
LEMMA QuietReads ==
  ASSUME NEW R \in Seq(SUBSET AllRows), Len(R) = 9, AnswersInv(R),
         \A k \in 1..Len(R) : R[k] \subseteq FixtureRows
  PROVE  R = FixtureReads
<1>1. \A k \in 1..9 : R[k] = Rows(FixtureRows, Selects[k])
  BY DEF AnswersInv
<1>2. R = [k \in 1..9 |-> R[k]]
  OBVIOUS
<1> QED
  BY <1>1, <1>2, ParameterFacts DEF FixtureReads

\* The consistency check of analyze fails only if a client has committed.
LEMMA AnalyseRead ==
  ASSUME IInv, ReadInv, NEW x \in Run, Analyse(x)
  PROVE  ReadInv'
<1> DEFINE s == run[x]
<1>1. s \in RunState /\ DetailInv(s, db) /\ s.phase = "analysing"
  BY RunFacts DEF Analyse
<1>2. Len(s.reads) = 9
  BY <1>1 DEF DetailInv, OwnInv
<1> DEFINE Accepted == /\ AllProjected(s.reads)
                       /\ Result(s.reads).paths # {}
                       /\ ~Saturated(StoreEdges(s.reads), Query)
<1>3. CASE Accepted
  <2>1. SetRun(x, End(s, "report"))
    BY <1>3 DEF Analyse
  <2>2. "report" \in Outcome
    BY DEF Outcome
  <2> HIDE DEF s
  <2>3. DetailInv(End(s, "report"), db)
    BY <1>1, <1>2, <1>3, <2>2, EndRead
  <2> QED
    BY <2>1, <2>3, RunStepRead
<1>4. CASE ~Accepted
  <2>1. SetRun(x, End(s, "inconsistent"))
    BY <1>4 DEF Analyse
  <2>2. "inconsistent" \in Outcome
    BY DEF Outcome
  <2> HIDE DEF s
  <2>3. ASSUME s.quiet PROVE FALSE
    <3>1. s.reads = FixtureReads
      <4>1. s.reads \in Seq(SUBSET AllRows)
        BY <1>1 DEF RunState
      <4>2. AnswersInv(s.reads) /\ \A k \in 1..Len(s.reads) : s.reads[k] \subseteq FixtureRows
        BY <1>1, <2>3 DEF DetailInv, QuietInv
      <4> QED
        BY <1>2, <4>1, <4>2, QuietReads
    <3>2. Result(s.reads).paths # {} /\ ~Saturated(StoreEdges(s.reads), Query)
      BY <3>1, FixtureHasPaths DEF ResultOfFixture
    <3>3. s.reads[4] = s.reads[1] /\ s.reads[5] = s.reads[2]
      BY <3>1, ParameterFacts, SelectTables DEF FixtureReads
    <3>4. AllProjected(s.reads)
      BY <3>3 DEF AllProjected, StoreNodes
    <3> QED
      BY <1>4, <3>2, <3>4
  <2>4. DetailInv(End(s, "inconsistent"), db)
    BY <1>1, <2>2, <2>3, EndRead
  <2> QED
    BY <2>1, <2>4, RunStepRead
<1> QED
  BY <1>3, <1>4

\* What runs read, in every behaviour: clients may delete what a run has read
\* and store it again under its id.
THEOREM Reading == Spec => []ReadInv
<1>1. Init => ReadInv
  <2> SUFFICES ASSUME Init
               PROVE  ReadInv
    OBVIOUS
  <2>1. db = {} /\ \A x \in Run : run[x] = NewRun
    BY DEF Init
  <2>2. /\ NewRun.phase = "idle" /\ NewRun.own = {} /\ NewRun.reads = <<>>
        /\ NewRun.outcome = "none"
    BY DEF NewRun
  <2>3. Len(NewRun.reads) = 0
    BY <2>2
  <2>4. OwnInv(NewRun) /\ QuietInv(NewRun, db) /\ ReportInv(NewRun)
    BY <2>2, <2>3 DEF OwnInv, QuietInv, ReportInv
  <2>5. AnswersInv(NewRun.reads) /\ EndpointsInv(NewRun, db) /\ ClosureInv(NewRun.reads, db)
    BY <2>3 DEF AnswersInv, EndpointsInv, ClosureInv
  <2> QED
    BY <2>1, <2>4, <2>5 DEF ReadInv, DetailInv, ReferencesHold
<1>2. IInv /\ ReadInv /\ [Next]_vars => ReadInv'
  <2> SUFFICES ASSUME IInv, ReadInv, [Next]_vars
               PROVE  ReadInv'
    OBVIOUS
  <2>1. ASSUME NEW B \in Batches, WriteBatch(B) PROVE ReadInv'
    BY <2>1, WriteBatchRead
  <2>2. ASSUME NEW r \in db, DeleteRow(r) PROVE ReadInv'
    BY <2>2, DeleteRowRead
  <2>3. ASSUME NEW x \in Run, Start(x) PROVE ReadInv'
    BY <2>3, StartRead
  <2>4. ASSUME NEW x \in Run, Proceed(x) PROVE ReadInv'
    BY <2>4, CheckTableRead, LoadRowRead, ResolveRead, SelectRead, AnalyseRead, RollbackRead
       DEF Proceed
  <2>5. ASSUME NEW x \in Run, Fail(x) PROVE ReadInv'
    BY <2>5, FailRead
  <2>7. ASSUME NEW x \in Run, RefuseSchema(x) PROVE ReadInv'
    BY <2>7, RefuseSchemaRead
  <2>6. CASE UNCHANGED vars
    BY <2>6 DEF vars, ReadInv, ReferencesHold
  <2> QED
    BY <2>1, <2>2, <2>3, <2>4, <2>5, <2>6, <2>7 DEF Next
<1> QED
  BY <1>1, <1>2, Invariance, PTL DEF Spec

\* analyze's lists: the projection had every listed relationship, so its
\* entities were committed or the fixture's when the entities were listed, or
\* a client had deleted them since; the evidence of every link is listed.
THEOREM Closure == Spec => []ListedRelationshipsAreClosed
<1>1. IInv /\ ReadInv => ListedRelationshipsAreClosed
  <2> SUFFICES ASSUME IInv, ReadInv, NEW x \in Run, run[x].outcome = "report"
               PROVE  LET reads == run[x].reads
                      IN  /\ Endpoints(reads[5]) \subseteq Keys(reads[4]) \cup run[x].lost
                          /\ {l.refs[2] : l \in reads[6]} \subseteq Keys(reads[7])
    BY DEF ListedRelationshipsAreClosed
  <2> DEFINE R == run[x].reads
  <2>1. Len(R) = 9 /\ AllProjected(R) /\ EndpointsInv(run[x], db) /\ ClosureInv(R, db)
    BY DEF ReadInv, DetailInv, ReportInv
  <2>8. \A r \in R[2] : Refs(r) \subseteq Keys(R[4]) \cup run[x].lost
    BY <2>1 DEF EndpointsInv
  <2>2. \A k \in 1..Len(R) : R[k] \subseteq Rows(AllRows, Selects[k])
    BY DEF IInv, RunInv, ReadsAreTyped
  <2> HIDE DEF R
  <2>3. R[5] \subseteq AllRows /\ R[2] \subseteq AllRows
    BY <2>1, <2>2 DEF Rows
  <2>4. ASSUME NEW r \in R[5] PROVE r \in R[2]
    <3>1. Key(r) \in Keys(R[2])
      BY <2>1, KeyFacts DEF AllProjected
    <3>2. PICK q \in R[2] : Key(r) = Key(q)
      BY <3>1, KeyFacts
    <3> QED
      BY <2>3, <3>2, KeyFacts
  <2>5. \A r \in R[5] : Refs(r) \subseteq Keys(R[4]) \cup run[x].lost
    BY <2>4, <2>8
  <2>6. Endpoints(R[5]) \subseteq Keys(R[4]) \cup run[x].lost
    BY <2>5 DEF Endpoints
  <2>7. \A l \in R[6] : l.refs[2] \in Keys(R[7])
    BY <2>1 DEF ClosureInv
  <2> QED
    BY <2>6, <2>7 DEF R
<1> QED
  BY <1>1, Invariance, Reading, PTL

\* analyze's refusals: without a commit of a client, a run is not refused as
\* inconsistent and lists the fixture, all of it and nothing else.
THEOREM Quiet == Spec => []QuietRunsReportTheFixture
<1>1. IInv /\ ReadInv => QuietRunsReportTheFixture
  <2> SUFFICES ASSUME IInv, ReadInv, NEW x \in Run, run[x].quiet
               PROVE  /\ run[x].outcome # "inconsistent"
                      /\ run[x].outcome = "report" =>
                           UNION {run[x].reads[k] : k \in 1..Len(Selects)} =
                             {r \in FixtureRows : \E k \in 1..Len(Selects) : Selects[k] = r.table}
    BY DEF QuietRunsReportTheFixture
  <2> DEFINE R == run[x].reads
  <2>1. run[x] \in RunState /\ DetailInv(run[x], db)
    BY DEF IInv, ReadInv
  <2>2. run[x].outcome # "inconsistent"
    BY <2>1 DEF DetailInv, QuietInv
  <2>3. ASSUME run[x].outcome = "report"
        PROVE  UNION {R[k] : k \in 1..Len(Selects)} =
                 {r \in FixtureRows : \E k \in 1..Len(Selects) : Selects[k] = r.table}
    <3>1. R \in Seq(SUBSET AllRows) /\ Len(R) = 9 /\ AnswersInv(R)
      BY <2>1, <2>3 DEF RunState, DetailInv, ReportInv
    <3>2. \A k \in 1..Len(R) : R[k] \subseteq FixtureRows
      BY <2>1 DEF DetailInv, QuietInv
    <3> HIDE DEF R
    <3>3. R = FixtureReads
      BY <3>1, <3>2, QuietReads
    <3>4. \A k \in 1..Len(Selects) : R[k] = Rows(FixtureRows, Selects[k])
      BY <3>3 DEF FixtureReads
    <3> QED
      BY <3>4 DEF Rows
  <2> QED
    BY <2>2, <2>3 DEF R
<1> QED
  BY <1>1, Invariance, Reading, PTL


-----------------------------------------------------------------------------
(***************************************************************************)
(* Paths and risks of a report.                                            *)
(***************************************************************************)
InFixture(n) == <<"entities", n>> \in Keys(FixtureRows)

\* From an entity of the fixture only its own relationships lead on, and to
\* its own entities, whatever else the store holds.
LEMMA SamePathsInFixture ==
  ASSUME NEW E0, NEW E1, E0 \subseteq E1,
         \A e \in E0 : InFixture(e.target),
         \A e \in E1 : InFixture(e.source) => e \in E0
  PROVE  /\ AttackPaths(E1, Query) = AttackPaths(E0, Query)
         /\ \A p \in AttackPaths(E0, Query) :
              /\ \A i \in 1..Len(p) : p[i] \in E0
              /\ \A n \in NodesOf(Query, p) : InFixture(n)
<1>1. IsQuery(Query) /\ InFixture(Query.source)
  BY FixtureHasPaths DEF InFixture
<1>2. MaxHops(Query) \in Int
  BY <1>1 DEF IsQuery, IsPolicy, MaxHops
<1>3. ASSUME NEW p, IsAttackPath(E1, Query, p)
      PROVE  /\ IsAttackPath(E0, Query, p)
             /\ \A i \in 1..Len(p) : p[i] \in E0
             /\ \A n \in NodesOf(Query, p) : InFixture(n)
  <2> DEFINE S == {n \in Nat : n <= Len(p) => InFixture(NodeAt(Query, p, n))}
  <2>1. p \in Seq(E1) /\ Len(p) \in Nat /\ Chained(Query, p)
    BY <1>3, LenProperties DEF IsAttackPath, Reachable
  <2>2. \A i \in 1..Len(p) : p[i] \in E1 /\ p[i].source = NodeAt(Query, p, i - 1)
    BY <2>1, ElementOfSeq DEF Chained
  <2>3. 0 \in S
    BY <1>1 DEF NodeAt
  <2>4. ASSUME NEW n \in Nat, n \in S PROVE n + 1 \in S
    <3> SUFFICES ASSUME n + 1 <= Len(p) PROVE InFixture(NodeAt(Query, p, n + 1))
      OBVIOUS
    <3>1. n + 1 \in 1..Len(p) /\ (n + 1) - 1 = n /\ n <= Len(p) /\ n + 1 # 0
      BY <2>1
    <3>2. InFixture(NodeAt(Query, p, n))
      BY <2>4, <3>1
    <3>3. p[n + 1] \in E1 /\ p[n + 1].source = NodeAt(Query, p, n)
      BY <2>2, <3>1
    <3>4. InFixture(p[n + 1].target)
      BY <3>2, <3>3
    <3> QED
      BY <3>1, <3>4 DEF NodeAt
  <2>5. Nat \subseteq S
    <3> HIDE DEF S
    <3> QED
      BY <2>3, <2>4, NatSetInduction
  <2>6. \A i \in 0..Len(p) : InFixture(NodeAt(Query, p, i))
    BY <2>1, <2>5
  <2>7. \A n \in NodesOf(Query, p) : InFixture(n)
    BY <2>6 DEF NodesOf
  <2>8. \A i \in 1..Len(p) : p[i] \in E0
    <3>1. \A i \in 1..Len(p) : i - 1 \in 0..Len(p)
      BY <2>1
    <3> QED
      BY <2>2, <2>6, <3>1
  <2>9. p \in Seq(E0)
    BY <2>1, <2>8
  <2> QED
    BY <1>3, <2>7, <2>8, <2>9 DEF IsAttackPath, Reachable
<1>4. ASSUME NEW p, IsAttackPath(E0, Query, p)
      PROVE  IsAttackPath(E1, Query, p)
  <2>1. p \in Seq(E0) /\ \A i \in 1..Len(p) : p[i] \in E0
    BY <1>4, ElementOfSeq DEF IsAttackPath, Reachable
  <2>2. p \in Seq(E1)
    BY <2>1
  <2> QED
    BY <1>4, <2>2 DEF IsAttackPath, Reachable
<1>5. \A p : p \in AttackPaths(E1, Query) <=> p \in AttackPaths(E0, Query)
  BY <1>2, <1>3, <1>4, AttackPathsMember
<1>6. AttackPaths(E1, Query) = AttackPaths(E0, Query)
  <2>1. \A A, B : (\A p : p \in A <=> p \in B) => A = B
    OBVIOUS
  <2> QED
    BY <1>5, <2>1
<1>7. \A p \in AttackPaths(E0, Query) : IsAttackPath(E1, Query, p)
  BY <1>2, <1>4, AttackPathsMember
<1> QED
  BY <1>3, <1>6, <1>7

\* The relationships that a run reads, as edges.
LEMMA StoreEdgesFacts ==
  ASSUME NEW R, \A r \in R[2] : r \in Rows(AllRows, "relationships"),
         R[2] \cap FixtureRows = Rows(FixtureRows, "relationships"),
         \A r \in R[2] \ FixtureRows : Refs(r) \subseteq Keys(UNION Batches),
         NEW R0, R0[2] = Rows(FixtureRows, "relationships")
  PROVE  /\ StoreEdges(R0) \subseteq StoreEdges(R)
         /\ \A e \in StoreEdges(R0) :
              InFixture(e.target) /\ <<"relationships", e.id>> \in Keys(FixtureRows)
         /\ \A e \in StoreEdges(R) : InFixture(e.source) => e \in StoreEdges(R0)
<1> DEFINE EdgeOf(r) == [id |-> r.id, source |-> r.refs[1][2], target |-> r.refs[2][2],
                         type |-> r.type]
<1>1. ASSUME NEW r \in R[2]
      PROVE  /\ Refs(r) = {r.refs[1], r.refs[2]}
             /\ \E n : r.refs[1] = <<"entities", n>> /\ n = r.refs[1][2]
             /\ \E n : r.refs[2] = <<"entities", n>> /\ n = r.refs[2][2]
             /\ r \in FixtureRows => Refs(r) \subseteq Keys(FixtureRows)
             /\ r \notin FixtureRows => Refs(r) \cap Keys(FixtureRows) = {}
  <2>1. r \in AllRows /\ r.table = "relationships"
    BY <1>1 DEF Rows
  <2>2. /\ Refs(r) = {r.refs[1], r.refs[2]}
        /\ r.refs[1][1] = "entities" /\ r.refs[2][1] = "entities"
    BY <2>1, RowReferences
  <2>3. r \in FixtureRows => Refs(r) \subseteq Keys(FixtureRows)
    BY KeyFacts
  <2>4. r \notin FixtureRows => Refs(r) \subseteq Keys(UNION Batches)
    BY <1>1
  <2>5. r \notin FixtureRows => Refs(r) \cap Keys(FixtureRows) = {}
    BY <2>4, KeyFacts
  <2>6. \A key \in Refs(r) : \E q \in AllRows : key = <<q.table, q.id>>
    BY <2>3, <2>4, ParameterFacts DEF Keys, Key
  <2>7. \A key \in Refs(r) : key = <<key[1], key[2]>>
    BY <2>6
  <2>8. r.refs[1] = <<"entities", r.refs[1][2]>> /\ r.refs[2] = <<"entities", r.refs[2][2]>>
    BY <2>2, <2>7
  <2> QED
    BY <2>2, <2>3, <2>5, <2>8
<1>2. /\ StoreEdges(R) = {EdgeOf(r) : r \in R[2]}
      /\ StoreEdges(R0) = {EdgeOf(r) : r \in R0[2]}
  BY DEF StoreEdges
<1>3. R0[2] = R[2] \cap FixtureRows
  OBVIOUS
<1>4. \A r : /\ EdgeOf(r).id = r.id /\ EdgeOf(r).source = r.refs[1][2]
             /\ EdgeOf(r).target = r.refs[2][2]
  OBVIOUS
<1> HIDE DEF EdgeOf
<1>5. StoreEdges(R0) \subseteq StoreEdges(R)
  BY <1>2, <1>3
<1>6. ASSUME NEW e \in StoreEdges(R0)
      PROVE  InFixture(e.target) /\ <<"relationships", e.id>> \in Keys(FixtureRows)
  <2>1. PICK r \in R[2] \cap FixtureRows : e = EdgeOf(r)
    BY <1>2, <1>3, <1>6
  <2>2. InFixture(e.target)
    BY <1>1, <1>4, <2>1, ZenonT(40) DEF InFixture
  <2>3. Key(r) = <<"relationships", e.id>>
    BY <1>4, <2>1 DEF Key, Rows
  <2> QED
    BY <2>1, <2>2, <2>3, KeyFacts
<1>7. ASSUME NEW e \in StoreEdges(R), InFixture(e.source)
      PROVE  e \in StoreEdges(R0)
  <2>1. PICK r \in R[2] : e = EdgeOf(r)
    BY <1>2, <1>7
  <2>2. r.refs[1] \in Keys(FixtureRows)
    BY <1>1, <1>4, <1>7, <2>1 DEF InFixture
  <2>3. r \in FixtureRows
    BY <1>1, <2>1, <2>2
  <2> QED
    BY <1>2, <1>3, <2>1, <2>3
<1> QED
  BY <1>5, <1>6, <1>7

\* What paths and risks are computed from is the same whatever else was read.
LEMMA SameResult ==
  ASSUME NEW R, NEW R0,
         \A k \in 1..9 : R[k] \subseteq Rows(AllRows, Selects[k]),
         Len(R) = 9, AnswersInv(R),
         \A k \in 1..9 : R0[k] = Rows(FixtureRows, Selects[k])
  PROVE  Result(R) = Result(R0)
<1> DEFINE E0 == StoreEdges(R0)
           P == AttackPaths(E0, Query)
           edges == UNION {{<<"relationships", p[i].id>> : i \in 1..Len(p)} : p \in P}
           nodes == UNION {{<<"entities", n>> : n \in NodesOf(Query, p)} : p \in P}
<1>1. \A k \in 1..9 : /\ R[k] \cap FixtureRows = R0[k]
                      /\ \A r \in R[k] \ FixtureRows : Refs(r) \subseteq Keys(UNION Batches)
                      /\ \A r \in R[k] : r \in AllRows /\ r.table = Selects[k]
  BY DEF AnswersInv, Rows
<1>2. /\ E0 \subseteq StoreEdges(R)
      /\ \A e \in E0 : InFixture(e.target) /\ <<"relationships", e.id>> \in Keys(FixtureRows)
      /\ \A e \in StoreEdges(R) : InFixture(e.source) => e \in E0
  <2>1. \A r \in R[2] : r \in Rows(AllRows, "relationships")
    BY SelectTables
  <2>2. R0[2] = Rows(FixtureRows, "relationships")
    BY SelectTables
  <2>3. /\ R[2] \cap FixtureRows = Rows(FixtureRows, "relationships")
        /\ \A r \in R[2] \ FixtureRows : Refs(r) \subseteq Keys(UNION Batches)
    <3>1. 2 \in 1..9
      OBVIOUS
    <3>2. R[2] \cap FixtureRows = R0[2]
      BY <1>1, <3>1
    <3>3. \A r \in R[2] \ FixtureRows : Refs(r) \subseteq Keys(UNION Batches)
      BY <1>1, <3>1
    <3> QED
      BY <2>2, <3>2, <3>3
  <2> HIDE DEF E0
  <2> QED
    BY <2>1, <2>2, <2>3, StoreEdgesFacts DEF E0
<1> HIDE DEF E0
<1>3. /\ AttackPaths(StoreEdges(R), Query) = P
      /\ \A p \in P : /\ \A i \in 1..Len(p) : p[i] \in E0
                      /\ \A n \in NodesOf(Query, p) : InFixture(n)
  BY <1>2, SamePathsInFixture
<1> HIDE DEF P
<1>4. edges \subseteq Keys(FixtureRows)
  BY <1>2, <1>3
<1>5. nodes \subseteq Keys(FixtureRows)
  BY <1>3 DEF InFixture
<1>6. ASSUME NEW k \in {3, 8}, NEW K, K \subseteq Keys(FixtureRows)
      PROVE  {l \in R[k] : l.refs[1] \in K} = {l \in R0[k] : l.refs[1] \in K}
  <2>1. \A l \in R[k] : l \in AllRows /\ l.table \in {"relationship_evidence", "findings"}
    BY <1>1, <1>6, SelectTables
  <2>2. \A l \in R[k] : l.refs[1] \in Refs(l)
    BY <2>1, RowReferences
  <2>3. \A l \in R[k] \ FixtureRows : l.refs[1] \notin Keys(FixtureRows)
    BY <1>1, <1>6, <2>2, KeyFacts
  <2> QED
    BY <1>1, <1>6, <2>3
<1>7. /\ {l \in R[3] : l.refs[1] \in edges} = {l \in R0[3] : l.refs[1] \in edges}
      /\ {f \in R[8] : f.refs[1] \in nodes} = {f \in R0[8] : f.refs[1] \in nodes}
  <2> HIDE DEF edges, nodes
  <2> QED
    BY <1>4, <1>5, <1>6
<1>8. Result(R0) = [paths |-> P,
                    evidence |-> {l \in R0[3] : l.refs[1] \in edges},
                    findings |-> {f \in R0[8] : f.refs[1] \in nodes}]
  BY DEF Result, P, E0
<1>9. Result(R) = [paths |-> P,
                   evidence |-> {l \in R[3] : l.refs[1] \in edges},
                   findings |-> {f \in R[8] : f.refs[1] \in nodes}]
  BY <1>3 DEF Result
<1> QED
  BY <1>7, <1>8, <1>9

\* analyze's results: what a report computes paths and risks from is the
\* fixture's, whatever clients committed between its SELECTs.
THEOREM Results == Spec => []ResultIsTheFixtures
<1>1. IInv /\ ReadInv => ResultIsTheFixtures
  <2> SUFFICES ASSUME IInv, ReadInv, NEW x \in Run, run[x].outcome = "report"
               PROVE  Result(run[x].reads) = ResultOfFixture
    BY DEF ResultIsTheFixtures
  <2> DEFINE R == run[x].reads
             R0 == FixtureReads
  <2>1. Len(R) = 9 /\ AnswersInv(R)
    BY DEF ReadInv, DetailInv, ReportInv
  <2>2. \A k \in 1..9 : R[k] \subseteq Rows(AllRows, Selects[k])
    BY <2>1 DEF IInv, RunInv, ReadsAreTyped
  <2>3. \A k \in 1..9 : R0[k] = Rows(FixtureRows, Selects[k])
    BY ParameterFacts DEF FixtureReads
  <2>4. ResultOfFixture = Result(R0)
    BY DEF ResultOfFixture
  <2> HIDE DEF R, R0
  <2>5. Result(R) = Result(R0)
    BY <2>1, <2>2, <2>3, SameResult
  <2> QED
    BY <2>4, <2>5 DEF R
<1> QED
  BY <1>1, Invariance, Reading, PTL
=============================================================================

------------------------- MODULE ShowcaseCommandProofs -------------------------
(***************************************************************************)
(* For any number of invocations of `python -m app.showcase`, any          *)
(* deployments of the metadata file and any artifacts: what the identity   *)
(* report says rests on the versions that were met, every artifact is one  *)
(* report or what it was, and a refused run has lost nothing.              *)
(***************************************************************************)
EXTENDS ShowcaseCommand, FiniteSetTheorems, WellFoundedInduction, TLAPS

-----------------------------------------------------------------------------
(***************************************************************************)
(* The inductive invariant: types.                                         *)
(***************************************************************************)
Versions == UNION {ToSet(s.versions) : s \in Situations}

Builds == {v.build : v \in Versions} \cup {"none"}

Reasons ==
  Defects \cup {"VERIFIED", "missing_metadata", "metadata_unreadable", "runtime_is_root"}

CheckSteps == {"stat", "lstat", "access_directory", "access_file"}

ReadSteps == {"read_exists", "open"}

PreparingSteps ==
  {"start", "exists", "rollback", "check_directory"} \cup CheckSteps \cup ReadSteps

ArtifactSteps ==
  {"check_targets", "open_target", "write_target", "failed_open_target",
   "failed_write_target"}

Steps == PreparingSteps \cup ArtifactSteps \cup {"ended"}

Statuses == Reasons \cup {"none"}

Positions == 1..Len(Artifacts)

Exits == {"running", "usage", "error", "refused", "done"}

RunState ==
  [at : Steps, asRoot : BOOLEAN,
   pass : Passes, statted : SUBSET Versions, status : Statuses, metadata : Builds,
   authorized : BOOLEAN, artifact : Positions, written : Nat, exit : Exits]

TypeInv ==
  /\ metadataFile \in Versions
  /\ deployments \in Seq(Versions)
  /\ run \in [Command -> RunState]
  /\ seen \in [Command -> [Passes -> SUBSET Versions]]
  /\ DOMAIN files = Targets

IdentityOf(r) ==
  [status |-> r.status, met |-> r.authorized, metadata |-> r.metadata]

\* Where an invocation is, and what it has not begun yet.
Control(r) ==
  /\ r.at = "start" => r.pass = 1
  /\ r.at \in {"exists"} \cup CheckSteps => r.pass # 2
  /\ r.at \in {"rollback", "check_directory"} \cup ArtifactSteps => r.pass = 3
  /\ r.at \in PreparingSteps => r.artifact = 1
  /\ r.at \in PreparingSteps \cup {"check_targets", "open_target"} => r.written = 0
  /\ r.at = "write_target" =>
       r.written < RenderedLength(Artifacts[r.artifact], IdentityOf(r))
  /\ r.exit = "done" => r.at = "ended"

(***************************************************************************)
(* The inductive invariant: identity.  A verdict is just if the versions   *)
(* that were met bear it out.                                              *)
(***************************************************************************)
AllUndefective(versions) == \A v \in versions : Undefective(v)

Just(verdict, versions, asRoot) ==
  /\ versions # {}
  /\ verdict = "VERIFIED" => ~asRoot /\ PassedEveryTest(versions)
  /\ AllUndefective(versions) /\ ~asRoot => verdict = "VERIFIED"
  /\ verdict \in Defects \ {"malformed_metadata"} => \E v \in versions : Has(v, verdict)

\* The tests that a check has passed when it comes to a step.
TestsBefore(step) ==
  CASE step \in {"stat", "lstat"} -> {}
    [] step = "access_directory" ->
         {"metadata_is_symlink", "metadata_not_0444", "metadata_not_root_owned"}
    [] step = "access_file" ->
         {"metadata_is_symlink", "metadata_not_0444", "metadata_not_root_owned",
          "parent_directory_writable"}
    [] OTHER ->
         {"metadata_is_symlink", "metadata_not_0444", "metadata_not_root_owned",
          "parent_directory_writable", "metadata_writable"}

CheckInProgress(r, met) ==
  /\ r.at = "lstat" => \E v \in met[r.pass] : r.statted = {v} /\ Found(v)
  /\ r.pass # 2 /\ r.at \in CheckSteps \cup ReadSteps =>
       /\ \E v \in met[r.pass] : Found(v)
       /\ \A d \in TestsBefore(r.at) : \E v \in met[r.pass] : Withstands(v, d)
       /\ r.at \notin {"stat", "lstat"} => ~r.asRoot

Identified(r) == r.pass = 3 /\ r.at \in {"rollback", "check_directory"} \cup ArtifactSteps

Verdicts(r, met) ==
  /\ r.pass # 3 => r.metadata = "none"
  /\ r.pass # 1 => Just(r.status, met[1], r.asRoot)
  /\ r.pass = 3 =>
       /\ met[2] # {}
       /\ r.metadata # "none" => \E v \in met[2] : r.metadata = v.build
       /\ AllUndefective(met[2]) => r.metadata # "none"
  /\ Identified(r) =>
       \E verdict \in Reasons : /\ Just(verdict, met[3], r.asRoot)
                               /\ r.authorized = (verdict = "VERIFIED")

RunInv(r, met) ==
  /\ \A p \in Passes : IsFiniteSet(met[p])
  /\ Control(r)
  /\ CheckInProgress(r, met)
  /\ Verdicts(r, met)

(***************************************************************************)
(* The inductive invariant: artifacts.  Every block of an artifact is the  *)
(* one of the report or is still to be written, unless a writer has failed *)
(* or two disagree.                                                        *)
(***************************************************************************)
Writers(i) == {c \in Command : Opened(c, i)}

Writing(c, i) == run[c].at = "write_target" /\ run[c].artifact = i

Agreed(i) ==
  /\ \A c \in Writers(i) : Completed(c, i) \/ Writing(c, i)
  /\ \A c, d \in Writers(i) :
       Shown(Artifacts[i], Identity(c)) = Shown(Artifacts[i], Identity(d))

Identities == [status : Statuses, met : BOOLEAN, metadata : Builds]

AllBlocks == [shows : Identities \cup {"nothing", "hole"}, k : Nat]

Covered(i, text) ==
  /\ files[Artifacts[i]].text \in Seq(AllBlocks)
  /\ files[Artifacts[i]] = File(files[Artifacts[i]].text)
  /\ Len(files[Artifacts[i]].text) <= Len(text)
  /\ \A k \in 1..Len(text) :
       \/ k <= Len(files[Artifacts[i]].text) /\ files[Artifacts[i]].text[k] = text[k]
       \/ \E d \in Command : Writing(d, i) /\ run[d].written < k

ArtifactInv(i) ==
  /\ Writers(i) = {} => files[Artifacts[i]] = before[Artifacts[i]]
  /\ Agreed(i) =>
       \A c \in Writers(i) : Covered(i, Rendered(Artifacts[i], Identity(c)))

\* An invocation that is to be refused does not get beyond its checks.
SomeTargetIsSpecial == \E a \in Targets : before[a] = Special

RefusalInv ==
  SomeTargetIsSpecial =>
    /\ files = before
    /\ \A c \in Command :
         /\ run[c].at \notin {"open_target", "write_target"}
         /\ run[c].at = "check_targets" =>
              \A j \in 1..run[c].artifact - 1 : before[Artifacts[j]] # Special

ArtifactsInv == \A i \in 1..Len(Artifacts) : ArtifactInv(i)

IInv ==
  /\ TypeInv
  /\ \A c \in Command : RunInv(run[c], seen[c])
  /\ ArtifactsInv
  /\ RefusalInv

-----------------------------------------------------------------------------
(***************************************************************************)
(* What the invocations find.                                              *)
(***************************************************************************)
\* Every version is one that the metadata file can be.
LEMMA VersionsArePossible == \A v \in Versions : IsVersion(v)
BY SituationsArePossible DEF Versions

\* A set of positions has a least one.
LEMMA LeastPosition ==
  ASSUME NEW S \in SUBSET Nat, S # {}
  PROVE  Min(S) \in S
<1> DEFINE Less == {ss \in Nat \X Nat : ss[1] < ss[2]}
<1>1. IsWellFoundedOn(Less, Nat)
  BY NatLessThanWellFounded DEF OpToRel
<1>2. PICK x \in S : \A y \in S : <<y, x>> \notin Less
  <2> HIDE DEF Less
  <2> QED
    BY <1>1, WFMin
<1>3. ASSUME NEW y \in S PROVE x <= y
  <2>1. x \in Nat /\ y \in Nat /\ <<y, x>> \notin Less
    BY <1>2
  <2> QED
    BY <2>1
<1> QED
  BY <1>3 DEF Min

\* The answer of a row of tests is "none" when the version passes them all, and
\* otherwise one that it fails.
LEMMA FirstDefectFound ==
  ASSUME NEW v, NEW tests, DOMAIN tests \subseteq Nat, \A i \in DOMAIN tests : tests[i] # "none"
  PROVE  LET defect == FirstDefect(v, tests)
         IN  IF defect = "none" THEN \A i \in DOMAIN tests : ~Has(v, tests[i])
             ELSE \E i \in DOMAIN tests : defect = tests[i] /\ Has(v, tests[i])
<1> DEFINE failed == {i \in DOMAIN tests : Has(v, tests[i])}
<1>1. CASE failed = {}
  BY <1>1 DEF FirstDefect
<1>2. CASE failed # {}
  <2>1. failed \in SUBSET Nat
    OBVIOUS
  <2>2. Min(failed) \in failed
    BY <1>2, <2>1, LeastPosition
  <2>3. FirstDefect(v, tests) = tests[Min(failed)]
    BY <1>2 DEF FirstDefect
  <2> QED
    BY <2>2, <2>3
<1> QED
  BY <1>1, <1>2

\* The two rows of tests of check_immutability.
LEMMA ModeDefect ==
  ASSUME NEW v
  PROVE  LET defect == FirstDefect(v, ModeTests)
         IN  IF defect = "none"
               THEN ~Has(v, "metadata_not_0444") /\ ~Has(v, "metadata_not_root_owned")
               ELSE /\ defect \in {"metadata_not_0444", "metadata_not_root_owned"}
                    /\ Has(v, defect)
<1>1. /\ DOMAIN ModeTests = {1, 2}
      /\ ModeTests[1] = "metadata_not_0444" /\ ModeTests[2] = "metadata_not_root_owned"
  BY DEF ModeTests
<1> HIDE DEF ModeTests
<1>2. \A i \in DOMAIN ModeTests : ModeTests[i] # "none"
  BY <1>1
<1> QED
  BY <1>1, <1>2, FirstDefectFound

LEMMA ContentDefect ==
  ASSUME NEW v
  PROVE  LET defect == FirstDefect(v, ContentTests)
         IN  IF defect = "none" THEN \A d \in ToSet(ContentTests) : ~Has(v, d)
             ELSE defect \in ToSet(ContentTests) /\ Has(v, defect)
<1>1. DOMAIN ContentTests = 1..5
  BY DEF ContentTests
<1>2. \A i \in 1..5 : ContentTests[i] # "none"
  BY DEF ContentTests
<1> QED
  BY <1>1, <1>2, FirstDefectFound DEF ToSet

LEMMA ContentTestNames ==
  ToSet(ContentTests) =
    {"malformed_metadata", "substrate_incomplete", "dirty_source",
     "python_version_mismatch", "source_version_unverifiable"}
BY DEF ContentTests, ToSet

-----------------------------------------------------------------------------
(***************************************************************************)
(* One step of a pass, over the values of one invocation: r becomes q, and *)
(* the pass has met version m.                                             *)
(***************************************************************************)
Meeting(r, met, m, mets) ==
  /\ r \in RunState /\ RunInv(r, met)
  /\ r.at \in {"exists"} \cup CheckSteps \cup ReadSteps
  /\ m \in Versions /\ IsVersion(m)
  /\ met \in [Passes -> SUBSET Versions]
  /\ mets = [met EXCEPT ![r.pass] = @ \cup {m}]

LEMMA MetGrows ==
  ASSUME NEW r, NEW met, NEW m, NEW mets, Meeting(r, met, m, mets)
  PROVE  /\ mets \in [Passes -> SUBSET Versions]
         /\ r.pass \in Passes /\ mets[r.pass] = met[r.pass] \cup {m}
         /\ \A p \in Passes : p # r.pass => mets[p] = met[p]
         /\ \A p \in Passes : IsFiniteSet(mets[p])
<1>1. /\ mets \in [Passes -> SUBSET Versions]
      /\ r.pass \in Passes /\ mets[r.pass] = met[r.pass] \cup {m}
      /\ \A p \in Passes : p # r.pass => mets[p] = met[p]
  BY DEF Meeting, RunState
<1>2. \A p \in Passes : IsFiniteSet(met[p])
  BY DEF Meeting, RunInv
<1>3. IsFiniteSet(met[r.pass] \cup {m})
  BY <1>1, <1>2, FS_AddElement
<1> QED
  BY <1>1, <1>2, <1>3

\* A check that has its verdict.
LEMMA Answered ==
  ASSUME NEW r, NEW met, NEW m, NEW mets, Meeting(r, met, m, mets),
         NEW verdict \in Reasons, r.pass # 2, Just(verdict, mets[r.pass], r.asRoot),
         NEW q,
         q = [r EXCEPT !.statted = {},
                       !.at = IF r.pass = 1 THEN "read_exists" ELSE "rollback",
                       !.pass = IF r.pass = 1 THEN 2 ELSE 3,
                       !.status = IF r.pass = 1 THEN verdict ELSE @,
                       !.authorized = r.pass = 3 /\ verdict = "VERIFIED"]
  PROVE  q \in RunState /\ RunInv(q, mets)
<1>1. /\ mets \in [Passes -> SUBSET Versions]
      /\ r.pass \in Passes
      /\ \A p \in Passes : p # r.pass => mets[p] = met[p]
      /\ \A p \in Passes : IsFiniteSet(mets[p])
  BY MetGrows
<1>2. r \in RunState /\ RunInv(r, met) /\ r.at \in {"exists"} \cup CheckSteps \cup ReadSteps
  BY DEF Meeting
<1>3. q \in RunState
  <2>1. "read_exists" \in Steps /\ "rollback" \in Steps
    BY DEF Steps, PreparingSteps, ReadSteps
  <2>2. verdict \in Statuses /\ 2 \in Passes /\ 3 \in Passes
    BY DEF Statuses, Passes
  <2> QED
    BY <1>2, <2>1, <2>2 DEF RunState
<1>4. /\ r.artifact = 1 /\ r.written = 0 /\ r.exit # "done"
  BY <1>2 DEF RunInv, Control, PreparingSteps, CheckSteps, ReadSteps
<1>5. CASE r.pass = 1
  <2>1. /\ q.at = "read_exists" /\ q.pass = 2 /\ q.status = verdict /\ q.asRoot = r.asRoot
        /\ q.artifact = 1 /\ q.written = 0 /\ q.exit = r.exit /\ q.metadata = r.metadata
    BY <1>2, <1>4, <1>5 DEF RunState
  <2>2. Control(q)
    BY <1>4, <2>1 DEF Control, PreparingSteps, CheckSteps, ReadSteps, ArtifactSteps
  <2>3. CheckInProgress(q, mets)
    BY <2>1 DEF CheckInProgress
  <2>4. q.metadata = "none"
    BY <1>2, <1>5, <2>1 DEF RunInv, Verdicts
  <2>5. Verdicts(q, mets)
    BY <1>5, <2>1, <2>4 DEF Verdicts, Identified
  <2> QED
    BY <1>1, <1>3, <2>2, <2>3, <2>5 DEF RunInv
<1>6. CASE r.pass = 3
  <2>1. /\ q.at = "rollback" /\ q.pass = 3 /\ q.status = r.status /\ q.asRoot = r.asRoot
        /\ q.artifact = 1 /\ q.written = 0 /\ q.exit = r.exit /\ q.metadata = r.metadata
        /\ q.authorized = (verdict = "VERIFIED")
    BY <1>2, <1>4, <1>6 DEF RunState
  <2>2. Control(q)
    BY <1>4, <2>1 DEF Control, PreparingSteps, CheckSteps, ReadSteps, ArtifactSteps
  <2>3. CheckInProgress(q, mets)
    BY <2>1 DEF CheckInProgress, CheckSteps, ReadSteps
  <2>4. mets[1] = met[1] /\ mets[2] = met[2]
    BY <1>1, <1>6 DEF Passes
  <2>5. Verdicts(q, mets)
    BY <1>2, <1>6, <2>1, <2>4 DEF RunInv, Verdicts, Identified
  <2> QED
    BY <1>1, <1>3, <2>2, <2>3, <2>5 DEF RunInv
<1> QED
  BY <1>1, <1>5, <1>6 DEF Passes

\* A check that goes on to its next system call.
LEMMA Moved ==
  ASSUME NEW r, NEW met, NEW m, NEW mets, Meeting(r, met, m, mets),
         NEW step \in CheckSteps \cup ReadSteps,
         NEW q,
         q = [r EXCEPT !.at = step] \/ q = [r EXCEPT !.at = step, !.statted = {m}],
         step \in CheckSteps => r.pass # 2,
         CheckInProgress(q, mets)
  PROVE  q \in RunState /\ RunInv(q, mets)
<1>1. /\ mets \in [Passes -> SUBSET Versions]
      /\ r.pass \in Passes /\ mets[r.pass] = met[r.pass] \cup {m}
      /\ \A p \in Passes : p # r.pass => mets[p] = met[p]
      /\ \A p \in Passes : IsFiniteSet(mets[p])
  BY MetGrows
<1>2. /\ r \in RunState /\ RunInv(r, met) /\ m \in Versions
      /\ r.at \in {"exists"} \cup CheckSteps \cup ReadSteps
  BY DEF Meeting
<1>3. q \in RunState
  <2>1. step \in Steps
    BY DEF Steps, PreparingSteps
  <2>2. {m} \in SUBSET Versions
    BY <1>2
  <2> QED
    BY <1>2, <2>1, <2>2 DEF RunState
<1>4. r.artifact = 1 /\ r.written = 0 /\ r.exit # "done"
  BY <1>2 DEF RunInv, Control, PreparingSteps, CheckSteps, ReadSteps
<1>5. /\ q.at = step /\ q.pass = r.pass /\ q.status = r.status /\ q.asRoot = r.asRoot
      /\ q.artifact = 1 /\ q.written = 0 /\ q.exit = r.exit /\ q.metadata = r.metadata
  BY <1>2, <1>4 DEF RunState
<1>6. Control(q)
  BY <1>4, <1>5 DEF Control, PreparingSteps, CheckSteps, ReadSteps, ArtifactSteps
<1>7. Verdicts(q, mets)
  <2>1. Verdicts(r, met)
    BY <1>2 DEF RunInv
  <2>2. r.pass # 1 => mets[1] = met[1]
    BY <1>1 DEF Passes
  <2>3. r.pass = 3 => mets[2] = met[2]
    BY <1>1 DEF Passes
  <2>4. ~Identified(q)
    BY <1>5 DEF Identified, CheckSteps, ReadSteps, ArtifactSteps
  <2> QED
    BY <1>5, <2>1, <2>2, <2>3, <2>4 DEF Verdicts
<1> QED
  BY <1>1, <1>3, <1>6, <1>7 DEF RunInv

-----------------------------------------------------------------------------
(***************************************************************************)
(* The system calls of the identity report, one lemma each.                *)
(***************************************************************************)
RunKept(c) ==
  /\ run'[c] \in RunState /\ RunInv(run'[c], seen'[c])
  /\ seen'[c] \in [Passes -> SUBSET Versions]
  /\ run' = [run EXCEPT ![c] = run'[c]]
  /\ seen' = [seen EXCEPT ![c] = seen'[c]]

Reads(c) == Meeting(run[c], seen[c], metadataFile, seen'[c])

LEMMA ReadsAndMeets ==
  ASSUME TypeInv, NEW c \in Command, RunInv(run[c], seen[c]), Meets(c),
         run[c].at \in {"exists"} \cup CheckSteps \cup ReadSteps
  PROVE  /\ Reads(c)
         /\ seen' = [seen EXCEPT ![c] = seen'[c]]
         /\ metadataFile \in seen'[c][run[c].pass]
         /\ seen[c][run[c].pass] \subseteq seen'[c][run[c].pass]
         /\ seen'[c] \in [Passes -> SUBSET Versions]
<1>1. run[c] \in RunState /\ seen[c] \in [Passes -> SUBSET Versions] /\ metadataFile \in Versions
  BY DEF TypeInv
<1>2. seen'[c] = [seen[c] EXCEPT ![run[c].pass] = @ \cup {metadataFile}]
  BY DEF TypeInv, Meets
<1>3. seen' = [seen EXCEPT ![c] = seen'[c]]
  BY <1>2 DEF TypeInv, Meets
<1>4. IsVersion(metadataFile)
  BY <1>1, VersionsArePossible
<1>5. Reads(c)
  BY <1>1, <1>2, <1>4 DEF Reads, Meeting
<1> QED
  BY <1>3, <1>5, MetGrows DEF Reads

LEMMA AnswerKept ==
  ASSUME TypeInv, NEW c \in Command, Reads(c), seen' = [seen EXCEPT ![c] = seen'[c]],
         run[c].pass # 2,
         NEW verdict \in Reasons, Just(verdict, seen'[c][run[c].pass], run[c].asRoot),
         Answer(c, verdict)
  PROVE  RunKept(c)
<1>1. /\ run' = [run EXCEPT ![c] = run'[c]]
      /\ run'[c] = [run[c] EXCEPT !.statted = {},
                       !.at = IF run[c].pass = 1 THEN "read_exists" ELSE "rollback",
                       !.pass = IF run[c].pass = 1 THEN 2 ELSE 3,
                       !.status = IF run[c].pass = 1 THEN verdict ELSE @,
                       !.authorized = run[c].pass = 3 /\ verdict = "VERIFIED"]
  BY DEF TypeInv, Answer
<1>2. run'[c] \in RunState /\ RunInv(run'[c], seen'[c])
  BY <1>1, Answered DEF Reads
<1> QED
  BY <1>1, <1>2, MetGrows DEF RunKept, Reads

\* A verdict other than VERIFIED is just when the program runs as root or a
\* version that was met can not be verified; and a defect when it has it.
LEMMA RejectionKept ==
  ASSUME TypeInv, NEW c \in Command, Reads(c), seen' = [seen EXCEPT ![c] = seen'[c]],
         run[c].pass # 2,
         NEW verdict \in Reasons \ {"VERIFIED"}, Answer(c, verdict),
         NEW v \in seen'[c][run[c].pass],
         run[c].asRoot \/ ~Undefective(v),
         verdict \in Defects \ {"malformed_metadata"} => Has(v, verdict)
  PROVE  RunKept(c)
<1>1. Just(verdict, seen'[c][run[c].pass], run[c].asRoot)
  BY DEF Just, AllUndefective
<1> QED
  BY <1>1, AnswerKept

LEMMA GoToKept ==
  ASSUME TypeInv, NEW c \in Command, Reads(c), seen' = [seen EXCEPT ![c] = seen'[c]],
         NEW step \in CheckSteps \cup ReadSteps, step \in CheckSteps => run[c].pass # 2,
         GoTo(c, step), CheckInProgress(run'[c], seen'[c])
  PROVE  RunKept(c)
<1>1. run' = [run EXCEPT ![c] = run'[c]] /\ run'[c] = [run[c] EXCEPT !.at = step]
  BY DEF TypeInv, GoTo
<1>2. run'[c] \in RunState /\ RunInv(run'[c], seen'[c])
  <2>1. Meeting(run[c], seen[c], metadataFile, seen'[c])
    BY DEF Reads
  <2> QED
    BY <1>1, <2>1, Moved
<1> QED
  BY <1>1, <1>2, MetGrows DEF RunKept, Reads

LEMMA ExitKept ==
  ASSUME TypeInv, NEW c \in Command, RunInv(run[c], seen[c]), NEW mets,
         \/ mets = seen[c]
         \/ /\ run[c].at = "exists"
            /\ \A p \in Passes : IsFiniteSet(mets[p])
            /\ \A p \in Passes : p # run[c].pass => mets[p] = seen[c][p],
         NEW status \in {"usage", "error", "refused"}, Exit(c, status)
  PROVE  /\ run' = [run EXCEPT ![c] = run'[c]] /\ run'[c] \in RunState
         /\ run'[c].at = "ended" /\ run'[c].exit = status
         /\ RunInv(run'[c], mets)
<1>1. run[c] \in RunState /\ run'[c] = [run[c] EXCEPT !.at = "ended", !.exit = status]
  BY DEF TypeInv, Exit
<1>2. run' = [run EXCEPT ![c] = run'[c]]
  BY DEF TypeInv, Exit
<1>3. "ended" \in Steps
  BY DEF Steps
<1>4. run'[c] \in RunState
  BY <1>1, <1>3 DEF RunState, Exits
<1>5. /\ run'[c].at = "ended" /\ run'[c].exit = status
      /\ run'[c].pass = run[c].pass /\ run'[c].status = run[c].status
      /\ run'[c].metadata = run[c].metadata /\ run'[c].asRoot = run[c].asRoot
  BY <1>1 DEF RunState
<1>6. Control(run'[c])
  BY <1>5 DEF Control, PreparingSteps, CheckSteps, ReadSteps, ArtifactSteps
<1>7. CheckInProgress(run'[c], mets) /\ ~Identified(run'[c])
  BY <1>5 DEF CheckInProgress, Identified, CheckSteps, ReadSteps, ArtifactSteps
<1>8. Verdicts(run'[c], mets)
  <2>1. Verdicts(run[c], seen[c]) /\ run[c].pass \in Passes
    BY <1>1 DEF RunInv, RunState
  <2>2. run[c].pass # 1 => mets[1] = seen[c][1]
    BY DEF Passes
  <2>3. run[c].pass = 3 => mets[2] = seen[c][2]
    BY DEF Passes
  <2> QED
    BY <1>5, <1>7, <2>1, <2>2, <2>3 DEF Verdicts
<1>9. \A p \in Passes : IsFiniteSet(mets[p])
  BY DEF RunInv
<1> QED
  BY <1>9, <1>2, <1>4, <1>5, <1>6, <1>7, <1>8 DEF RunInv

LEMMA CheckExistsKept ==
  ASSUME TypeInv, NEW c \in Command, RunInv(run[c], seen[c]), CheckExists(c)
  PROVE  RunKept(c)
<1> DEFINE met == seen'[c][run[c].pass]
<1>1. /\ Reads(c) /\ seen' = [seen EXCEPT ![c] = seen'[c]]
      /\ metadataFile \in met /\ seen'[c] \in [Passes -> SUBSET Versions]
  BY ReadsAndMeets DEF CheckExists
<1>2. run[c].pass # 2 /\ run[c] \in RunState
  BY DEF RunInv, Control, CheckExists, TypeInv
<1>3. CASE metadataFile.lookup = "found"
  <2>1. GoTo(c, "stat") /\ Found(metadataFile)
    BY <1>3 DEF CheckExists, Found
  <2>2. run'[c] = [run[c] EXCEPT !.at = "stat"]
    BY <2>1 DEF GoTo, TypeInv
  <2>3. run'[c].at = "stat" /\ run'[c].pass = run[c].pass
    BY <1>2, <2>2 DEF RunState
  <2>4. CheckInProgress(run'[c], seen'[c])
    BY <1>1, <2>1, <2>3 DEF CheckInProgress, TestsBefore
  <2> QED
    BY <1>1, <1>2, <2>1, <2>4, GoToKept DEF CheckSteps
<1>4. CASE metadataFile.lookup = "missing"
  <2>1. Answer(c, "missing_metadata") /\ ~Undefective(metadataFile)
    BY <1>4 DEF CheckExists, Undefective, Found
  <2>2. "missing_metadata" \in Reasons \ ({"VERIFIED"} \cup Defects)
    BY ContentTestNames DEF Reasons, Defects
  <2> QED
    BY <1>1, <1>2, <2>1, <2>2, RejectionKept
<1>5. CASE metadataFile.lookup = "denied"
  <2>1. Exit(c, "error")
    BY <1>5 DEF CheckExists
  <2>2. /\ \A p \in Passes : IsFiniteSet(seen'[c][p])
        /\ \A p \in Passes : p # run[c].pass => seen'[c][p] = seen[c][p]
    BY <1>1, MetGrows DEF Reads
  <2>3. run[c].at = "exists"
    BY DEF CheckExists
  <2> QED
    BY <1>1, <2>1, <2>2, <2>3, ExitKept DEF RunKept
<1>6. IsVersion(metadataFile)
  BY <1>1 DEF Reads, Meeting
<1> QED
  BY <1>3, <1>4, <1>5, <1>6 DEF IsVersion

LEMMA StatKept ==
  ASSUME TypeInv, NEW c \in Command, RunInv(run[c], seen[c]), Stat(c)
  PROVE  RunKept(c)
<1> DEFINE met == seen'[c][run[c].pass]
<1>1. /\ Reads(c) /\ seen' = [seen EXCEPT ![c] = seen'[c]]
      /\ metadataFile \in met /\ seen'[c] \in [Passes -> SUBSET Versions]
  BY ReadsAndMeets DEF Stat, CheckSteps
<1>2. run[c].pass # 2 /\ run[c] \in RunState
  BY DEF RunInv, Control, CheckSteps, Stat, TypeInv
<1>3. CASE Found(metadataFile)
  <2>1. /\ run' = [run EXCEPT ![c] = run'[c]]
        /\ run'[c] = [run[c] EXCEPT !.at = "lstat", !.statted = {metadataFile}]
    BY <1>3 DEF Stat, TypeInv
  <2>2. run'[c].at = "lstat" /\ run'[c].pass = run[c].pass /\ run'[c].statted = {metadataFile}
    BY <1>2, <2>1 DEF RunState
  <2>3. CheckInProgress(run'[c], seen'[c])
    BY <1>1, <1>3, <2>2 DEF CheckInProgress, TestsBefore
  <2>4. run'[c] \in RunState /\ RunInv(run'[c], seen'[c])
    <3>1. Meeting(run[c], seen[c], metadataFile, seen'[c])
      BY <1>1 DEF Reads
    <3>2. "lstat" \in CheckSteps \cup ReadSteps
      BY DEF CheckSteps
    <3> QED
      BY <1>2, <2>1, <2>3, <3>1, <3>2, Moved
  <2> QED
    BY <1>1, <2>1, <2>4 DEF RunKept
<1>4. CASE ~Found(metadataFile)
  <2>1. Answer(c, "metadata_unreadable") /\ ~Undefective(metadataFile)
    BY <1>4 DEF Stat, Undefective
  <2>2. "metadata_unreadable" \in Reasons \ ({"VERIFIED"} \cup Defects)
    BY ContentTestNames DEF Reasons, Defects
  <2> QED
    BY <1>1, <1>2, <2>1, <2>2, RejectionKept
<1> QED
  BY <1>3, <1>4

LEMMA LstatKept ==
  ASSUME TypeInv, NEW c \in Command, RunInv(run[c], seen[c]), Lstat(c)
  PROVE  RunKept(c)
<1> DEFINE met == seen'[c][run[c].pass]
<1>1. /\ Reads(c) /\ seen' = [seen EXCEPT ![c] = seen'[c]]
      /\ metadataFile \in met /\ seen'[c] \in [Passes -> SUBSET Versions]
      /\ seen[c][run[c].pass] \subseteq met
  BY ReadsAndMeets DEF Lstat, CheckSteps
<1>2. run[c].pass # 2 /\ run[c] \in RunState
  BY DEF RunInv, Control, CheckSteps, Lstat, TypeInv
<1>3. PICK stat \in met : run[c].statted = {stat} /\ Found(stat)
  BY <1>1 DEF RunInv, CheckInProgress, Lstat
<1> DEFINE mode == FirstDefect(stat, ModeTests)
<1>4. (CHOOSE v \in run[c].statted : TRUE) = stat
  BY <1>3
<1>5. IF mode = "none"
        THEN ~Has(stat, "metadata_not_0444") /\ ~Has(stat, "metadata_not_root_owned")
        ELSE mode \in {"metadata_not_0444", "metadata_not_root_owned"} /\ Has(stat, mode)
  BY ModeDefect
<1>6. CASE Has(metadataFile, "metadata_is_symlink")
  <2>1. Answer(c, "metadata_is_symlink") /\ ~Undefective(metadataFile)
    BY <1>6 DEF Lstat, Undefective, Has
  <2>2. "metadata_is_symlink" \in Reasons \ {"VERIFIED"}
    BY DEF Reasons, Defects
  <2> QED
    BY <1>1, <1>2, <1>6, <2>1, <2>2, RejectionKept
<1>7. CASE ~Has(metadataFile, "metadata_is_symlink") /\ mode # "none"
  <2>1. Answer(c, mode)
    BY <1>4, <1>7 DEF Lstat
  <2>2. Has(stat, mode) /\ ~Undefective(stat) /\ mode \in Reasons \ {"VERIFIED"}
    BY <1>5, <1>7 DEF Undefective, Has, Reasons, Defects
  <2> HIDE DEF mode
  <2> QED
    BY <1>1, <1>2, <2>1, <2>2, RejectionKept
<1>8. CASE ~Has(metadataFile, "metadata_is_symlink") /\ mode = "none" /\ run[c].asRoot
  <2>1. Answer(c, "runtime_is_root")
    BY <1>4, <1>8 DEF Lstat
  <2>2. "runtime_is_root" \in Reasons \ ({"VERIFIED"} \cup Defects)
    BY ContentTestNames DEF Reasons, Defects
  <2> QED
    BY <1>1, <1>2, <1>8, <2>1, <2>2, RejectionKept
<1>9. CASE ~Has(metadataFile, "metadata_is_symlink") /\ mode = "none" /\ ~run[c].asRoot
  <2>1. GoTo(c, "access_directory")
    BY <1>4, <1>9 DEF Lstat
  <2>2. run'[c] = [run[c] EXCEPT !.at = "access_directory"]
    BY <2>1 DEF GoTo, TypeInv
  <2>3. /\ run'[c].at = "access_directory" /\ run'[c].pass = run[c].pass
        /\ run'[c].asRoot = run[c].asRoot
    BY <1>2, <2>2 DEF RunState
  <2>4. /\ Withstands(metadataFile, "metadata_is_symlink")
        /\ Withstands(stat, "metadata_not_0444")
        /\ Withstands(stat, "metadata_not_root_owned")
    BY <1>3, <1>5, <1>9 DEF Withstands, PassesWhenMissing
  <2>5. CheckInProgress(run'[c], seen'[c])
    BY <1>1, <1>3, <1>9, <2>3, <2>4 DEF CheckInProgress, TestsBefore
  <2> QED
    BY <1>1, <1>2, <2>1, <2>5, GoToKept DEF CheckSteps
<1> QED
  BY <1>6, <1>7, <1>8, <1>9, <1>2 DEF RunState

LEMMA AccessDirectoryKept ==
  ASSUME TypeInv, NEW c \in Command, RunInv(run[c], seen[c]), AccessDirectory(c)
  PROVE  RunKept(c)
<1> DEFINE met == seen'[c][run[c].pass]
<1>1. /\ Reads(c) /\ seen' = [seen EXCEPT ![c] = seen'[c]]
      /\ metadataFile \in met /\ seen'[c] \in [Passes -> SUBSET Versions]
      /\ seen[c][run[c].pass] \subseteq met
  BY ReadsAndMeets DEF AccessDirectory, CheckSteps
<1>2. run[c].pass # 2 /\ run[c] \in RunState
  BY DEF RunInv, Control, CheckSteps, AccessDirectory, TypeInv
<1>3. CASE Has(metadataFile, "parent_directory_writable")
  <2>1. Answer(c, "parent_directory_writable") /\ ~Undefective(metadataFile)
    BY <1>3 DEF AccessDirectory, Undefective, Has
  <2>2. "parent_directory_writable" \in Reasons \ {"VERIFIED"}
    BY DEF Reasons, Defects
  <2> QED
    BY <1>1, <1>2, <1>3, <2>1, <2>2, RejectionKept
<1>4. CASE ~Has(metadataFile, "parent_directory_writable")
  <2>1. GoTo(c, "access_file")
    BY <1>4 DEF AccessDirectory
  <2>2. run'[c] = [run[c] EXCEPT !.at = "access_file"]
    BY <2>1 DEF GoTo, TypeInv
  <2>3. /\ run'[c].at = "access_file" /\ run'[c].pass = run[c].pass
        /\ run'[c].asRoot = run[c].asRoot
    BY <1>2, <2>2 DEF RunState
  <2>4. /\ \E v \in met : Found(v)
        /\ \A d \in TestsBefore("access_directory") : \E v \in met : Withstands(v, d)
        /\ ~run[c].asRoot
    BY <1>1, <1>2 DEF RunInv, CheckInProgress, AccessDirectory, CheckSteps
  <2>5. Withstands(metadataFile, "parent_directory_writable")
    BY <1>4 DEF Withstands, PassesWhenMissing
  <2>6. CheckInProgress(run'[c], seen'[c])
    BY <1>1, <2>3, <2>4, <2>5 DEF CheckInProgress, TestsBefore
  <2> QED
    BY <1>1, <1>2, <2>1, <2>6, GoToKept DEF CheckSteps, ReadSteps
<1> QED
  BY <1>3, <1>4

LEMMA AccessFileKept ==
  ASSUME TypeInv, NEW c \in Command, RunInv(run[c], seen[c]), AccessFile(c)
  PROVE  RunKept(c)
<1> DEFINE met == seen'[c][run[c].pass]
<1>1. /\ Reads(c) /\ seen' = [seen EXCEPT ![c] = seen'[c]]
      /\ metadataFile \in met /\ seen'[c] \in [Passes -> SUBSET Versions]
      /\ seen[c][run[c].pass] \subseteq met
  BY ReadsAndMeets DEF AccessFile, CheckSteps
<1>2. run[c].pass # 2 /\ run[c] \in RunState
  BY DEF RunInv, Control, CheckSteps, AccessFile, TypeInv
<1>3. CASE Has(metadataFile, "metadata_writable")
  <2>1. Answer(c, "metadata_writable") /\ ~Undefective(metadataFile)
    BY <1>3 DEF AccessFile, Undefective, Has
  <2>2. "metadata_writable" \in Reasons \ {"VERIFIED"}
    BY DEF Reasons, Defects
  <2> QED
    BY <1>1, <1>2, <1>3, <2>1, <2>2, RejectionKept
<1>4. CASE ~Has(metadataFile, "metadata_writable")
  <2>1. GoTo(c, "read_exists")
    BY <1>4 DEF AccessFile
  <2>2. run'[c] = [run[c] EXCEPT !.at = "read_exists"]
    BY <2>1 DEF GoTo, TypeInv
  <2>3. /\ run'[c].at = "read_exists" /\ run'[c].pass = run[c].pass
        /\ run'[c].asRoot = run[c].asRoot
    BY <1>2, <2>2 DEF RunState
  <2>4. /\ \E v \in met : Found(v)
        /\ \A d \in TestsBefore("access_file") : \E v \in met : Withstands(v, d)
        /\ ~run[c].asRoot
    BY <1>1, <1>2 DEF RunInv, CheckInProgress, AccessFile, CheckSteps
  <2>5. Withstands(metadataFile, "metadata_writable")
    BY <1>4 DEF Withstands, PassesWhenMissing
  <2>6. CheckInProgress(run'[c], seen'[c])
    BY <1>1, <2>3, <2>4, <2>5 DEF CheckInProgress, TestsBefore
  <2> QED
    BY <1>1, <1>2, <2>1, <2>6, GoToKept DEF CheckSteps, ReadSteps
<1> QED
  BY <1>3, <1>4

\* The second pass, with or without metadata, is followed by the third.
LEMMA SecondPassEnds ==
  ASSUME NEW r, NEW met, NEW m, NEW mets, Meeting(r, met, m, mets), r.pass = 2,
         NEW q,
         \/ q = [r EXCEPT !.at = "exists", !.pass = 3] /\ ~Undefective(m)
         \/ q = [r EXCEPT !.at = "exists", !.pass = 3, !.metadata = m.build] /\ Found(m)
  PROVE  q \in RunState /\ RunInv(q, mets)
<1>1. /\ mets[2] = met[2] \cup {m} /\ mets[1] = met[1]
      /\ \A p \in Passes : IsFiniteSet(mets[p])
  BY MetGrows DEF Passes
<1>2. /\ r \in RunState /\ RunInv(r, met) /\ m \in Versions /\ IsVersion(m)
      /\ r.at \in {"exists"} \cup CheckSteps \cup ReadSteps
  BY DEF Meeting
<1>3. r.metadata = "none" /\ Just(r.status, met[1], r.asRoot)
  BY <1>2 DEF RunInv, Verdicts
<1>4. q \in RunState
  <2>1. "exists" \in Steps /\ 3 \in Passes /\ m.build \in Builds
    BY <1>2 DEF Steps, PreparingSteps, Passes, Builds
  <2> QED
    BY <1>2, <2>1 DEF RunState
<1>5. r.artifact = 1 /\ r.written = 0 /\ r.exit # "done"
  BY <1>2 DEF RunInv, Control, PreparingSteps, CheckSteps, ReadSteps
<1>6. /\ q.at = "exists" /\ q.pass = 3 /\ q.status = r.status /\ q.asRoot = r.asRoot
      /\ q.artifact = 1 /\ q.written = 0 /\ q.exit = r.exit
      /\ \/ q.metadata = "none" /\ ~Undefective(m)
         \/ q.metadata = m.build /\ Found(m)
  BY <1>2, <1>3, <1>5 DEF RunState
<1>7. Control(q) /\ CheckInProgress(q, mets) /\ ~Identified(q)
  BY <1>5, <1>6 DEF Control, CheckInProgress, Identified, PreparingSteps, CheckSteps,
     ReadSteps, ArtifactSteps
<1>8. /\ mets[2] # {}
      /\ q.metadata # "none" => \E v \in mets[2] : q.metadata = v.build
      /\ AllUndefective(mets[2]) => q.metadata # "none"
  BY <1>1, <1>2, <1>6 DEF AllUndefective, IsVersion, Found
<1>9. Verdicts(q, mets)
  BY <1>1, <1>3, <1>6, <1>7, <1>8 DEF Verdicts
<1> QED
  BY <1>1, <1>4, <1>7, <1>9 DEF RunInv

LEMMA NoMetadataKept ==
  ASSUME TypeInv, NEW c \in Command, Reads(c), seen' = [seen EXCEPT ![c] = seen'[c]],
         metadataFile \in seen'[c][run[c].pass],
         NoMetadata(c), ~Undefective(metadataFile)
  PROVE  RunKept(c)
<1>1. CASE run[c].pass = 2
  <2>1. /\ run' = [run EXCEPT ![c] = run'[c]]
        /\ run'[c] = [run[c] EXCEPT !.at = "exists", !.pass = 3]
    BY <1>1 DEF NoMetadata, TypeInv
  <2>2. Meeting(run[c], seen[c], metadataFile, seen'[c])
    BY DEF Reads
  <2>3. run'[c] \in RunState /\ RunInv(run'[c], seen'[c])
    BY <1>1, <2>1, <2>2, SecondPassEnds
  <2> QED
    BY <2>1, <2>2, <2>3, MetGrows DEF RunKept
<1>2. CASE run[c].pass # 2
  <2>1. Answer(c, "malformed_metadata")
    BY <1>2 DEF NoMetadata
  <2>2. "malformed_metadata" \in Reasons \ {"VERIFIED"}
    BY ContentTestNames DEF Reasons, Defects
  <2> QED
    BY <1>2, <2>1, <2>2, RejectionKept
<1> QED
  BY <1>1, <1>2

LEMMA ReadExistsKept ==
  ASSUME TypeInv, NEW c \in Command, RunInv(run[c], seen[c]), ReadExists(c)
  PROVE  RunKept(c)
<1> DEFINE met == seen'[c][run[c].pass]
<1>1. /\ Reads(c) /\ seen' = [seen EXCEPT ![c] = seen'[c]]
      /\ metadataFile \in met /\ seen'[c] \in [Passes -> SUBSET Versions]
      /\ seen[c][run[c].pass] \subseteq met
  BY ReadsAndMeets DEF ReadExists, ReadSteps
<1>2. run[c] \in RunState
  BY DEF TypeInv
<1>3. CASE Found(metadataFile)
  <2>1. GoTo(c, "open")
    BY <1>3 DEF ReadExists
  <2>2. run'[c] = [run[c] EXCEPT !.at = "open"]
    BY <2>1 DEF GoTo, TypeInv
  <2>3. /\ run'[c].at = "open" /\ run'[c].pass = run[c].pass
        /\ run'[c].asRoot = run[c].asRoot
    BY <1>2, <2>2 DEF RunState
  <2>4. run[c].pass # 2 =>
          /\ \A d \in TestsBefore("read_exists") : \E v \in met : Withstands(v, d)
          /\ ~run[c].asRoot
    BY <1>1, <1>2 DEF RunInv, CheckInProgress, ReadExists, ReadSteps
  <2>5. CheckInProgress(run'[c], seen'[c])
    BY <1>1, <1>3, <2>3, <2>4 DEF CheckInProgress, TestsBefore
  <2>6. "open" \in ReadSteps \ CheckSteps
    BY DEF CheckSteps, ReadSteps
  <2> QED
    BY <1>1, <2>1, <2>5, <2>6, GoToKept
<1>4. CASE ~Found(metadataFile)
  <2>1. NoMetadata(c) /\ ~Undefective(metadataFile)
    BY <1>4 DEF ReadExists, Undefective
  <2> QED
    BY <1>1, <2>1, NoMetadataKept
<1> QED
  BY <1>3, <1>4

LEMMA OpenKept ==
  ASSUME TypeInv, NEW c \in Command, RunInv(run[c], seen[c]), Open(c)
  PROVE  RunKept(c)
<1> DEFINE met == seen'[c][run[c].pass]
           defect == FirstDefect(metadataFile, ContentTests)
<1>1. /\ Reads(c) /\ seen' = [seen EXCEPT ![c] = seen'[c]]
      /\ metadataFile \in met /\ seen'[c] \in [Passes -> SUBSET Versions]
      /\ seen[c][run[c].pass] \subseteq met
  BY ReadsAndMeets DEF Open, ReadSteps
<1>2. CASE ~Found(metadataFile) \/ Has(metadataFile, "malformed_metadata")
  <2>1. NoMetadata(c) /\ ~Undefective(metadataFile)
    BY <1>2 DEF Open, Undefective, Has
  <2> QED
    BY <1>1, <2>1, NoMetadataKept
<1>3. CASE /\ ~(~Found(metadataFile) \/ Has(metadataFile, "malformed_metadata"))
           /\ run[c].pass = 2
  <2>1. /\ run' = [run EXCEPT ![c] = run'[c]]
        /\ run'[c] = [run[c] EXCEPT !.at = "exists", !.pass = 3,
                                    !.metadata = metadataFile.build]
    BY <1>3 DEF Open, TypeInv
  <2>2. Meeting(run[c], seen[c], metadataFile, seen'[c])
    BY <1>1 DEF Reads
  <2>3. run'[c] \in RunState /\ RunInv(run'[c], seen'[c])
    BY <1>3, <2>1, <2>2, SecondPassEnds
  <2> QED
    BY <1>1, <2>1, <2>3 DEF RunKept
<1>4. CASE /\ ~(~Found(metadataFile) \/ Has(metadataFile, "malformed_metadata"))
           /\ run[c].pass # 2 /\ defect = "none"
  <2>1. Answer(c, "VERIFIED")
    BY <1>4 DEF Open
  <2>2. /\ \A d \in TestsBefore("open") : \E v \in met : Withstands(v, d)
        /\ ~run[c].asRoot
    BY <1>1, <1>4 DEF RunInv, CheckInProgress, Open, ReadSteps
  <2>3. \A d \in ToSet(ContentTests) : Withstands(metadataFile, d)
    BY <1>4, ContentDefect DEF Withstands
  <2>4. Defects = ToSet(ContentTests) \cup TestsBefore("open")
    BY DEF Defects, TestsBefore
  <2>5. PassedEveryTest(met)
    BY <1>1, <1>4, <2>2, <2>3, <2>4 DEF PassedEveryTest
  <2>6. "VERIFIED" \in Reasons \ Defects
    BY ContentTestNames DEF Reasons, Defects
  <2>7. Just("VERIFIED", met, run[c].asRoot)
    BY <1>1, <2>2, <2>5, <2>6 DEF Just
  <2> QED
    BY <1>1, <1>4, <2>1, <2>6, <2>7, AnswerKept
<1>5. CASE /\ ~(~Found(metadataFile) \/ Has(metadataFile, "malformed_metadata"))
           /\ run[c].pass # 2 /\ defect # "none"
  <2>1. Answer(c, defect)
    BY <1>5 DEF Open
  <2>2. defect \in ToSet(ContentTests) /\ Has(metadataFile, defect)
    BY <1>5, ContentDefect
  <2>3. defect \in Reasons \ {"VERIFIED"} /\ ~Undefective(metadataFile)
    BY <2>2, ContentTestNames DEF Reasons, Defects, Undefective, Has
  <2> HIDE DEF defect
  <2> QED
    BY <1>1, <1>5, <2>1, <2>2, <2>3, RejectionKept
<1> QED
  BY <1>2, <1>3, <1>4, <1>5

-----------------------------------------------------------------------------
(***************************************************************************)
(* The steps before and after the identity report.                         *)
(***************************************************************************)
LEMMA ArtifactsExist == Len(Artifacts) \in Nat \ {0} /\ Targets = {Artifacts[i] : i \in 1..Len(Artifacts)}
<1>1. Artifacts \in Seq(STRING) /\ Artifacts # <<>>
  BY ArtifactsAreNamed
<1> QED
  BY <1>1 DEF Targets, ToSet

\* What the identity report says is settled, and an artifact step leaves it.
LEMMA SettledKept ==
  ASSUME TypeInv, NEW c \in Command, RunInv(run[c], seen[c]), Identified(run[c]),
         seen' = seen, run' = [run EXCEPT ![c] = run'[c]], run'[c] \in RunState,
         Identified(run'[c]) \/ run'[c].at = "ended",
         run'[c].pass = 3, IdentityOf(run'[c]) = IdentityOf(run[c]),
         run'[c].asRoot = run[c].asRoot,
         Control(run'[c])
  PROVE  RunKept(c)
<1>1. /\ run'[c].status = run[c].status /\ run'[c].metadata = run[c].metadata
      /\ run'[c].authorized = run[c].authorized
  BY DEF IdentityOf
<1>2. CheckInProgress(run'[c], seen[c])
  BY DEF CheckInProgress, Identified, CheckSteps, ReadSteps, ArtifactSteps
<1>3. run[c].pass = 3 /\ Verdicts(run[c], seen[c]) /\ \A p \in Passes : IsFiniteSet(seen[c][p])
  BY DEF RunInv, Identified
<1>4. Verdicts(run'[c], seen[c])
  BY <1>1, <1>3 DEF Verdicts
<1>5. seen' = [seen EXCEPT ![c] = seen'[c]] /\ seen'[c] \in [Passes -> SUBSET Versions]
  BY DEF TypeInv
<1> QED
  BY <1>2, <1>3, <1>4, <1>5 DEF RunInv, RunKept

LEMMA EndKept ==
  ASSUME TypeInv, NEW c \in Command, RunInv(run[c], seen[c]), seen' = seen,
         NEW status \in {"usage", "error", "refused"}, Exit(c, status)
  PROVE  RunKept(c) /\ run'[c].at = "ended" /\ run'[c].exit = status
<1>1. seen' = [seen EXCEPT ![c] = seen'[c]] /\ seen'[c] \in [Passes -> SUBSET Versions]
  BY DEF TypeInv
<1>2. /\ run' = [run EXCEPT ![c] = run'[c]] /\ run'[c] \in RunState
      /\ run'[c].at = "ended" /\ run'[c].exit = status
      /\ RunInv(run'[c], seen[c])
  BY ExitKept
<1> QED
  BY <1>1, <1>2 DEF RunKept

LEMMA AnalyseKept ==
  ASSUME TypeInv, NEW c \in Command, RunInv(run[c], seen[c]), Analyse(c)
  PROVE  RunKept(c) /\ run'[c].at = "exists" /\ run'[c].exit # "done"
<1>1. run[c] \in RunState /\ run'[c] = [run[c] EXCEPT !.at = "exists"]
  BY DEF Analyse, GoTo, TypeInv
<1>2. run' = [run EXCEPT ![c] = run'[c]] /\ seen' = [seen EXCEPT ![c] = seen'[c]]
  BY DEF Analyse, GoTo, TypeInv
<1>3. "exists" \in Steps
  BY DEF Steps, PreparingSteps
<1>4. run'[c] \in RunState /\ seen'[c] \in [Passes -> SUBSET Versions]
  BY <1>1, <1>3 DEF RunState, TypeInv, Analyse
<1>5. /\ run'[c].at = "exists" /\ run'[c].exit = run[c].exit
      /\ run'[c].pass = run[c].pass /\ run'[c].metadata = run[c].metadata
      /\ run'[c].artifact = run[c].artifact /\ run'[c].written = run[c].written
  BY <1>1 DEF RunState
<1>6. /\ run[c].pass = 1 /\ run[c].exit # "done" /\ run[c].artifact = 1 /\ run[c].written = 0
      /\ run[c].metadata = "none" /\ \A p \in Passes : IsFiniteSet(seen[c][p])
  BY DEF RunInv, Control, Verdicts, Analyse, PreparingSteps
<1>7. Control(run'[c]) /\ CheckInProgress(run'[c], seen[c]) /\ ~Identified(run'[c])
  BY <1>5, <1>6 DEF Control, CheckInProgress, Identified, PreparingSteps, CheckSteps,
     ReadSteps, ArtifactSteps
<1>8. Verdicts(run'[c], seen[c])
  BY <1>5, <1>6, <1>7 DEF Verdicts
<1> QED
  BY <1>2, <1>4, <1>5, <1>6, <1>7, <1>8 DEF RunInv, RunKept, Analyse

\* A step of the run after its report, which only goes on to the next one.
LEMMA SettledGoToKept ==
  ASSUME TypeInv, NEW c \in Command, RunInv(run[c], seen[c]), seen' = seen,
         \/ run[c].at = "rollback" /\ GoTo(c, "check_directory")
         \/ run[c].at = "check_directory" /\ GoTo(c, "check_targets")
         \/ /\ run[c].at = "open_target" /\ GoTo(c, "write_target")
            /\ 0 < RenderedLength(Artifacts[run[c].artifact], Identity(c))
  PROVE  /\ RunKept(c) /\ IdentityOf(run'[c]) = IdentityOf(run[c])
         /\ run'[c].artifact = run[c].artifact /\ run'[c].written = 0
         /\ run'[c].exit # "done"
         /\ run[c].at = "rollback" => run'[c].at = "check_directory"
         /\ run[c].at = "check_directory" => run'[c].at = "check_targets"
         /\ run[c].at = "open_target" => run'[c].at = "write_target"
<1>1. PICK step \in {"check_directory", "check_targets", "write_target"} :
        /\ GoTo(c, step)
        /\ run[c].at = "rollback" => step = "check_directory"
        /\ run[c].at = "check_directory" => step = "check_targets"
        /\ run[c].at = "open_target" => step = "write_target"
        /\ step = "write_target" => 0 < RenderedLength(Artifacts[run[c].artifact], Identity(c))
        /\ step = "check_directory" => run[c].at = "rollback"
  OBVIOUS
<1>2. run[c] \in RunState /\ run'[c] = [run[c] EXCEPT !.at = step]
  BY <1>1 DEF GoTo, TypeInv
<1>3. run' = [run EXCEPT ![c] = run'[c]]
  BY <1>1 DEF GoTo, TypeInv
<1>4. step \in Steps
  BY DEF Steps, PreparingSteps, ArtifactSteps
<1>5. run'[c] \in RunState
  BY <1>2, <1>4 DEF RunState
<1>6. /\ run'[c].at = step /\ run'[c].exit = run[c].exit
      /\ run'[c].pass = run[c].pass /\ run'[c].metadata = run[c].metadata
      /\ run'[c].status = run[c].status /\ run'[c].authorized = run[c].authorized
      /\ run'[c].artifact = run[c].artifact /\ run'[c].written = run[c].written
      /\ run'[c].asRoot = run[c].asRoot
  BY <1>2 DEF RunState
<1>7. /\ run[c].pass = 3 /\ run[c].exit # "done" /\ run[c].written = 0
      /\ step = "check_directory" => run[c].artifact = 1
  BY <1>1 DEF RunInv, Control, PreparingSteps, ArtifactSteps
<1>8. IdentityOf(run'[c]) = IdentityOf(run[c]) /\ Identity(c) = IdentityOf(run[c])
  BY <1>6 DEF IdentityOf, Identity
<1>9. Control(run'[c])
  BY <1>1, <1>6, <1>7, <1>8 DEF Control, PreparingSteps, CheckSteps, ReadSteps, ArtifactSteps
<1>10. Identified(run[c]) /\ Identified(run'[c])
  BY <1>6, <1>7 DEF Identified, ArtifactSteps
<1>11. RunKept(c)
  BY <1>3, <1>5, <1>6, <1>7, <1>8, <1>9, <1>10, SettledKept
<1> QED
  BY <1>1, <1>6, <1>7, <1>8, <1>11

\* A rendered text is never empty.
LEMMA RenderedLengthPositive ==
  ASSUME NEW a, NEW identity
  PROVE  RenderedLength(a, identity) \in Nat \ {0}
BY BlocksAssumption DEF RenderedLength

LEMMA NextArtifactType ==
  ASSUME NEW r, r \in RunState, NEW q, NEW at \in Steps, NEW i \in Positions,
         NEW exit \in Exits,
         \/ q = [r EXCEPT !.artifact = i, !.written = 0, !.at = at]
         \/ q = [r EXCEPT !.artifact = i, !.written = 0, !.at = at, !.exit = exit]
  PROVE  q \in RunState
<1>1. CASE q = [r EXCEPT !.artifact = i, !.written = 0, !.at = at]
  BY <1>1 DEF RunState
<1>2. CASE q = [r EXCEPT !.artifact = i, !.written = 0, !.at = at, !.exit = exit]
  BY <1>2 DEF RunState
<1> QED
  BY <1>1, <1>2

\* On to the next artifact of the checks or of the writes.
LEMMA NextArtifactKept ==
  ASSUME TypeInv, NEW c \in Command, RunInv(run[c], seen[c]), seen' = seen,
         NEW again, NEW beyond, NEW status,
         \/ again = "check_targets" /\ beyond = "open_target" /\ status = "running"
         \/ again = "open_target" /\ beyond = "ended" /\ status = "done",
         run[c].at \in {"check_targets", "write_target"},
         NextArtifact(c, <<again, beyond, status>>)
  PROVE  /\ RunKept(c) /\ IdentityOf(run'[c]) = IdentityOf(run[c])
         /\ IF run[c].artifact < Len(Artifacts)
              THEN /\ run'[c].at = again /\ run'[c].artifact = run[c].artifact + 1
                   /\ run'[c].exit # "done"
              ELSE /\ run'[c].at = beyond /\ run'[c].artifact = 1
                   /\ run'[c].exit = status
<1>1. /\ again \in {"check_targets", "open_target"} /\ beyond \in {"open_target", "ended"}
      /\ status \in {"running", "done"} /\ (status = "done" => beyond = "ended")
  OBVIOUS
<1>2. /\ again \in Steps /\ beyond \in Steps
      /\ status \in Exits
  BY <1>1 DEF Steps, ArtifactSteps, Exits
<1>3. /\ run[c] \in RunState /\ run[c].pass = 3 /\ run[c].exit # "done" /\ Identified(run[c])
  BY DEF TypeInv, RunInv, Control, Identified, ArtifactSteps
<1>4. Len(Artifacts) \in Nat \ {0} /\ run[c].artifact \in 1..Len(Artifacts)
  BY <1>3, ArtifactsExist DEF RunState, Positions
<1>5. CASE run[c].artifact < Len(Artifacts)
  <2>0. run' = [run EXCEPT ![c] = run'[c]]
    BY <1>5 DEF NextArtifact, TypeInv
  <2>1. run'[c] = [run[c] EXCEPT !.artifact = run[c].artifact + 1, !.written = 0,
                                 !.at = again]
    BY <1>3, <1>5 DEF NextArtifact, TypeInv
  <2>2. run[c].artifact + 1 \in Positions
    BY <1>4, <1>5 DEF Positions
  <2>3. run'[c] \in RunState
    BY <1>2, <1>3, <2>1, <2>2, NextArtifactType
  <2>4. /\ run'[c].at = again /\ run'[c].artifact = run[c].artifact + 1
        /\ run'[c].written = 0 /\ run'[c].exit = run[c].exit
        /\ run'[c].pass = 3 /\ run'[c].metadata = run[c].metadata
        /\ run'[c].status = run[c].status /\ run'[c].authorized = run[c].authorized
        /\ run'[c].asRoot = run[c].asRoot
    BY <1>3, <2>1 DEF RunState
  <2>5. Control(run'[c]) /\ Identified(run'[c]) /\ IdentityOf(run'[c]) = IdentityOf(run[c])
    BY <1>1, <1>3, <2>4 DEF Control, Identified, IdentityOf, PreparingSteps, CheckSteps,
       ReadSteps, ArtifactSteps
  <2>6. RunKept(c)
    BY <1>3, <2>0, <2>3, <2>4, <2>5, SettledKept
  <2> QED
    BY <1>3, <1>5, <2>4, <2>5, <2>6
<1>6. CASE ~(run[c].artifact < Len(Artifacts))
  <2>0. run' = [run EXCEPT ![c] = run'[c]]
    BY <1>6 DEF NextArtifact, TypeInv
  <2>1. run'[c] = [run[c] EXCEPT !.artifact = 1, !.written = 0, !.at = beyond,
                                 !.exit = status]
    BY <1>6 DEF NextArtifact, TypeInv
  <2>2. 1 \in Positions
    BY <1>4 DEF Positions
  <2>3. run'[c] \in RunState
    BY <1>2, <1>3, <2>1, <2>2, NextArtifactType
  <2>4. /\ run'[c].at = beyond /\ run'[c].artifact = 1
        /\ run'[c].written = 0 /\ run'[c].exit = status
        /\ run'[c].pass = 3 /\ run'[c].metadata = run[c].metadata
        /\ run'[c].status = run[c].status /\ run'[c].authorized = run[c].authorized
        /\ run'[c].asRoot = run[c].asRoot
    BY <1>3, <2>1 DEF RunState
  <2>5. /\ Control(run'[c]) /\ IdentityOf(run'[c]) = IdentityOf(run[c])
        /\ Identified(run'[c]) \/ run'[c].at = "ended"
    BY <1>1, <1>3, <2>4 DEF Control, Identified, IdentityOf, PreparingSteps, CheckSteps,
       ReadSteps, ArtifactSteps
  <2>6. RunKept(c)
    BY <1>3, <2>0, <2>3, <2>4, <2>5, SettledKept
  <2> QED
    BY <1>6, <2>4, <2>5, <2>6
<1> QED
  BY <1>5, <1>6

\* Another block of the artifact that is being written.
LEMMA NextBlockKept ==
  ASSUME TypeInv, NEW c \in Command, RunInv(run[c], seen[c]), seen' = seen,
         run[c].at = "write_target", NEW k \in Nat,
         k < RenderedLength(Target(c), Identity(c)),
         run' = [run EXCEPT ![c].written = k]
  PROVE  /\ RunKept(c) /\ IdentityOf(run'[c]) = IdentityOf(run[c])
         /\ run'[c].at = "write_target" /\ run'[c].artifact = run[c].artifact
         /\ run'[c].written = k /\ run'[c].exit # "done"
<1>1. run[c] \in RunState /\ run'[c] = [run[c] EXCEPT !.written = k]
  BY DEF TypeInv
<1>2. run' = [run EXCEPT ![c] = run'[c]] /\ run'[c] \in RunState
  BY <1>1 DEF TypeInv, RunState
<1>3. /\ run'[c].at = run[c].at /\ run'[c].artifact = run[c].artifact
      /\ run'[c].written = k /\ run'[c].exit = run[c].exit
      /\ run'[c].pass = run[c].pass /\ run'[c].metadata = run[c].metadata
      /\ run'[c].status = run[c].status /\ run'[c].authorized = run[c].authorized
      /\ run'[c].asRoot = run[c].asRoot
  BY <1>1 DEF RunState
<1>4. run[c].pass = 3 /\ run[c].exit # "done"
  BY DEF RunInv, Control, ArtifactSteps
<1>5. IdentityOf(run'[c]) = IdentityOf(run[c]) /\ Identity(c) = IdentityOf(run[c])
  BY <1>3 DEF IdentityOf, Identity
<1>6. Control(run'[c]) /\ Identified(run[c]) /\ Identified(run'[c])
  BY <1>3, <1>4, <1>5 DEF Control, Identified, Target, PreparingSteps, CheckSteps,
     ReadSteps, ArtifactSteps
<1>7. RunKept(c)
  BY <1>2, <1>3, <1>4, <1>5, <1>6, SettledKept
<1> QED
  BY <1>3, <1>4, <1>5, <1>7

LEMMA FailTargetKept ==
  ASSUME TypeInv, NEW c \in Command, RunInv(run[c], seen[c]), FailTarget(c)
  PROVE  /\ RunKept(c) /\ IdentityOf(run'[c]) = IdentityOf(run[c])
         /\ run'[c].artifact = run[c].artifact /\ run'[c].exit # "done"
         /\ run[c].at = "open_target" => run'[c].at = "failed_open_target"
         /\ run[c].at = "write_target" => run'[c].at = "failed_write_target"
<1> DEFINE step == IF run[c].at = "open_target" THEN "failed_open_target"
                                               ELSE "failed_write_target"
<1>1. run[c] \in RunState /\ run'[c] = [run[c] EXCEPT !.at = step, !.exit = "error"]
  BY DEF TypeInv, FailTarget
<1>2. step \in Steps
  BY DEF Steps, ArtifactSteps
<1>3. step \in {"failed_open_target", "failed_write_target"}
  OBVIOUS
<1>4. run' = [run EXCEPT ![c] = run'[c]] /\ seen' = seen
  BY DEF TypeInv, FailTarget
<1>5. run'[c] \in RunState
  <2> HIDE DEF step
  <2> QED
    BY <1>1, <1>2 DEF RunState, Exits
<1>6. /\ run'[c].at = step /\ run'[c].artifact = run[c].artifact
      /\ run'[c].written = run[c].written /\ run'[c].exit = "error"
      /\ run'[c].pass = run[c].pass /\ run'[c].metadata = run[c].metadata
      /\ run'[c].status = run[c].status /\ run'[c].authorized = run[c].authorized
      /\ run'[c].asRoot = run[c].asRoot
  BY <1>1 DEF RunState
<1>7. run[c].pass = 3 /\ Identified(run[c])
  BY DEF RunInv, Control, FailTarget, Identified, ArtifactSteps
<1>8. /\ Control(run'[c]) /\ Identified(run'[c]) /\ IdentityOf(run'[c]) = IdentityOf(run[c])
  BY <1>3, <1>6, <1>7 DEF Control, Identified, IdentityOf, PreparingSteps, CheckSteps,
     ReadSteps, ArtifactSteps
<1>9. RunKept(c)
  BY <1>4, <1>5, <1>6, <1>7, <1>8, SettledKept
<1> QED
  BY <1>6, <1>8, <1>9 DEF FailTarget

-----------------------------------------------------------------------------
(***************************************************************************)
(* Texts and blocks.                                                       *)
(***************************************************************************)
Put(w, text, k, block) ==
  /\ w \in Seq(AllBlocks)
  /\ Len(w) = (IF k <= Len(text) THEN Len(text) ELSE k)
  /\ w[k] = block
  /\ \A j \in 1..Len(text) : j # k => w[j] = text[j]

LEMMA WithBlockPuts ==
  ASSUME NEW text \in Seq(AllBlocks), NEW k \in Nat \ {0}, NEW block \in AllBlocks,
         Hole \in AllBlocks
  PROVE  Put(WithBlock(text, k, block), text, k, block)
<1> DEFINE w == WithBlock(text, k, block)
           S == AllBlocks
<1>1. CASE k <= Len(text)
  BY <1>1 DEF WithBlock, Put
<1>2. CASE ~(k <= Len(text))
  <2> DEFINE gap == k - Len(text) - 1
             holes == [i \in 1..gap |-> Hole]
  <2>1. gap \in Nat
    BY <1>2
  <2>2. holes \in Seq(S) /\ Len(holes) = gap
    BY <2>1
  <2>3. <<block>> \in Seq(S) /\ Len(<<block>>) = 1 /\ <<block>>[1] = block
    OBVIOUS
  <2>4. WithBlock(text, k, block) = text \o holes \o <<block>>
    BY <1>2 DEF WithBlock, Put
  <2> HIDE DEF holes
  <2> DEFINE padded == text \o holes
  <2>5. padded \in Seq(S) /\ Len(padded) = k - 1
    BY <2>1, <2>2
  <2>6. \A j \in 1..Len(text) : padded[j] = text[j]
    BY <2>2
  <2>7. w = padded \o <<block>>
    BY <2>4
  <2> HIDE DEF padded
  <2>8. /\ padded \o <<block>> \in Seq(S) /\ Len(padded \o <<block>>) = k
        /\ (padded \o <<block>>)[k] = block
        /\ \A j \in 1..k - 1 : (padded \o <<block>>)[j] = padded[j]
    BY <2>3, <2>5
  <2>9. Len(text) <= k - 1 /\ Len(text) \in Nat
    BY <1>2
  <2> QED
    BY <1>2, <2>6, <2>7, <2>8, <2>9 DEF Put
<1> QED
  BY <1>1, <1>2

\* Two identities that show the same in an artifact are rendered the same.
LEMMA ShownRendersAlike ==
  ASSUME NEW a, NEW x, NEW y, Shown(a, x) = Shown(a, y)
  PROVE  /\ RenderedLength(a, x) = RenderedLength(a, y)
         /\ Rendered(a, x) = Rendered(a, y)
         /\ \A k : Block(a, x, k) = Block(a, y, k)
<1>1. RenderedLength(a, x) = RenderedLength(a, y)
  BY DEF Shown, RenderedLength
<1>2. \A k : Block(a, x, k) = Block(a, y, k)
  BY DEF Block
<1> QED
  BY <1>1, <1>2 DEF Rendered

LEMMA RenderedBlocks ==
  ASSUME NEW a, NEW x
  PROVE  /\ Len(Rendered(a, x)) = RenderedLength(a, x)
         /\ \A k \in 1..RenderedLength(a, x) : Rendered(a, x)[k] = Block(a, x, k)
BY RenderedLengthPositive DEF Rendered

LEMMA BlocksAreTyped ==
  ASSUME TypeInv, NEW c \in Command, NEW a, NEW k \in Nat
  PROVE  Block(a, Identity(c), k) \in AllBlocks /\ Hole \in AllBlocks
<1>1. run[c] \in RunState
  BY DEF TypeInv
<1>2. Identity(c) \in Identities
  BY <1>1 DEF Identity, Identities, RunState
<1>3. [Identity(c) EXCEPT !.metadata = "none"] \in Identities
  BY <1>2 DEF Identities, Builds
<1>4. Shown(a, Identity(c)) \in Identities \cup {"nothing", "hole"}
  BY <1>2, <1>3 DEF Shown
<1> QED
  BY <1>4 DEF Block, AllBlocks, Hole

-----------------------------------------------------------------------------
(***************************************************************************)
(* The artifacts: a step that leaves an artifact as it is, one that opens  *)
(* it, and one that writes a block of it.                                  *)
(***************************************************************************)
LEMMA SameRunStays ==
  ASSUME NEW d, NEW i, run'[d] = run[d]
  PROVE  /\ Identity(d)' = Identity(d)
         /\ Opened(d, i)' <=> Opened(d, i)
         /\ Completed(d, i)' <=> Completed(d, i)
         /\ Writing(d, i)' <=> Writing(d, i)
BY DEF Identity, Opened, Completed, Writing

LEMMA OthersStay ==
  ASSUME TypeInv, NEW c \in Command, run' = [run EXCEPT ![c] = run'[c]],
         NEW d \in Command, d # c, NEW i
  PROVE  /\ run'[d] = run[d] /\ Identity(d)' = Identity(d)
         /\ Opened(d, i)' <=> Opened(d, i)
         /\ Completed(d, i)' <=> Completed(d, i)
         /\ Writing(d, i)' <=> Writing(d, i)
<1>1. run'[d] = run[d]
  BY DEF TypeInv
<1> QED
  BY <1>1, SameRunStays

LEMMA ArtifactKept ==
  ASSUME TypeInv, NEW c \in Command, run' = [run EXCEPT ![c] = run'[c]],
         NEW i \in 1..Len(Artifacts), ArtifactInv(i),
         files'[Artifacts[i]] = files[Artifacts[i]], before' = before,
         Opened(c, i)' <=> Opened(c, i),
         Opened(c, i) => Identity(c)' = Identity(c),
         Completed(c, i)' \/ Writing(c, i)' => Completed(c, i) \/ Writing(c, i),
         Writing(c, i) /\ (Completed(c, i)' \/ Writing(c, i)') =>
           Writing(c, i)' /\ run'[c].written = run[c].written
  PROVE  ArtifactInv(i)'
<1>1. Writers(i)' = Writers(i)
  <2>1. \A d \in Command : Opened(d, i)' <=> Opened(d, i)
    BY OthersStay
  <2> QED
    BY <2>1 DEF Writers
<1>2. \A d \in Writers(i) : d \in Command /\ Opened(d, i) /\ Identity(d)' = Identity(d)
  BY OthersStay DEF Writers
<1>3. Writers(i) = {} => files'[Artifacts[i]] = before'[Artifacts[i]]
  BY DEF ArtifactInv
<1>4. ASSUME Agreed(i)', NEW w \in Writers(i)
      PROVE  Covered(i, Rendered(Artifacts[i], Identity(w)))'
  <2>1. \A d \in Writers(i) : Completed(d, i)' \/ Writing(d, i)'
    BY <1>1, <1>4 DEF Agreed
  <2>2. \A d \in Writers(i) : Completed(d, i) \/ Writing(d, i)
    BY <1>2, <2>1, OthersStay
  <2>3. \A d, e \in Writers(i) :
          Shown(Artifacts[i], Identity(d)) = Shown(Artifacts[i], Identity(e))
    BY <1>1, <1>2, <1>4 DEF Agreed
  <2>4. Covered(i, Rendered(Artifacts[i], Identity(w)))
    BY <2>2, <2>3 DEF ArtifactInv, Agreed
  <2>5. \A d \in Command : Writing(d, i) => Writing(d, i)' /\ run'[d].written = run[d].written
    <3>1. ASSUME Writing(c, i) PROVE Writing(c, i)' /\ run'[c].written = run[c].written
      <4>1. c \in Writers(i) \/ ~Opened(c, i)
        BY DEF Writers
      <4>2. Opened(c, i)
        <5>1. run[c].artifact = i /\ run[c].at = "write_target"
          BY <3>1 DEF Writing
        <5> QED
          BY <5>1 DEF Opened
      <4> QED
        BY <2>1, <3>1, <4>1, <4>2
    <3> QED
      BY <3>1, OthersStay
  <2>6. (Rendered(Artifacts[i], Identity(w)))' = Rendered(Artifacts[i], Identity(w))
    BY <1>2
  <2> QED
    BY <2>4, <2>5, <2>6 DEF Covered
<1> QED
  BY <1>1, <1>3, <1>4 DEF ArtifactInv

\* An invocation that has not opened any artifact.
Unopened(r) ==
  /\ r.exit # "done"
  /\ \/ r.at \notin {"open_target", "failed_open_target", "write_target",
                     "failed_write_target"}
     \/ r.at = "open_target" /\ r.artifact = 1

LEMMA QuietKept ==
  ASSUME TypeInv, NEW c \in Command, run' = [run EXCEPT ![c] = run'[c]],
         files' = files, before' = before,
         Unopened(run[c]), Unopened(run'[c]),
         \A i \in 1..Len(Artifacts) : ArtifactInv(i)
  PROVE  \A i \in 1..Len(Artifacts) : ArtifactInv(i)'
<1> TAKE i \in 1..Len(Artifacts)
<1>1. i \in Nat \ {0}
  BY ArtifactsExist
<1>2. ~Opened(c, i) /\ ~Opened(c, i)'
  BY <1>1 DEF Opened, Unopened
<1>3. ~Completed(c, i)' /\ ~Completed(c, i)
  BY <1>2 DEF Completed
<1>4. ~Writing(c, i)' /\ ~Writing(c, i)
  BY <1>1 DEF Unopened, Writing
<1> QED
  BY <1>2, <1>3, <1>4, ArtifactKept

LEMMA FailTargetArtifacts ==
  ASSUME TypeInv, NEW c \in Command, RunInv(run[c], seen[c]), FailTarget(c),
         \A i \in 1..Len(Artifacts) : ArtifactInv(i)
  PROVE  \A i \in 1..Len(Artifacts) : ArtifactInv(i)'
<1> TAKE i \in 1..Len(Artifacts)
<1>1. /\ run' = [run EXCEPT ![c] = run'[c]] /\ IdentityOf(run'[c]) = IdentityOf(run[c])
      /\ run'[c].artifact = run[c].artifact /\ run'[c].exit # "done"
      /\ run[c].at = "open_target" => run'[c].at = "failed_open_target"
      /\ run[c].at = "write_target" => run'[c].at = "failed_write_target"
  BY FailTargetKept DEF RunKept
<1>2. /\ run[c].exit # "done" /\ run[c].at \in {"open_target", "write_target"}
      /\ files' = files /\ before' = before
  BY DEF FailTarget, RunInv, Control
<1>3. Identity(c)' = Identity(c)
  BY <1>1 DEF Identity, IdentityOf
<1>4. Opened(c, i)' <=> Opened(c, i)
  BY <1>1, <1>2 DEF Opened
<1>5. ~Writing(c, i)'
  BY <1>1, <1>2 DEF Writing
<1>6. Completed(c, i)' <=> Completed(c, i)
  BY <1>1, <1>2, <1>4 DEF Completed
<1>7. Writing(c, i) => ~Completed(c, i)
  <2>1. i \in Int
    BY ArtifactsExist
  <2> QED
    BY <2>1 DEF Writing, Completed
<1> QED
  BY <1>1, <1>2, <1>3, <1>4, <1>5, <1>6, <1>7, ArtifactKept

\* Different artifacts have different names.
LEMMA NamesDiffer ==
  ASSUME NEW i \in 1..Len(Artifacts), NEW j \in 1..Len(Artifacts), i # j
  PROVE  Artifacts[i] # Artifacts[j]
<1>1. DOMAIN Artifacts = 1..Len(Artifacts)
  BY ArtifactsAreNamed
<1> QED
  BY <1>1, ArtifactsAreNamed DEF IsInjective

LEMMA OpenTargetKept ==
  ASSUME TypeInv, NEW c \in Command, RunInv(run[c], seen[c]), OpenTarget(c)
  PROVE  /\ RunKept(c) /\ IdentityOf(run'[c]) = IdentityOf(run[c])
         /\ run'[c].artifact = run[c].artifact /\ run'[c].written = 0
         /\ run'[c].exit # "done" /\ run'[c].at = "write_target"
<1>1. 0 < RenderedLength(Artifacts[run[c].artifact], Identity(c))
  BY RenderedLengthPositive
<1> QED
  BY <1>1, SettledGoToKept DEF OpenTarget

LEMMA OpenTargetArtifacts ==
  ASSUME TypeInv, NEW c \in Command, RunInv(run[c], seen[c]), OpenTarget(c),
         \A i \in 1..Len(Artifacts) : ArtifactInv(i)
  PROVE  \A i \in 1..Len(Artifacts) : ArtifactInv(i)'
<1>0. PICK n \in 1..Len(Artifacts) : n = run[c].artifact
  BY DEF TypeInv, RunState, Positions
<1>1. /\ run' = [run EXCEPT ![c] = run'[c]] /\ IdentityOf(run'[c]) = IdentityOf(run[c])
      /\ run'[c].artifact = n /\ run'[c].written = 0
      /\ run'[c].exit # "done" /\ run'[c].at = "write_target"
  BY <1>0, OpenTargetKept DEF RunKept
<1>2. /\ run[c].exit # "done" /\ run[c].at = "open_target" /\ before' = before
      /\ files' = [files EXCEPT ![Artifacts[n]] = File(<<>>)]
  BY <1>0 DEF OpenTarget, RunInv, Control, Target
<1>3. n \in 1..Len(Artifacts) /\ Len(Artifacts) \in Nat /\ Artifacts[n] \in DOMAIN files
  BY ArtifactsExist DEF TypeInv
<1>4. Identity(c)' = Identity(c)
  BY <1>1 DEF Identity, IdentityOf
<1>5. ArtifactInv(n)'
  <2>1. Writing(c, n)' /\ Opened(c, n)'
    BY <1>1, <1>3 DEF Writing, Opened
  <2>2. files'[Artifacts[n]] = File(<<>>)
    BY <1>2, <1>3
  <2>3. Writers(n)' # {}
    BY <2>1 DEF Writers
  <2>4. ASSUME NEW w PROVE Covered(n, Rendered(Artifacts[n], Identity(w)))'
    <3> DEFINE text == (Rendered(Artifacts[n], Identity(w)))'
    <3>1. Len(text) \in Nat
      BY RenderedBlocks, RenderedLengthPositive
    <3>2. files'[Artifacts[n]].text = <<>>
      BY <2>2 DEF File
    <3>3. <<>> \in Seq(AllBlocks) /\ Len(<<>>) = 0
      OBVIOUS
    <3>4. \A k \in 1..Len(text) : run'[c].written < k
      BY <1>1, <3>1
    <3> HIDE DEF text
    <3> QED
      <4>1. Covered(n, Rendered(Artifacts[n], Identity(w)))' <=>
              /\ files'[Artifacts[n]].text \in Seq(AllBlocks)
              /\ files'[Artifacts[n]] = File(files'[Artifacts[n]].text)
              /\ Len(files'[Artifacts[n]].text) <= Len(text)
              /\ \A k \in 1..Len(text) :
                   \/ /\ k <= Len(files'[Artifacts[n]].text)
                      /\ files'[Artifacts[n]].text[k] = text[k]
                   \/ \E d \in Command : Writing(d, n)' /\ run'[d].written < k
        BY DEF Covered, text
      <4>2. files'[Artifacts[n]] = File(files'[Artifacts[n]].text)
        BY <2>2, <3>2
      <4>3. Len(files'[Artifacts[n]].text) <= Len(text)
        BY <3>1, <3>2, <3>3
      <4>4. files'[Artifacts[n]].text \in Seq(AllBlocks)
        BY <3>2, <3>3
      <4>5. \A k \in 1..Len(text) : Writing(c, n)' /\ run'[c].written < k
        BY <2>1, <3>4
      <4> QED
        BY <4>1, <4>2, <4>3, <4>4, <4>5
  <2> QED
    BY <2>3, <2>4 DEF ArtifactInv
<1>6. ASSUME NEW i \in 1..Len(Artifacts), i # n PROVE ArtifactInv(i)'
  <2>1. files'[Artifacts[i]] = files[Artifacts[i]]
    <3>1. Artifacts[i] # Artifacts[n] /\ Artifacts[i] \in DOMAIN files
      BY <1>3, <1>6, NamesDiffer, ArtifactsExist DEF TypeInv
    <3> QED
      BY <1>2, <3>1
  <2>2. i \in Int /\ n \in Int
    BY <1>3
  <2>3. Opened(c, i)' <=> Opened(c, i)
    BY <1>0, <1>1, <1>2, <1>6, <2>2 DEF Opened
  <2>4. Completed(c, i)' => Completed(c, i)
    BY <1>0, <1>1, <1>2, <1>6, <2>2, <2>3 DEF Completed
  <2>5. ~Writing(c, i) /\ ~Writing(c, i)'
    BY <1>0, <1>1, <1>2, <1>6 DEF Writing
  <2> QED
    BY <1>1, <1>2, <1>4, <2>1, <2>3, <2>4, <2>5, ArtifactKept
<1> QED
  BY <1>5, <1>6

LEMMA WriteTargetKept ==
  ASSUME TypeInv, NEW c \in Command, RunInv(run[c], seen[c]), WriteTarget(c),
         NEW n, n = run[c].artifact, NEW k, k = run[c].written + 1,
         NEW last, last = RenderedLength(Artifacts[n], Identity(c))
  PROVE  /\ RunKept(c) /\ IdentityOf(run'[c]) = IdentityOf(run[c])
         /\ k \in 1..last /\ last \in Nat
         /\ \/ /\ k < last /\ run'[c].at = "write_target" /\ run'[c].artifact = n
               /\ run'[c].written = k /\ run'[c].exit # "done"
            \/ /\ k = last /\ n < Len(Artifacts) /\ run'[c].at = "open_target"
               /\ run'[c].artifact = n + 1 /\ run'[c].exit # "done"
            \/ /\ k = last /\ ~(n < Len(Artifacts)) /\ run'[c].at = "ended"
               /\ run'[c].exit = "done"
<1>1. run[c] \in RunState /\ run[c].at = "write_target" /\ Identity(c) = IdentityOf(run[c])
  BY DEF TypeInv, WriteTarget, Identity, IdentityOf
<1>2. run[c].written \in Nat /\ run[c].written < last
  BY <1>1 DEF RunInv, Control, RunState
<1>3. last \in Nat /\ k \in 1..last
  BY <1>2, RenderedLengthPositive
<1>4. seen' = seen
  BY DEF WriteTarget
<1>5. CASE k < last
  <2>1. run' = [run EXCEPT ![c].written = k] /\ k < RenderedLength(Target(c), Identity(c))
    BY <1>5 DEF WriteTarget, Target
  <2> QED
    <3>1. k \in Nat
      BY <1>3
    <3>2. /\ RunKept(c) /\ IdentityOf(run'[c]) = IdentityOf(run[c])
          /\ run'[c].at = "write_target" /\ run'[c].artifact = run[c].artifact
          /\ run'[c].written = k /\ run'[c].exit # "done"
      BY <1>1, <1>4, <2>1, <3>1, NextBlockKept
    <3> QED
      BY <1>3, <1>5, <3>2
<1>6. CASE ~(k < last)
  <2>1. NextArtifact(c, <<"open_target", "ended", "done">>)
    BY <1>6 DEF WriteTarget, Target
  <2>2. k = last
    BY <1>3, <1>6
  <2>3. /\ RunKept(c) /\ IdentityOf(run'[c]) = IdentityOf(run[c])
        /\ IF run[c].artifact < Len(Artifacts)
             THEN /\ run'[c].at = "open_target" /\ run'[c].artifact = run[c].artifact + 1
                  /\ run'[c].exit # "done"
             ELSE /\ run'[c].at = "ended" /\ run'[c].artifact = 1
                  /\ run'[c].exit = "done"
    BY <1>1, <1>4, <2>1, NextArtifactKept
  <2> QED
    BY <1>3, <2>2, <2>3
<1> QED
  BY <1>5, <1>6

\* The block is right, those that were right stay so, and those that were to be
\* written still are.
LEMMA WriteTargetArtifacts ==
  ASSUME TypeInv, NEW c \in Command, RunInv(run[c], seen[c]), WriteTarget(c),
         \A i \in 1..Len(Artifacts) : ArtifactInv(i)
  PROVE  \A i \in 1..Len(Artifacts) : ArtifactInv(i)'
<1>1. PICK n \in 1..Len(Artifacts) : n = run[c].artifact
  BY DEF TypeInv, RunState, Positions
<1>2. PICK k : k = run[c].written + 1
  OBVIOUS
<1>3. PICK last : last = RenderedLength(Artifacts[n], Identity(c))
  OBVIOUS
<1>4. PICK block : block = Block(Artifacts[n], Identity(c), k)
  OBVIOUS
<1>5. /\ run' = [run EXCEPT ![c] = run'[c]] /\ IdentityOf(run'[c]) = IdentityOf(run[c])
      /\ k \in 1..last /\ last \in Nat
      /\ \/ /\ k < last /\ run'[c].at = "write_target" /\ run'[c].artifact = n
            /\ run'[c].written = k /\ run'[c].exit # "done"
         \/ /\ k = last /\ n < Len(Artifacts) /\ run'[c].at = "open_target"
            /\ run'[c].artifact = n + 1 /\ run'[c].exit # "done"
         \/ /\ k = last /\ ~(n < Len(Artifacts)) /\ run'[c].at = "ended"
            /\ run'[c].exit = "done"
  BY <1>1, <1>2, <1>3, WriteTargetKept DEF RunKept
<1>6. /\ run[c].at = "write_target" /\ run[c].exit # "done" /\ before' = before
      /\ files' = [files EXCEPT ![Artifacts[n]].text = WithBlock(@, k, block)]
  BY <1>1, <1>2, <1>4 DEF WriteTarget, RunInv, Control, Target
<1>7. Identity(c)' = Identity(c)
  BY <1>5 DEF Identity, IdentityOf
<1>8. Len(Artifacts) \in Nat /\ n \in Int /\ n <= Len(Artifacts) /\ Artifacts[n] \in DOMAIN files
  BY ArtifactsExist DEF TypeInv
<1>9. ASSUME NEW i \in 1..Len(Artifacts), i # n PROVE ArtifactInv(i)'
  <2>1. files'[Artifacts[i]] = files[Artifacts[i]]
    <3>1. Artifacts[i] # Artifacts[n] /\ Artifacts[i] \in DOMAIN files
      BY <1>9, NamesDiffer, ArtifactsExist DEF TypeInv
    <3> QED
      BY <1>6, <3>1
  <2>2. i \in Int /\ i <= Len(Artifacts)
    BY <1>8
  <2>3. Opened(c, i)' <=> Opened(c, i)
    BY <1>1, <1>5, <1>6, <1>8, <1>9, <2>2 DEF Opened
  <2>4. Completed(c, i)' => Completed(c, i)
    BY <1>1, <1>5, <1>6, <1>8, <1>9, <2>2, <2>3 DEF Completed, Opened
  <2>5. ~Writing(c, i) /\ ~Writing(c, i)'
    BY <1>1, <1>5, <1>6, <1>9 DEF Writing
  <2> QED
    BY <1>5, <1>6, <1>7, <2>1, <2>3, <2>4, <2>5, ArtifactKept
<1>10. ArtifactInv(n)'
  <2>1. Writing(c, n) /\ Opened(c, n) /\ Opened(c, n)'
    BY <1>1, <1>5, <1>6, <1>8 DEF Writing, Opened
  <2>2. Writers(n)' = Writers(n) /\ Writers(n) # {}
    <3>1. \A d \in Command : Opened(d, n)' <=> Opened(d, n)
      BY <1>5, <2>1, OthersStay
    <3> QED
      BY <2>1, <3>1 DEF Writers
  <2>3. \A d \in Writers(n) : d \in Command /\ Identity(d)' = Identity(d)
    BY <1>5, <1>7, OthersStay DEF Writers
  <2>4. ASSUME Agreed(n)', NEW w \in Writers(n)
        PROVE  Covered(n, Rendered(Artifacts[n], Identity(w)))'
    <3>1. PICK text : text = Rendered(Artifacts[n], Identity(w))
      OBVIOUS
    <3>2. \A d, e \in Writers(n) :
            Shown(Artifacts[n], Identity(d)) = Shown(Artifacts[n], Identity(e))
      BY <2>2, <2>3, <2>4 DEF Agreed
    <3>3. \A d \in Writers(n) : Completed(d, n) \/ Writing(d, n)
      <4>1. \A d \in Writers(n) : Completed(d, n)' \/ Writing(d, n)'
        BY <2>2, <2>4 DEF Agreed
      <4> QED
        BY <1>5, <2>1, <2>3, <4>1, OthersStay
    <3>4. Covered(n, text)
      BY <3>1, <3>2, <3>3 DEF ArtifactInv, Agreed
    <3>5. Len(text) = last /\ text[k] = block
      <4>1. Shown(Artifacts[n], Identity(w)) = Shown(Artifacts[n], Identity(c))
        BY <2>1, <3>2 DEF Writers
      <4>2. /\ RenderedLength(Artifacts[n], Identity(w)) = last
            /\ Block(Artifacts[n], Identity(w), k) = block
        BY <1>3, <1>4, <4>1, ShownRendersAlike
      <4> QED
        BY <1>5, <3>1, <4>2, RenderedBlocks
    <3>6. PICK old : old = files[Artifacts[n]].text
      OBVIOUS
    <3>7. PICK new : new = WithBlock(old, k, block)
      OBVIOUS
    <3>8. old \in Seq(AllBlocks) /\ files[Artifacts[n]] = File(old) /\ Len(old) <= last
      BY <3>4, <3>5, <3>6 DEF Covered
    <3>9. /\ new \in Seq(AllBlocks)
          /\ Len(new) = (IF k <= Len(old) THEN Len(old) ELSE k)
          /\ new[k] = block
          /\ \A j \in 1..Len(old) : j # k => new[j] = old[j]
      <4>1. k \in Nat \ {0}
        BY <1>5
      <4>2. block \in AllBlocks /\ Hole \in AllBlocks
        BY <1>4, <4>1, BlocksAreTyped
      <4>3. old \in Seq(AllBlocks)
        BY <3>8
      <4>4. Put(new, old, k, block)
        BY <3>7, <4>1, <4>2, <4>3, WithBlockPuts, Zenon
      <4> QED
        BY <4>4 DEF Put
    <3>10. files'[Artifacts[n]] = File(new) /\ files'[Artifacts[n]].text = new
      <4>1. files'[Artifacts[n]] = [files[Artifacts[n]] EXCEPT !.text = new]
        BY <1>6, <1>8, <3>6, <3>7
      <4> QED
        BY <3>8, <4>1 DEF File
    <3>11. Len(new) <= last /\ Len(old) \in Nat
      BY <1>5, <3>8, <3>9
    <3>12. ASSUME NEW j \in 1..last
           PROVE  \/ j <= Len(new) /\ new[j] = text[j]
                  \/ \E d \in Command : Writing(d, n)' /\ run'[d].written < j
      <4>1. CASE j = k
        BY <1>5, <3>5, <3>9, <3>11, <4>1
      <4>2. CASE j # k /\ j <= Len(old) /\ old[j] = text[j]
        <5>1. j \in 1..Len(old) /\ j <= Len(new)
          BY <1>5, <3>9, <3>11, <4>2
        <5> QED
          BY <3>9, <4>2, <5>1
      <4>3. CASE j # k /\ \E d \in Command : Writing(d, n) /\ run[d].written < j
        <5>1. PICK d \in Command : Writing(d, n) /\ run[d].written < j
          BY <4>3
        <5>2. CASE d = c
          <6>1. run[c].written \in Nat
            BY DEF TypeInv, RunState
          <6>2. k < j
            BY <1>2, <1>5, <4>3, <5>1, <5>2, <6>1
          <6>3. Writing(c, n)' /\ run'[c].written = k
            BY <1>5, <6>2 DEF Writing
          <6> QED
            BY <6>2, <6>3
        <5>3. CASE d # c
          BY <1>5, <5>1, <5>3, OthersStay
        <5> QED
          BY <5>2, <5>3
      <4>4. \/ j <= Len(old) /\ old[j] = text[j]
            \/ \E d \in Command : Writing(d, n) /\ run[d].written < j
        BY <3>4, <3>5, <3>6 DEF Covered
      <4> QED
        BY <4>1, <4>2, <4>3, <4>4
    <3>13. Covered(n, text)'
      BY <3>5, <3>9, <3>10, <3>11, <3>12 DEF Covered
    <3>14. (Rendered(Artifacts[n], Identity(w)))' = text
      BY <2>3, <3>1
    <3> QED
      BY <3>13, <3>14
  <2> QED
    BY <2>2, <2>4 DEF ArtifactInv
<1> QED
  BY <1>9, <1>10

-----------------------------------------------------------------------------
(***************************************************************************)
(* Every step of an invocation.                                            *)
(***************************************************************************)
\* A target that must not be written keeps every invocation away from them all.
LEMMA RefusalKept ==
  ASSUME TypeInv, NEW c \in Command, run' = [run EXCEPT ![c] = run'[c]],
         files' = files, before' = before, RefusalInv,
         SomeTargetIsSpecial =>
           /\ run'[c].at \notin {"open_target", "write_target"}
           /\ run'[c].at = "check_targets" =>
                \A j \in 1..run'[c].artifact - 1 : before[Artifacts[j]] # Special
  PROVE  RefusalInv'
<1>1. SUFFICES ASSUME SomeTargetIsSpecial'
      PROVE  /\ files' = before'
             /\ \A d \in Command :
                  /\ run'[d].at \notin {"open_target", "write_target"}
                  /\ run'[d].at = "check_targets" =>
                       \A j \in 1..run'[d].artifact - 1 : before'[Artifacts[j]] # Special
  BY DEF RefusalInv
<1>2. SomeTargetIsSpecial
  BY <1>1 DEF SomeTargetIsSpecial
<1>3. \A d \in Command : d # c => run'[d] = run[d]
  BY DEF TypeInv
<1> QED
  BY <1>2, <1>3 DEF RefusalInv

\* A step that touches neither the artifacts nor anything that protects them.
LEMMA BystanderKept ==
  ASSUME TypeInv, NEW c \in Command, run' = [run EXCEPT ![c] = run'[c]],
         files' = files, before' = before, ArtifactsInv, RefusalInv,
         Unopened(run[c]),
         run'[c].exit # "done",
         run'[c].at \notin ArtifactSteps
  PROVE  ArtifactsInv' /\ RefusalInv'
<1>1. Unopened(run'[c])
  BY DEF Unopened, ArtifactSteps
<1>2. ArtifactsInv'
  BY <1>1, QuietKept DEF ArtifactsInv
<1>3. RefusalInv'
  BY RefusalKept DEF ArtifactSteps
<1> QED
  BY <1>2, <1>3

\* Before its artifacts, an invocation has opened none.
LEMMA PreparingIsUnopened ==
  ASSUME NEW c \in Command, RunInv(run[c], seen[c]),
         run[c].at \in PreparingSteps \cup {"check_targets"}
  PROVE  Unopened(run[c])
BY DEF RunInv, Control, Unopened, PreparingSteps, CheckSteps, ReadSteps

Reading(c) ==
  \/ CheckExists(c) \/ Stat(c) \/ Lstat(c) \/ AccessDirectory(c) \/ AccessFile(c)
  \/ ReadExists(c) \/ Open(c)

\* Wherever a pass goes on, it is not to an artifact.
LEMMA ReadingStaysAway ==
  ASSUME TypeInv, NEW c \in Command, RunInv(run[c], seen[c]), Reading(c)
  PROVE  run'[c].at \notin ArtifactSteps /\ run'[c].exit # "done"
<1>1. run[c].exit # "done" /\ run[c] \in RunState
  BY DEF RunInv, Control, TypeInv, Reading, CheckExists, Stat, Lstat, AccessDirectory,
     AccessFile, ReadExists, Open
<1>2. ASSUME NEW verdict, Answer(c, verdict)
      PROVE  run'[c].at \notin ArtifactSteps /\ run'[c].exit # "done"
  <2>1. run'[c].at \in {"read_exists", "rollback"} /\ run'[c].exit = run[c].exit
    BY <1>1, <1>2 DEF Answer, TypeInv, RunState
  <2> QED
    BY <1>1, <2>1 DEF ArtifactSteps
<1>3. ASSUME NEW step, GoTo(c, step), step \notin ArtifactSteps
      PROVE  run'[c].at \notin ArtifactSteps /\ run'[c].exit # "done"
  <2>1. run'[c].at = step /\ run'[c].exit = run[c].exit
    BY <1>1, <1>3 DEF GoTo, TypeInv, RunState
  <2> QED
    BY <1>1, <1>3, <2>1
<1>4. ASSUME Exit(c, "error")
      PROVE  run'[c].at \notin ArtifactSteps /\ run'[c].exit # "done"
  <2>1. run'[c].at = "ended" /\ run'[c].exit = "error"
    BY <1>1, <1>4 DEF Exit, TypeInv, RunState
  <2> QED
    BY <2>1 DEF ArtifactSteps
<1>5. ASSUME NoMetadata(c)
      PROVE  run'[c].at \notin ArtifactSteps /\ run'[c].exit # "done"
  <2>1. CASE run[c].pass = 2
    <3>1. run'[c].at = "exists" /\ run'[c].exit = run[c].exit
      BY <1>1, <1>5, <2>1 DEF NoMetadata, TypeInv, RunState
    <3> QED
      BY <1>1, <3>1 DEF ArtifactSteps
  <2>2. CASE run[c].pass # 2
    BY <1>2, <1>5, <2>2 DEF NoMetadata
  <2> QED
    BY <2>1, <2>2
<1>6. {"stat", "access_directory", "access_file", "read_exists", "open"}
        \cap ArtifactSteps = {}
  BY DEF ArtifactSteps
<1>7. CASE CheckExists(c)
  <2>1. IsVersion(metadataFile)
    BY VersionsArePossible DEF TypeInv
  <2> QED
    BY <1>2, <1>3, <1>4, <1>6, <1>7, <2>1 DEF CheckExists, IsVersion
<1>8. CASE Stat(c)
  <2>1. CASE Found(metadataFile)
    <3>1. run'[c].at = "lstat" /\ run'[c].exit = run[c].exit
      BY <1>1, <1>8, <2>1 DEF Stat, TypeInv, RunState
    <3> QED
      BY <1>1, <3>1 DEF ArtifactSteps
  <2> QED
    BY <1>2, <1>8, <2>1 DEF Stat
<1>9. CASE Lstat(c)
  BY <1>2, <1>3, <1>6, <1>9 DEF Lstat
<1>10. CASE AccessDirectory(c) \/ AccessFile(c)
  BY <1>2, <1>3, <1>6, <1>10 DEF AccessDirectory, AccessFile
<1>11. CASE ReadExists(c)
  BY <1>3, <1>5, <1>6, <1>11 DEF ReadExists
<1>12. CASE Open(c)
  <2>1. CASE NoMetadata(c)
    BY <1>5, <2>1
  <2>2. CASE run[c].pass = 2 /\ ~NoMetadata(c)
    <3>1. run'[c].at = "exists" /\ run'[c].exit = run[c].exit
      BY <1>1, <1>12, <2>2 DEF Open, TypeInv, RunState
    <3> QED
      BY <1>1, <3>1 DEF ArtifactSteps
  <2>3. CASE run[c].pass # 2 /\ ~NoMetadata(c)
    BY <1>2, <1>12, <2>3 DEF Open
  <2> QED
    BY <2>1, <2>2, <2>3
<1> QED
  BY <1>7, <1>8, <1>9, <1>10, <1>11, <1>12 DEF Reading

LEMMA ReadingKept ==
  ASSUME TypeInv, NEW c \in Command, RunInv(run[c], seen[c]), Reading(c),
         ArtifactsInv, RefusalInv
  PROVE  RunKept(c) /\ ArtifactsInv' /\ RefusalInv'
<1>1. RunKept(c)
  BY CheckExistsKept, StatKept, LstatKept, AccessDirectoryKept, AccessFileKept,
     ReadExistsKept, OpenKept DEF Reading
<1>2. files' = files /\ before' = before /\ run[c].at \in PreparingSteps
  BY DEF Reading, CheckExists, Stat, Lstat, AccessDirectory, AccessFile, ReadExists, Open,
     PreparingSteps, CheckSteps, ReadSteps
<1>3. Unopened(run[c])
  BY <1>2, PreparingIsUnopened
<1> QED
  BY <1>1, <1>2, <1>3, ReadingStaysAway, BystanderKept DEF RunKept

\* The steps that neither read the metadata file nor reach the artifacts.
LEMMA PreparationKept ==
  ASSUME TypeInv, NEW c \in Command, RunInv(run[c], seen[c]), ArtifactsInv, RefusalInv,
         \/ RejectArguments(c) \/ FailAnalysis(c) \/ Analyse(c) \/ RollBack(c)
         \/ CheckDirectory(c) \/ FailDirectory(c)
  PROVE  RunKept(c) /\ ArtifactsInv' /\ RefusalInv'
<1>1. files' = files /\ before' = before /\ seen' = seen /\ run[c].at \in PreparingSteps
  BY DEF RejectArguments, FailAnalysis, Analyse, RollBack, CheckDirectory, FailDirectory,
     PreparingSteps
<1>2. Unopened(run[c])
  BY <1>1, PreparingIsUnopened
<1>3. ASSUME NEW status \in {"usage", "error", "refused"}, Exit(c, status)
      PROVE  RunKept(c) /\ ArtifactsInv' /\ RefusalInv'
  <2>1. RunKept(c) /\ run'[c].at = "ended" /\ run'[c].exit = status
    BY <1>1, <1>3, EndKept
  <2>2. run'[c].at \notin ArtifactSteps /\ run'[c].exit # "done"
    BY <2>1 DEF ArtifactSteps
  <2> QED
    BY <1>1, <1>2, <2>1, <2>2, BystanderKept DEF RunKept
<1>4. CASE Analyse(c)
  <2>1. RunKept(c) /\ run'[c].at = "exists" /\ run'[c].exit # "done"
    BY <1>4, AnalyseKept
  <2>2. run'[c].at \notin ArtifactSteps
    BY <2>1 DEF ArtifactSteps
  <2> QED
    BY <1>1, <1>2, <2>1, <2>2, BystanderKept DEF RunKept
<1>5. CASE RollBack(c)
  <2>1. RunKept(c) /\ run'[c].at = "check_directory" /\ run'[c].exit # "done"
    BY <1>1, <1>5, SettledGoToKept DEF RollBack
  <2>2. run'[c].at \notin ArtifactSteps
    BY <2>1 DEF ArtifactSteps
  <2> QED
    BY <1>1, <1>2, <2>1, <2>2, BystanderKept DEF RunKept
<1>6. CASE CheckDirectory(c) /\ GoTo(c, "check_targets")
  <2>1. /\ RunKept(c) /\ run'[c].at = "check_targets" /\ run'[c].exit # "done"
        /\ run'[c].artifact = run[c].artifact
    BY <1>1, <1>6, SettledGoToKept DEF CheckDirectory
  <2>2. run[c].artifact = 1
    BY <1>6 DEF RunInv, Control, CheckDirectory, PreparingSteps
  <2>3. Unopened(run'[c])
    BY <2>1 DEF Unopened
  <2>4. ArtifactsInv'
    BY <1>1, <1>2, <2>1, <2>3, QuietKept DEF ArtifactsInv, RunKept
  <2>5. RefusalInv'
    BY <1>1, <2>1, <2>2, RefusalKept DEF RunKept
  <2> QED
    BY <2>1, <2>4, <2>5
<1> QED
  BY <1>3, <1>4, <1>5, <1>6 DEF RejectArguments, FailAnalysis, CheckDirectory, Refuse,
     FailDirectory

LEMMA CheckTargetKept ==
  ASSUME TypeInv, NEW c \in Command, RunInv(run[c], seen[c]), ArtifactsInv, RefusalInv,
         CheckTarget(c) \/ FailCheck(c)
  PROVE  RunKept(c) /\ ArtifactsInv' /\ RefusalInv'
<1>1. /\ files' = files /\ before' = before /\ seen' = seen
      /\ run[c].at = "check_targets" /\ Unopened(run[c])
  BY PreparingIsUnopened DEF CheckTarget, FailCheck
<1>2. ASSUME NEW status \in {"refused", "error"}, Exit(c, status)
      PROVE  RunKept(c) /\ ArtifactsInv' /\ RefusalInv'
  <2>1. RunKept(c) /\ run'[c].at = "ended" /\ run'[c].exit = status
    BY <1>1, <1>2, EndKept
  <2>2. run'[c].at \notin ArtifactSteps /\ run'[c].exit # "done"
    BY <2>1 DEF ArtifactSteps
  <2> QED
    BY <1>1, <2>1, <2>2, BystanderKept DEF RunKept
<1>3. CASE CheckTarget(c) /\ files[Target(c)].kind # "special"
  <2>1. NextArtifact(c, <<"check_targets", "open_target", "running">>)
    BY <1>3 DEF CheckTarget
  <2>2. /\ RunKept(c)
        /\ IF run[c].artifact < Len(Artifacts)
             THEN /\ run'[c].at = "check_targets" /\ run'[c].artifact = run[c].artifact + 1
                  /\ run'[c].exit # "done"
             ELSE /\ run'[c].at = "open_target" /\ run'[c].artifact = 1
                  /\ run'[c].exit = "running"
    BY <1>1, <2>1, NextArtifactKept
  <2>3. Unopened(run'[c])
    BY <2>2 DEF Unopened
  <2>4. ArtifactsInv'
    BY <1>1, <2>2, <2>3, QuietKept DEF ArtifactsInv, RunKept
  <2>5. PICK n \in 1..Len(Artifacts) : n = run[c].artifact
    BY DEF TypeInv, RunState, Positions
  <2>6. n \in Nat /\ Len(Artifacts) \in Nat
    BY ArtifactsExist
  <2>7. ASSUME SomeTargetIsSpecial
        PROVE  \A j \in 1..n : before[Artifacts[j]] # Special
    <3>1. \A j \in 1..n - 1 : before[Artifacts[j]] # Special
      BY <1>1, <2>5, <2>7 DEF RefusalInv
    <3>2. before[Artifacts[n]].kind # "special"
      BY <1>3, <2>5, <2>7 DEF RefusalInv, Target
    <3>3. before[Artifacts[n]] # Special
      BY <3>2 DEF Special
    <3> QED
      BY <2>6, <3>1, <3>3
  <2>8. SomeTargetIsSpecial => n < Len(Artifacts)
    <3>1. SUFFICES ASSUME SomeTargetIsSpecial, ~(n < Len(Artifacts)) PROVE FALSE
      OBVIOUS
    <3>2. PICK j \in 1..Len(Artifacts) : before[Artifacts[j]] = Special
      BY <3>1, ArtifactsExist DEF SomeTargetIsSpecial
    <3> QED
      BY <2>6, <2>7, <3>1, <3>2
  <2>9. RefusalInv'
    <3>1. SomeTargetIsSpecial =>
            /\ run'[c].at = "check_targets"
            /\ \A j \in 1..run'[c].artifact - 1 : before[Artifacts[j]] # Special
      BY <2>2, <2>5, <2>6, <2>7, <2>8
    <3>2. run' = [run EXCEPT ![c] = run'[c]]
      BY <2>2 DEF RunKept
    <3> QED
      BY <1>1, <3>1, <3>2, RefusalKept
  <2> QED
    BY <2>2, <2>4, <2>9
<1> QED
  BY <1>2, <1>3 DEF CheckTarget, FailCheck, Refuse

LEMMA WritingKept ==
  ASSUME TypeInv, NEW c \in Command, RunInv(run[c], seen[c]), ArtifactsInv, RefusalInv,
         OpenTarget(c) \/ WriteTarget(c) \/ FailTarget(c)
  PROVE  RunKept(c) /\ ArtifactsInv' /\ RefusalInv'
<1>1. run[c].at \in {"open_target", "write_target"} /\ before' = before
  BY DEF OpenTarget, WriteTarget, FailTarget
<1>2. RefusalInv'
  BY <1>1 DEF RefusalInv, SomeTargetIsSpecial
<1>3. RunKept(c)
  BY OpenTargetKept, WriteTargetKept, FailTargetKept
<1>4. ArtifactsInv'
  BY OpenTargetArtifacts, WriteTargetArtifacts, FailTargetArtifacts DEF ArtifactsInv
<1> QED
  BY <1>2, <1>3, <1>4

LEMMA RunStepKept ==
  ASSUME IInv, NEW c \in Command, RunStep(c)
  PROVE  IInv'
<1>1. TypeInv /\ RunInv(run[c], seen[c]) /\ ArtifactsInv /\ RefusalInv
  BY DEF IInv
<1>2. RunKept(c) /\ ArtifactsInv' /\ RefusalInv'
  BY <1>1, ReadingKept, PreparationKept, CheckTargetKept, WritingKept DEF RunStep, Reading
<1>3. /\ metadataFile' = metadataFile /\ deployments' = deployments
  BY DEF RunStep, RejectArguments, FailAnalysis, Analyse, CheckExists, Stat, Lstat,
     AccessDirectory, AccessFile, ReadExists, Open, RollBack, CheckDirectory,
     FailDirectory, CheckTarget, FailCheck, OpenTarget, WriteTarget, FailTarget
<1>4. DOMAIN files' = DOMAIN files
  BY DEF RunStep, RejectArguments, FailAnalysis, Analyse, CheckExists, Stat, Lstat,
     AccessDirectory, AccessFile, ReadExists, Open, RollBack, CheckDirectory,
     FailDirectory, CheckTarget, FailCheck, OpenTarget, WriteTarget, FailTarget
<1>5. TypeInv'
  BY <1>1, <1>2, <1>3, <1>4 DEF TypeInv, RunKept
<1>6. \A d \in Command : RunInv(run'[d], seen'[d])
  <2> TAKE d \in Command
  <2>1. CASE d = c
    BY <1>2, <2>1 DEF RunKept
  <2>2. CASE d # c
    <3>1. run'[d] = run[d] /\ seen'[d] = seen[d]
      BY <1>1, <1>2, <2>2 DEF RunKept, TypeInv
    <3> QED
      BY <3>1 DEF IInv
  <2> QED
    BY <2>1, <2>2
<1> QED
  BY <1>2, <1>5, <1>6 DEF IInv

-----------------------------------------------------------------------------
(***************************************************************************)
(* The inductive invariant holds, and what follows from it.                *)
(***************************************************************************)
LEMMA InitKept == Init => IInv
<1> SUFFICES ASSUME Init PROVE IInv
  OBVIOUS
<1>1. PICK s \in Situations :
        /\ metadataFile = Head(s.versions) /\ deployments = Tail(s.versions)
        /\ files = s.files /\ before = s.files
        /\ run = [c \in Command |-> NewRun(s.asRoot)]
        /\ seen = [c \in Command |-> [p \in Passes |-> {}]]
  BY DEF Init
<1>2. /\ s.versions \in Seq(ToSet(s.versions)) /\ s.versions # <<>>
      /\ s.asRoot \in BOOLEAN /\ DOMAIN s.files = Targets
  BY SituationsArePossible
<1>3. metadataFile \in Versions /\ deployments \in Seq(Versions)
  <2>1. ToSet(s.versions) \subseteq Versions
    BY DEF Versions
  <2>2. s.versions \in Seq(Versions)
    BY <1>2, <2>1
  <2> QED
    BY <1>1, <1>2, <2>2
<1>4. NewRun(s.asRoot) \in RunState
  <2>1. 1 \in Positions
    BY ArtifactsExist DEF Positions
  <2>2. "start" \in Steps /\ 1 \in Passes /\ {} \in SUBSET Versions /\ "none" \in Statuses
        /\ "none" \in Builds /\ "running" \in Exits
    BY DEF Steps, PreparingSteps, Passes, Statuses, Builds, Exits
  <2> QED
    BY <1>2, <2>1, <2>2 DEF NewRun, RunState
<1>5. TypeInv
  BY <1>1, <1>2, <1>3, <1>4 DEF TypeInv
<1>6. ASSUME NEW c \in Command PROVE RunInv(run[c], seen[c])
  <2>1. run[c] = NewRun(s.asRoot) /\ \A p \in Passes : seen[c][p] = {}
    BY <1>1
  <2>2. Control(run[c]) /\ CheckInProgress(run[c], seen[c]) /\ Verdicts(run[c], seen[c])
    BY <2>1 DEF NewRun, Control, CheckInProgress, Verdicts, Identified, PreparingSteps,
       CheckSteps, ReadSteps, ArtifactSteps
  <2> QED
    BY <2>1, <2>2, FS_EmptySet DEF RunInv
<1>7. ArtifactsInv
  <2> SUFFICES ASSUME NEW i \in 1..Len(Artifacts) PROVE ArtifactInv(i)
    BY DEF ArtifactsInv
  <2>1. Writers(i) = {}
    BY <1>1 DEF Writers, Opened, NewRun
  <2> QED
    BY <1>1, <2>1 DEF ArtifactInv
<1>8. RefusalInv
  BY <1>1 DEF RefusalInv, NewRun
<1> QED
  BY <1>5, <1>6, <1>7, <1>8 DEF IInv

\* Nothing but the metadata file changes.
Idle == UNCHANGED <<files, run, before, seen>>

LEMMA IdleArtifact ==
  ASSUME Idle, NEW i, ArtifactInv(i)
  PROVE  ArtifactInv(i)'
<1>1. files' = files /\ before' = before /\ \A c \in Command : run'[c] = run[c]
  BY DEF Idle
<1>2. \A c \in Command :
        /\ Identity(c)' = Identity(c)
        /\ Opened(c, i)' <=> Opened(c, i)
        /\ Completed(c, i)' <=> Completed(c, i)
        /\ Writing(c, i)' <=> Writing(c, i)
  BY <1>1, SameRunStays
<1>3. Writers(i)' = Writers(i)
  BY <1>2 DEF Writers
<1>4. Agreed(i)' <=> Agreed(i)
  BY <1>2, <1>3 DEF Agreed, Writers
<1>5. \A c \in Command :
        (Rendered(Artifacts[i], Identity(c)))' = Rendered(Artifacts[i], Identity(c))
  BY <1>2
<1>6. \A c \in Command :
        Covered(i, Rendered(Artifacts[i], Identity(c))) =>
          Covered(i, Rendered(Artifacts[i], Identity(c)))'
  BY <1>1, <1>2, <1>5 DEF Covered
<1> QED
  BY <1>1, <1>3, <1>4, <1>6 DEF ArtifactInv, Writers

LEMMA IdleKept ==
  ASSUME IInv, Idle
  PROVE  TypeInv' => IInv'
<1>1. \A c \in Command : RunInv(run'[c], seen'[c])
  BY DEF IInv, Idle
<1>2. ArtifactsInv'
  BY IdleArtifact DEF IInv, ArtifactsInv
<1>3. RefusalInv'
  BY DEF IInv, RefusalInv, SomeTargetIsSpecial, Idle
<1> QED
  BY <1>1, <1>2, <1>3 DEF IInv

LEMMA DeployKept ==
  ASSUME IInv, Deploy
  PROVE  IInv'
<1>1. TypeInv'
  BY DEF Deploy, IInv, TypeInv
<1>2. Idle
  BY DEF Deploy, Idle
<1> QED
  BY <1>1, <1>2, IdleKept

LEMMA StepKept == IInv /\ [Next]_vars => IInv'
<1> SUFFICES ASSUME IInv, [Next]_vars PROVE IInv'
  OBVIOUS
<1>1. CASE \E c \in Command : RunStep(c)
  BY <1>1, RunStepKept
<1>2. CASE Deploy
  BY <1>2, DeployKept
<1>3. CASE UNCHANGED vars
  <2>1. TypeInv'
    BY <1>3 DEF vars, IInv, TypeInv
  <2> QED
    BY <1>3, <2>1, IdleKept DEF vars, Idle
<1> QED
  BY <1>1, <1>2, <1>3 DEF Next

\* In every reachable state, each invocation is where its report and the
\* artifacts can be told from what it has met.
THEOREM Invariance == Spec => []IInv
BY InitKept, StepKept, PTL DEF Spec

\* A set of one version is that of each of its parts.
LEMMA OneVersionMet ==
  ASSUME NEW A, NEW B, NEW C, IsFiniteSet(A), IsFiniteSet(B), IsFiniteSet(C),
         A # {}, B # {}, C # {}, Cardinality(A \cup B \cup C) = 1
  PROVE  \E v : A = {v} /\ B = {v} /\ C = {v}
<1>1. IsFiniteSet(A \cup B \cup C)
  BY FS_Union
<1>2. PICK v : A \cup B \cup C = {v}
  BY <1>1, FS_Singleton
<1> QED
  BY <1>2

LEMMA IdentityFollows == IInv => IdentityFollowsTheFile
<1> SUFFICES ASSUME IInv, NEW c \in Command, HasIdentity(c)
             PROVE
    LET met == seen[c]
        verified == run[c].status = "VERIFIED"
    IN  /\ verified => ~run[c].asRoot /\ PassedEveryTest(met[1])
        /\ run[c].authorized => ~run[c].asRoot /\ PassedEveryTest(met[3])
        /\ (\A v \in met[1] : Undefective(v)) /\ ~run[c].asRoot => verified
        /\ (\A v \in met[2] : Undefective(v)) => run[c].metadata # "none"
        /\ (\A v \in met[3] : Undefective(v)) /\ ~run[c].asRoot => run[c].authorized
        /\ run[c].status \in Defects \ {"malformed_metadata"} =>
             \E v \in met[1] : Has(v, run[c].status)
        /\ Cardinality(met[1] \cup met[2] \cup met[3]) = 1 =>
             /\ run[c].authorized = verified
             /\ verified => run[c].metadata = (CHOOSE v \in met[2] : TRUE).build
  BY DEF IdentityFollowsTheFile
<1> DEFINE met == seen[c]
           verified == run[c].status = "VERIFIED"
<1>1. run[c] \in RunState /\ met \in [Passes -> SUBSET Versions] /\ RunInv(run[c], met)
  BY DEF IInv, TypeInv
<1>2. Identified(run[c])
  BY <1>1 DEF HasIdentity, Identified, RunInv, Control, RunState, Steps, PreparingSteps,
     CheckSteps, ReadSteps
<1>3. run[c].pass = 3 /\ Just(run[c].status, met[1], run[c].asRoot)
  BY <1>1, <1>2 DEF Identified, RunInv, Verdicts
<1>4. PICK verdict : /\ Just(verdict, met[3], run[c].asRoot)
                     /\ run[c].authorized = (verdict = "VERIFIED")
  BY <1>1, <1>2 DEF RunInv, Verdicts
<1>5. /\ met[2] # {}
      /\ run[c].metadata # "none" => \E v \in met[2] : run[c].metadata = v.build
      /\ AllUndefective(met[2]) => run[c].metadata # "none"
  BY <1>1, <1>3 DEF RunInv, Verdicts
<1>6. ASSUME Cardinality(met[1] \cup met[2] \cup met[3]) = 1
      PROVE  /\ run[c].authorized = verified
             /\ verified => run[c].metadata = (CHOOSE v \in met[2] : TRUE).build
  <2>1. \A p \in Passes : IsFiniteSet(met[p])
    BY <1>1 DEF RunInv
  <2>2. IsFiniteSet(met[1]) /\ IsFiniteSet(met[2]) /\ IsFiniteSet(met[3])
    BY <2>1 DEF Passes
  <2>3. met[1] # {} /\ met[3] # {}
    BY <1>3, <1>4 DEF Just
  <2>4. PICK v : met[1] = {v} /\ met[2] = {v} /\ met[3] = {v}
    BY <1>5, <1>6, <2>2, <2>3, OneVersionMet
  <2>5. v \in Versions
    BY <1>1, <2>4 DEF Passes
  <2>6. PassedEveryTest({v}) => Undefective(v)
    <3>1. IsVersion(v)
      BY <2>5, VersionsArePossible
    <3> QED
      BY <3>1, ContentTestNames
      DEF PassedEveryTest, Withstands, PassesWhenMissing, Undefective, Has, IsVersion, Found,
          Defects
  <2>7. verified => ~run[c].asRoot /\ Undefective(v)
    BY <1>3, <2>4, <2>6 DEF Just
  <2>8. run[c].authorized => ~run[c].asRoot /\ Undefective(v)
    BY <1>4, <2>4, <2>6 DEF Just
  <2>9. ~run[c].asRoot /\ Undefective(v) => verified /\ run[c].authorized
    BY <1>3, <1>4, <2>4 DEF Just, AllUndefective
  <2>10. run[c].authorized \in BOOLEAN
    BY <1>1 DEF RunState
  <2>11. run[c].authorized = verified
    BY <2>7, <2>8, <2>9, <2>10
  <2>12. verified => run[c].metadata = v.build
    BY <1>5, <2>4, <2>7 DEF AllUndefective
  <2> QED
    BY <2>4, <2>11, <2>12
<1> QED
  BY <1>3, <1>4, <1>5, <1>6 DEF Just, AllUndefective

\* What the identity report says rests on the versions of the metadata file that
\* its passes have met, for any deployments between its system calls.
THEOREM Identification == Spec => []IdentityFollowsTheFile
BY Invariance, IdentityFollows, PTL

LEMMA ArtifactsFollow == IInv => ArtifactsAreTheReports
<1> SUFFICES ASSUME IInv, NEW i \in 1..Len(Artifacts)
             PROVE
    LET a == Artifacts[i]
        writers == {c \in Command : Opened(c, i)}
    IN  IF writers = {} THEN files[a] = before[a]
        ELSE (/\ \A c \in writers : Completed(c, i)
              /\ \A c, d \in writers : Shown(a, Identity(c)) = Shown(a, Identity(d)))
             => \A c \in writers : files[a] = File(Rendered(a, Identity(c)))
  BY DEF ArtifactsAreTheReports
<1>1. ArtifactInv(i)
  BY DEF IInv, ArtifactsInv
<1>2. CASE Writers(i) = {}
  BY <1>1, <1>2 DEF ArtifactInv, Writers
<1>3. ASSUME \A c \in Writers(i) : Completed(c, i),
             \A c, d \in Writers(i) :
               Shown(Artifacts[i], Identity(c)) = Shown(Artifacts[i], Identity(d)),
             NEW w \in Writers(i)
      PROVE  files[Artifacts[i]] = File(Rendered(Artifacts[i], Identity(w)))
  <2>1. PICK text : text = Rendered(Artifacts[i], Identity(w))
    OBVIOUS
  <2>2. PICK last \in Nat : /\ Len(text) = last /\ text \in [1..last -> {text[k] : k \in 1..last}]
    <3>1. RenderedLength(Artifacts[i], Identity(w)) \in Nat
      BY RenderedLengthPositive
    <3> QED
      BY <2>1, <3>1 DEF Rendered
  <2>3. Covered(i, text)
    BY <1>1, <1>3, <2>1 DEF ArtifactInv, Agreed
  <2>4. ASSUME NEW d \in Command PROVE ~Writing(d, i)
    <3>1. i \in Int
      BY ArtifactsExist
    <3>2. Writing(d, i) => Opened(d, i) /\ ~Completed(d, i)
      BY <3>1 DEF Writing, Opened, Completed
    <3> QED
      BY <1>3, <3>2 DEF Writers
  <2>5. PICK held : held = files[Artifacts[i]].text
    OBVIOUS
  <2>6. /\ held \in Seq(AllBlocks) /\ files[Artifacts[i]] = File(held)
        /\ Len(held) <= last
        /\ \A k \in 1..last : k <= Len(held) /\ held[k] = text[k]
    BY <2>2, <2>3, <2>4, <2>5 DEF Covered
  <2>7. Len(held) = last
    BY <2>2, <2>6
  <2>8. held = text
    <3>1. held = [k \in 1..last |-> held[k]]
      BY <2>6, <2>7
    <3>2. text = [k \in 1..last |-> text[k]]
      BY <2>2
    <3> QED
      BY <2>6, <3>1, <3>2
  <2> QED
    BY <2>1, <2>6, <2>8
<1> QED
  BY <1>2, <1>3 DEF Writers

\* However the writes of several invocations are interleaved, and whichever of
\* them fail, an artifact is what it was or one of the reports.
THEOREM WholeArtifacts == Spec => []ArtifactsAreTheReports
BY Invariance, ArtifactsFollow, PTL

LEMMA RefusalFollows == IInv => RefusalLosesNothing
BY DEF IInv, RefusalInv, SomeTargetIsSpecial, RefusalLosesNothing

\* One target that must not be written protects all the old artifacts.
THEOREM Refusal == Spec => []RefusalLosesNothing
BY Invariance, RefusalFollows, PTL
=============================================================================

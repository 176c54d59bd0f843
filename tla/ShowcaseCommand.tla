--------------------------- MODULE ShowcaseCommand ---------------------------
(***************************************************************************)
(* `python -m app.showcase`: main (app/showcase/__main__.py) runs the      *)
(* showcase, whose last step is the engine identity report                 *)
(* (app/analytics/engine_identity.py), and then writes the artifacts       *)
(* (app/showcase/artifacts.py).  Several invocations may share the output  *)
(* directory, and a deployment may replace the metadata file at any time.  *)
(*                                                                         *)
(* Every system call on the metadata file and on an artifact is a step.    *)
(* The database part of the run is ShowcaseRun; here it ends well or not,  *)
(* and since fixture and evaluation time are fixed, two reports differ in  *)
(* their identity section only.                                            *)
(***************************************************************************)
EXTENDS Naturals, Sequences, FiniteSets, SequencesExt

CONSTANTS
  Command,      \* the invocations
  Artifacts,    \* ARTIFACT_FILENAMES, in the order in which they are written
  Blocks,       \* how many writes a text takes
  Situations    \* what the invocations find: metadata file and output directory

ASSUME ArtifactsAreNamed ==
  Artifacts \in Seq(STRING) /\ Artifacts # <<>> /\ IsInjective(Artifacts)

ASSUME BlocksAssumption == Blocks \in Nat \ {0}

Targets == ToSet(Artifacts)

VARIABLES
  metadataFile,  \* what is at the metadata path
  deployments,   \* the versions that will replace it, in their order
  directory,     \* what is at the output directory's path
  files,         \* what is at the path of each artifact
  run,           \* the state of each invocation
  before,        \* history: the artifacts at first
  seen           \* history: the versions that each pass may have met

vars == <<metadataFile, deployments, directory, files, run, before, seen>>

(***************************************************************************)
(* A version of the metadata file is what keeps it from being verified.    *)
(* Nothing is wrong with the content or mode of a file that is not found;  *)
(* its directory may be writable, or not to be searched ("denied").        *)
(***************************************************************************)
ContentTests ==
  <<"malformed_metadata", "substrate_incomplete", "dirty_source",
    "python_version_mismatch", "source_version_unverifiable">>

Defects ==
  ToSet(ContentTests) \cup
  {"metadata_is_symlink", "metadata_not_0444", "metadata_not_root_owned",
   "parent_directory_writable", "metadata_writable"}

\* What is at the path of an artifact: nothing, something that is not to be
\* written, or a file.
Absent  == [kind |-> "absent", text |-> <<>>]
Special == [kind |-> "special", text |-> <<>>]
File(text) == [kind |-> "file", text |-> text]

IsVersion(v) ==
  /\ v.lookup \in {"found", "missing", "denied"}
  /\ v.lookup = "found" => v.build # "none"
  /\ v.defects \subseteq
       (IF v.lookup = "found" THEN Defects ELSE {"parent_directory_writable"})

ASSUME SituationsArePossible ==
  \A s \in Situations :
    /\ s.versions \in Seq(ToSet(s.versions)) /\ s.versions # <<>>
    /\ \A v \in ToSet(s.versions) : IsVersion(v)
    /\ s.directory \in {"absent", "directory", "symlink", "file"}
    /\ s.asRoot \in BOOLEAN
    /\ s.asRoot => \A v \in ToSet(s.versions) : v.lookup # "denied"
    /\ DOMAIN s.files = Targets
    /\ s.directory # "directory" => \A a \in Targets : s.files[a] = Absent

Found(v) == v.lookup = "found"

Has(v, defect) == defect \in v.defects

(***************************************************************************)
(* An invocation: its next step, the pass it makes over the metadata file  *)
(* (check_immutability, get_metadata, authorize_persistence), the answer   *)
(* of stat that the check holds, the fields of the EngineIdentityReport,   *)
(* the artifact it is at, the blocks of it that are written, whether it    *)
(* runs as root, and the exit status.                                      *)
(***************************************************************************)
Passes == 1..3

NewRun(asRoot) ==
  [at |-> "start", asRoot |-> asRoot, pass |-> 1, statted |-> {}, status |-> "none",
   metadata |-> "none", authorized |-> FALSE,
   artifact |-> 1, written |-> 0, exit |-> "running"]

Init ==
  \E s \in Situations :
    /\ metadataFile = Head(s.versions) /\ deployments = Tail(s.versions)
    /\ directory = s.directory
    /\ files = s.files /\ before = s.files
    /\ run = [c \in Command |-> NewRun(s.asRoot)]
    /\ seen = [c \in Command |-> [p \in Passes |-> {}]]

-----------------------------------------------------------------------------
(* The analysis, up to its identity report.                                *)

Exit(c, status) ==
  run' = [run EXCEPT ![c].at = "ended", ![c].exit = status]

GoTo(c, step) == run' = [run EXCEPT ![c].at = step]

\* No DATABASE_URL, or none that is an asyncpg URL.
RejectArguments(c) ==
  /\ run[c].at = "start"
  /\ Exit(c, "usage")
  /\ UNCHANGED <<metadataFile, deployments, directory, files, before, seen>>

\* ShowcaseDatabaseNotReady, ShowcaseConsistencyError, OSError or DBAPIError,
\* before the identity report or in the rollback after it.
FailAnalysis(c) ==
  /\ run[c].at \in {"start", "rollback"}
  /\ Exit(c, "error")
  /\ UNCHANGED <<metadataFile, deployments, directory, files, before, seen>>

Analyse(c) ==
  /\ run[c].at = "start"
  /\ GoTo(c, "exists")
  /\ UNCHANGED <<metadataFile, deployments, directory, files, before, seen>>

-----------------------------------------------------------------------------
(* The identity report: three passes over one path.                        *)

\* The version is part of what the current pass has met.
Meets(c) ==
  seen' = [seen EXCEPT ![c][run[c].pass] = @ \cup {metadataFile}]

\* Mutant: authorize_persistence goes by the status that is in the report.
AnswerFromStatus(c, verdict) ==
  run' = [run EXCEPT ![c].statted = {},
                     ![c].at = IF run[c].pass = 1 THEN "read_exists" ELSE "rollback",
                     ![c].pass = IF run[c].pass = 1 THEN 2 ELSE 3,
                     ![c].status = IF run[c].pass = 1 THEN verdict ELSE @,
                     ![c].authorized = run[c].status = "VERIFIED"]

\* A check has its verdict: check_immutability returns.
Answer(c, verdict) ==
  run' = [run EXCEPT ![c].statted = {},
                     ![c].at = IF run[c].pass = 1 THEN "read_exists" ELSE "rollback",
                     ![c].pass = IF run[c].pass = 1 THEN 2 ELSE 3,
                     ![c].status = IF run[c].pass = 1 THEN verdict ELSE @,
                     ![c].authorized = run[c].pass = 3 /\ verdict = "VERIFIED"]

\* exists() answers that a file is missing, but raises when it may not look;
\* main takes the PermissionError for a failure to connect.
CheckExists(c) ==
  /\ run[c].at = "exists"
  /\ CASE metadataFile.lookup = "found"   -> GoTo(c, "stat")
       [] metadataFile.lookup = "missing" -> Answer(c, "missing_metadata")
       [] metadataFile.lookup = "denied"  -> Exit(c, "error")
  /\ Meets(c)
  /\ UNCHANGED <<metadataFile, deployments, directory, files, before>>

Stat(c) ==
  /\ run[c].at = "stat"
  /\ IF Found(metadataFile)
       THEN run' = [run EXCEPT ![c].at = "lstat", ![c].statted = {metadataFile}]
       ELSE Answer(c, "metadata_unreadable")
  /\ Meets(c)
  /\ UNCHANGED <<metadataFile, deployments, directory, files, before>>

ModeTests == <<"metadata_not_0444", "metadata_not_root_owned">>

\* The first test that the version fails.
FirstDefect(v, tests) ==
  LET failed == {i \in DOMAIN tests : Has(v, tests[i])}
  IN  IF failed = {} THEN "none" ELSE tests[Min(failed)]

\* The link is tested as it is now, mode and owner as stat found them; a file
\* that is gone by now is no link.
Lstat(c) ==
  /\ run[c].at = "lstat"
  /\ LET stat == CHOOSE v \in run[c].statted : TRUE
         mode == FirstDefect(stat, ModeTests)
     IN  CASE Has(metadataFile, "metadata_is_symlink") -> Answer(c, "metadata_is_symlink")
           [] OTHER ->
                IF mode # "none" THEN Answer(c, mode)
                ELSE IF run[c].asRoot THEN Answer(c, "runtime_is_root")
                ELSE GoTo(c, "access_directory")
  /\ Meets(c)
  /\ UNCHANGED <<metadataFile, deployments, directory, files, before>>

AccessDirectory(c) ==
  /\ run[c].at = "access_directory"
  /\ IF Has(metadataFile, "parent_directory_writable")
       THEN Answer(c, "parent_directory_writable")
       ELSE GoTo(c, "access_file")
  /\ Meets(c)
  /\ UNCHANGED <<metadataFile, deployments, directory, files, before>>

AccessFile(c) ==
  /\ run[c].at = "access_file"
  /\ IF Has(metadataFile, "metadata_writable")
       THEN Answer(c, "metadata_writable")
       ELSE GoTo(c, "read_exists")
  /\ Meets(c)
  /\ UNCHANGED <<metadataFile, deployments, directory, files, before>>

\* get_metadata, for the report or for a check, has no metadata to give.
NoMetadata(c) ==
  IF run[c].pass = 2
    THEN run' = [run EXCEPT ![c].at = "exists", ![c].pass = 3]
    ELSE Answer(c, "malformed_metadata")

ReadExists(c) ==
  /\ run[c].at = "read_exists"
  /\ IF Found(metadataFile) THEN GoTo(c, "open") ELSE NoMetadata(c)
  /\ Meets(c)
  /\ UNCHANGED <<metadataFile, deployments, directory, files, before>>

Open(c) ==
  /\ run[c].at = "open"
  /\ IF ~Found(metadataFile) \/ Has(metadataFile, "malformed_metadata")
       THEN NoMetadata(c)
     ELSE IF run[c].pass = 2
       THEN run' = [run EXCEPT ![c].at = "exists", ![c].pass = 3,
                               ![c].metadata = metadataFile.build]
     ELSE LET defect == FirstDefect(metadataFile, ContentTests)
          IN  Answer(c, IF defect = "none" THEN "VERIFIED" ELSE defect)
  /\ Meets(c)
  /\ UNCHANGED <<metadataFile, deployments, directory, files, before>>

\* A deployment puts the next version at the path.
Deploy ==
  /\ deployments # <<>>
  /\ metadataFile' = Head(deployments) /\ deployments' = Tail(deployments)
  /\ UNCHANGED <<directory, files, run, before, seen>>

-----------------------------------------------------------------------------
(* The artifacts.  The report is complete and the transaction rolled back. *)

RollBack(c) ==
  /\ run[c].at = "rollback"
  /\ GoTo(c, "check_directory")
  /\ UNCHANGED <<metadataFile, deployments, directory, files, before, seen>>

\* The identity of a report and whether the preconditions of persistence are
\* met (the ranking of the fixture is authoritative).
Identity(c) ==
  [status |-> run[c].status, met |-> run[c].authorized, metadata |-> run[c].metadata]

\* What an artifact shows of it: the JSON everything, the two reports all but
\* the metadata, the drawing nothing.
Shown(artifact, identity) ==
  CASE artifact = "showcase.json" -> identity
    [] artifact = "graph.svg"     -> "nothing"
    [] OTHER                      -> [identity EXCEPT !.metadata = "none"]

\* A text of the same environment is longer with the metadata than without.
RenderedLength(artifact, identity) ==
  IF artifact = "showcase.json" /\ identity.metadata # "none"
    THEN Blocks + 1 ELSE Blocks

Block(artifact, identity, k) == [shows |-> Shown(artifact, identity), k |-> k]

Rendered(artifact, identity) ==
  [k \in 1..RenderedLength(artifact, identity) |-> Block(artifact, identity, k)]

Refuse(c) == Exit(c, "refused")

\* A link or a file in the directory's place is refused; a missing directory
\* is made.
CheckDirectory(c) ==
  /\ run[c].at = "check_directory"
  /\ IF directory \in {"symlink", "file"}
       THEN Refuse(c) /\ UNCHANGED directory
       ELSE GoTo(c, "check_targets") /\ directory' = "directory"
  /\ UNCHANGED <<metadataFile, deployments, files, before, seen>>

\* OSError from is_symlink, exists or mkdir.
FailDirectory(c) ==
  /\ run[c].at = "check_directory"
  /\ Exit(c, "error")
  /\ UNCHANGED <<metadataFile, deployments, directory, files, before, seen>>

Target(c) == Artifacts[run[c].artifact]

\* Mutant: each target is checked just before it is written.
NextArtifactCheckedLate(c, last) ==
  IF run[c].at = "check_targets" THEN GoTo(c, "open_target")
  ELSE IF run[c].artifact < Len(Artifacts)
    THEN run' = [run EXCEPT ![c].artifact = @ + 1, ![c].written = 0, ![c].at = "check_targets"]
    ELSE run' = [run EXCEPT ![c].at = last[2], ![c].exit = last[3]]

\* On to the next artifact, or to what follows the last one.
NextArtifact(c, last) ==
  IF run[c].artifact < Len(Artifacts)
    THEN run' = [run EXCEPT ![c].artifact = @ + 1, ![c].written = 0, ![c].at = last[1]]
    ELSE run' = [run EXCEPT ![c].artifact = 1, ![c].written = 0,
                            ![c].at = last[2], ![c].exit = last[3]]

CheckTarget(c) ==
  /\ run[c].at = "check_targets"
  /\ IF files[Target(c)].kind = "special"
       THEN Refuse(c)
       ELSE NextArtifact(c, <<"check_targets", "open_target", "running">>)
  /\ UNCHANGED <<metadataFile, deployments, directory, files, before, seen>>

\* OSError from is_symlink, exists or is_file.
FailCheck(c) ==
  /\ run[c].at = "check_targets"
  /\ Exit(c, "error")
  /\ UNCHANGED <<metadataFile, deployments, directory, files, before, seen>>

\* Mutant: an existing file keeps what it holds.
OpenTargetWithoutTruncation(c) ==
  /\ run[c].at = "open_target"
  /\ files' = [files EXCEPT ![Target(c)].kind = "file"]
  /\ GoTo(c, "write_target")
  /\ UNCHANGED <<metadataFile, deployments, directory, before, seen>>

OpenTarget(c) ==
  /\ run[c].at = "open_target"
  /\ files' = [files EXCEPT ![Target(c)] = File(<<>>)]
  /\ GoTo(c, "write_target")
  /\ UNCHANGED <<metadataFile, deployments, directory, before, seen>>

Hole == [shows |-> "hole", k |-> 0]

\* A write puts its block at the offset of this invocation, whatever another
\* one has made of the file since it was opened.
WithBlock(text, k, block) ==
  IF k <= Len(text) THEN [text EXCEPT ![k] = block]
  ELSE text \o [i \in 1..(k - Len(text) - 1) |-> Hole] \o <<block>>

WriteTarget(c) ==
  /\ run[c].at = "write_target"
  /\ LET k == run[c].written + 1
         block == Block(Target(c), Identity(c), k)
     IN  /\ files' = [files EXCEPT ![Target(c)].text = WithBlock(@, k, block)]
         /\ IF k < RenderedLength(Target(c), Identity(c))
              THEN run' = [run EXCEPT ![c].written = k]
              ELSE NextArtifact(c, <<"open_target", "ended", "done">>)
  /\ UNCHANGED <<metadataFile, deployments, directory, before, seen>>

\* OSError from open, which leaves the file as it is, or from a write.
FailTarget(c) ==
  /\ run[c].at \in {"open_target", "write_target"}
  /\ run' = [run EXCEPT ![c].at = IF @ = "open_target" THEN "failed_open_target"
                                                       ELSE "failed_write_target",
                         ![c].exit = "error"]
  /\ UNCHANGED <<metadataFile, deployments, directory, files, before, seen>>

RunStep(c) ==
  \/ RejectArguments(c) \/ FailAnalysis(c) \/ Analyse(c)
  \/ CheckExists(c) \/ Stat(c) \/ Lstat(c) \/ AccessDirectory(c) \/ AccessFile(c)
  \/ ReadExists(c) \/ Open(c)
  \/ RollBack(c) \/ CheckDirectory(c) \/ FailDirectory(c)
  \/ CheckTarget(c) \/ FailCheck(c) \/ OpenTarget(c) \/ WriteTarget(c) \/ FailTarget(c)

Next == Deploy \/ \E c \in Command : RunStep(c)

Spec == Init /\ [][Next]_vars

-----------------------------------------------------------------------------
(* Properties.                                                             *)

Undefective(v) == Found(v) /\ v.defects = {}

\* The identity report of an invocation is complete.
HasIdentity(c) ==
  run[c].pass = 3 /\ run[c].at \notin {"exists", "stat", "lstat", "access_directory",
                                       "access_file", "read_exists", "open", "ended"}

\* A version passes the test of a defect.  One that is not found is no link
\* and cannot be written, but has neither mode nor content to pass a test.
PassesWhenMissing ==
  {"metadata_is_symlink", "metadata_writable", "parent_directory_writable"}

Withstands(v, defect) ==
  ~Has(v, defect) /\ (Found(v) \/ defect \in PassesWhenMissing)

PassedEveryTest(versions) ==
  \A d \in Defects : \E v \in versions : Withstands(v, d)

(***************************************************************************)
(* However deployments replace the metadata file between the system calls  *)
(* of the three passes of the identity report (pipeline.py:162), a VERIFIED*)
(* status, and the authority to persist, each rest on every test of SEC-30 *)
(* passed by some version met in that very pass; replacing one version     *)
(* that can be verified by another never costs them; a reason that is      *)
(* reported was true of a version met; and when only one version was met,  *)
(* the authority agrees with the status and comes with the metadata.       *)
(***************************************************************************)
IdentityFollowsTheFile ==
  \A c \in Command : HasIdentity(c) =>
    LET met == seen[c]
        verified == run[c].status = "VERIFIED"
    IN  /\ verified => ~run[c].asRoot /\ PassedEveryTest(met[1])
        /\ run[c].authorized => ~run[c].asRoot /\ PassedEveryTest(met[3])
        /\ (\A v \in met[1] : Undefective(v)) /\ ~run[c].asRoot => verified
        /\ (\A v \in met[2] : Undefective(v)) => run[c].metadata # "none"
        /\ (\A v \in met[3] : Undefective(v)) /\ ~run[c].asRoot => run[c].authorized
        /\ run[c].status \in Defects \ {"malformed_metadata"} =>
             \E v \in met[1] : Has(v, run[c].status)
        /\ Cardinality(met[1] \cup met[2] \cup met[3]) = 1 =>
             /\ run[c].authorized = verified
             /\ verified => run[c].metadata = (CHOOSE v \in met[2] : TRUE).build

\* Has the invocation opened its i-th artifact, and has it closed it again
\* after the last block?
Opened(c, i) ==
  \/ run[c].exit = "done"
  \/ run[c].at \in {"open_target", "failed_open_target"} /\ i < run[c].artifact
  \/ run[c].at \in {"write_target", "failed_write_target"} /\ i <= run[c].artifact

Completed(c, i) ==
  /\ Opened(c, i)
  /\ run[c].at \in {"write_target", "failed_write_target"} => i < run[c].artifact

(***************************************************************************)
(* An artifact that no invocation has opened is what it was.  Once all     *)
(* that opened it have completed it, and show the same in it, it is that   *)
(* text and nothing else, whatever it held before and however their writes *)
(* were interleaved (write_artifacts, artifacts.py:45): a failure damages  *)
(* the one artifact it happens in.                                         *)
(***************************************************************************)
ArtifactsAreTheReports ==
  \A i \in 1..Len(Artifacts) :
    LET a == Artifacts[i]
        writers == {c \in Command : Opened(c, i)}
    IN  IF writers = {} THEN files[a] = before[a]
        ELSE (/\ \A c \in writers : Completed(c, i)
              /\ \A c, d \in writers : Shown(a, Identity(c)) = Shown(a, Identity(d)))
             => \A c \in writers : files[a] = File(Rendered(a, Identity(c)))

\* One target that must not be written, a link or a directory, protects the
\* others too: no invocation begins before it has checked them all
\* (artifacts.py:42-46), so no old artifact is lost to a run that is refused.
RefusalLosesNothing ==
  (\E a \in Targets : before[a] = Special) => files = before

=============================================================================

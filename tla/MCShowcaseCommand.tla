--------------------------- MODULE MCShowcaseCommand ---------------------------
(* Two invocations.  Where the metadata file is deployed anew between their *)
(* system calls, the output directory refuses them, so that the two halves  *)
(* of the command are explored apart; where they write, they may or may not *)
(* have met the same version.                                               *)
EXTENDS ShowcaseCommand

CONSTANTS c1, c2

MCCommand == {c1, c2}

MCArtifacts == <<"showcase.json", "report.md", "graph.svg">>

Version(build, lookup, defects) ==
  [build |-> build, lookup |-> lookup, defects |-> defects]

Good(build) == Version(build, "found", {})

Bad(defects) == Version("b1", "found", defects)

Gone == Version("none", "missing", {})

Closed == Version("none", "denied", {})

Draft == Bad({"metadata_not_0444", "metadata_writable", "parent_directory_writable"})

MCDeployments ==
  {<<Bad({d})>> : d \in Defects}
  \cup {<<v>> : v \in {Good("b1"), Gone, Closed, Draft}}
  \cup {<<v, Good("b2")>> : v \in {Good("b1"), Gone, Draft}}
  \cup {<<Good("b1"), v>> : v \in {Closed, Gone, Bad({"dirty_source"})}}
  \cup {<<Good("b1"), Gone, Good("b2")>>,
        <<Bad({"metadata_is_symlink"}), Gone, Good("b2")>>,
        <<Bad({"malformed_metadata"}), Good("b1"), Draft>>}

Old(a) == File(<<[shows |-> a, k |-> 1], [shows |-> a, k |-> 2], [shows |-> a, k |-> 3],
                 [shows |-> a, k |-> 4]>>)

NoFiles == [a \in Targets |-> Absent]

OldFiles == [a \in Targets |-> Old(a)]

MCSituations ==
  [versions : MCDeployments, directory : {"file"}, files : {NoFiles}, asRoot : {FALSE}]
  \cup
  [versions : {<<Good("b1")>>, <<Gone>>}, directory : {"symlink"}, files : {NoFiles},
   asRoot : {TRUE}]
  \cup
  [versions : {<<Good("b1")>>, <<Gone, Good("b1")>>},
   directory : {"directory"}, asRoot : {FALSE},
   files : {OldFiles, [OldFiles EXCEPT !["graph.svg"] = Special],
            [NoFiles EXCEPT !["report.md"] = Old("report.md")]}]
  \cup
  [versions : {<<Gone>>}, directory : {"absent"}, files : {NoFiles}, asRoot : {FALSE}]

=============================================================================

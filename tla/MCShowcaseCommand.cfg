SPECIFICATION Spec
CONSTANTS
  c1 = c1
  c2 = c2
  Command <- MCCommand
  Artifacts <- MCArtifacts
  Blocks = 2
  Situations <- MCSituations
INVARIANTS
  IdentityFollowsTheFile
  ArtifactsAreTheReports
  RefusalLosesNothing
CHECK_DEADLOCK FALSE

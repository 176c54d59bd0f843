SPECIFICATION Spec
CONSTANTS
  reading = reading
  s1 = s1
  s2 = s2
  e1 = e1
  e2 = e2
  r1 = r1
  r2 = r2
  f1 = f1
  l1 = l1
  v1 = v1
  v2 = v2
  a1 = a1
  a2 = a2
  Session <- MCSession
  Calls <- MCCalls
  Bare = bare
  Situations <- MCSituations
INVARIANTS
  EvidenceIsKept
  DeletesAreNotRefused
  QuietBuildIsExact
  StableFactsAreProjected
  CounterfactualMatchesRemediation

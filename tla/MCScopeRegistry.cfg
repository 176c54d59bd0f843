SPECIFICATION FairSpec
CONSTANTS
  Scope = {c1, c2}
  Session = {s1, s2}
  Triggers = TRUE
  MaxInserts = 2
INVARIANTS
  AllocationIsCurrent
  VersionsAreContiguous
  IdentityMapIsCoherent
PROPERTIES
  ImplementsHistory
  CallsReturn

SPECIFICATION FairSpec
CONSTANTS
  Node <- MCNode
  RelId <- MCRelId
  RelType <- MCRelType
  Run = {x, y}
  Tables <- MCTables
  Fixture <- MCFixture
  Batches <- MCBatches
  Query <- MCQuery
  MaxCommits = 3
INVARIANTS
  TypeOK
  NonEmptyIsRefused
  ResultIsTheFixtures
  ListedRelationshipsAreClosed
  FixtureStaysPrivate
  QuietRunsReportTheFixture
PROPERTIES
  RunsEnd
CHECK_DEADLOCK FALSE

SPECIFICATION Spec
CONSTANTS
  Node <- MCNode
  RelId <- MCRelId
  RelType <- MCRelType
  Run = {x}
  Tables <- MCTables
  Fixture <- MCFixture
  Batches <- MCBatches
  Query <- MCQuery
  MaxCommits = 3
INVARIANTS
  NoForeignRowIsReported
CHECK_DEADLOCK FALSE

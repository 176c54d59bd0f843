SPECIFICATION FairSpec
CONSTANTS
  Node <- MCNode
  RelId <- MCRelId
  RelType <- MCRelType
  Stores <- MCStores
  Queries <- MCQueries
  MaxEdges = 5
INVARIANTS
  TypeOK
  Sound
  ExhaustedMeansAll
PROPERTIES
  ImplementsPromise
  Termination
CHECK_DEADLOCK FALSE

SPECIFICATION Spec
CONSTANTS
  Node <- MCNode
  RelId <- MCRelId
  RelType <- MCRelType
  Inputs <- MCInputs
  Stores <- MCStores
INVARIANTS
  ComparableMeansSameAnalysis
  ProvenanceIdentifiesAnalysis
CHECK_DEADLOCK FALSE

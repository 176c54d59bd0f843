SPECIFICATION AgingSpec
CONSTANTS
  Paths <- MCPaths
  Precision = 10
  Factors <- MCFactors
  Source <- MCSource
  Horizon = 4
INVARIANTS
  RowOrderKeepsConfidence
PROPERTIES
  AgingNeverRaisesRisk
CHECK_DEADLOCK FALSE

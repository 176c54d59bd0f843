SPECIFICATION AgingSpec
CONSTANTS
  Paths <- MCPaths
  Precision = 10
  Factors <- MCFactors
  Source <- MCSource
  Horizon = 4
PROPERTIES
  AgingNeverRaisesSourceAwareRisk
CHECK_DEADLOCK FALSE

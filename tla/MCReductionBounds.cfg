SPECIFICATION ReportSpec
CONSTANTS
  Node <- MCNode
  RelId <- MCRelId
  RelType <- MCRelType
  Graphs <- MCGraphs
  Calls <- MCCalls
  Analytical <- MCAnalytical
  PathRisk <- MCPathRisk
  Scale = 4
  MaxRisks = 6
  MaxEdges = 6
  TopK = 2
  Showcases <- MCShowcases
  BoundedMaxPaths = 2
INVARIANTS
  ReductionsAreLowerBounds
CHECK_DEADLOCK FALSE

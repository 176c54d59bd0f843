SPECIFICATION ReportSpec
CONSTANTS
  Node <- WideNode
  RelId <- WideRelId
  RelType <- MCRelType
  Graphs <- WideGraphs
  Calls <- WideCalls
  Analytical = {}
  PathRisk <- MCPathRisk
  Scale = 4
  MaxRisks = 6
  MaxEdges = 5
  TopK = 2
  Showcases <- WideCalls
  BoundedMaxPaths = 2
INVARIANTS
  BoxesStayOnTheCanvas
CHECK_DEADLOCK FALSE

SPECIFICATION ReportSpec
CONSTANTS
  Node <- MCNode
  RelId <- MCRelId
  RelType <- MCRelType
  Graphs <- MCGraphs
  Calls <- MCCalls
  Analytical <- MCAnalytical
  PathRisk <- MCPathRisk
  Scale = 4
  MaxRisks = 6
  MaxEdges = 5
  TopK = 2
  Showcases <- MCShowcases
  BoundedMaxPaths = 2
INVARIANTS
  FailClosedChecksNeverFire
  RemovalPartitionsBaseline
  RankableReductionIsSound
  RisksAreLowerBounds
  AuthoritativeIsComplete
  OverlapPredictsRemediation
  OnlySaturationIsInconsistent
  FeaturedIsTheBestCut
  BoundSensitivityIsHonest
  RelationshipsRunDown
  ItemsKeepApart
CHECK_DEADLOCK FALSE

CONSTANTS
  MinSegment = 1
  MaxForwardSearch = 2
  Lookahead = 2
  MaxLag = 1
  MaxSequence = 2
  Cells <- MCCells
  Outside <- MCOutside
  Obstacles <- MCObstacles
  Routes <- MCRoutes
SPECIFICATION CorridorSpec
INVARIANTS
  CorridorTypeOK
  ProgressStaysOnRoute
  ClearMeansClear
PROPERTIES
  ProgressIsNearestAhead

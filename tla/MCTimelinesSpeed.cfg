SPECIFICATION TimelineSpec
CONSTANTS
  Moments <- MCMoments
  Unit = 2
  TimelineSpeeds <- MCSpeeds
  Positions <- MCPositions
  Limit = 12
  MaxCalls = 3
PROPERTY AdvancesByGivenSpeed

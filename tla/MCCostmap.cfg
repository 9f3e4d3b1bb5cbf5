SPECIFICATION Spec

CONSTANTS
  SizeX = 7
  SizeY = 3
  LocalX = 6
  LocalY = 2
  Limit = 1
  Points <- MCPoints
  Clouds <- MCClouds
  Poses <- MCPoses
  NoPose = NoPose
  Occupied = 847
  Free <- MCFree
  Least <- MCLeast
  Most = 2944
  Threshold = 700
  Eps2 = 2
  MinSamples = 2

INVARIANTS
  TypeOK
  SeenIsShown
  MarkersAreTheBoxes
  RayIsStraight

PROPERTY ObstacleIsReported

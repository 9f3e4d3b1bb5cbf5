SPECIFICATION FairSpec

CONSTANTS
  Paths <- MCPaths
  NoPath = NoPath
  Places <- MCPlaces
  Unset = Unset
  PlanSpeeds <- MCPlanSpeeds
  TopSpeed = 3
  NoPlan = NoPlan
  Period = 2
  Accel = 1
  Decel = 1
  Slowdown = 1
  RobotRadius = 1
  LegEnds <- MCGrid
  Boxes <- MCBoxes

INVARIANTS
  TypeOK
  CollisionIsFound

PROPERTIES
  BrakesForTheEnd
  NewPathIsFollowed
  

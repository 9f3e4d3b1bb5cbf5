SPECIFICATION MCSpec

CONSTANTS
  Samples <- MCSamples
  Places = {p, q}
  Zero = Zero
  Yaws = {1, 2}
  InitialYaw = 0
  AlignmentTime = 1
  NoNav = NoNav
  NoOrigin = NoOrigin
  GnssGap = 1
  MaxOrders = 2

INVARIANTS
  TypeOK
  OriginsAgree
  NoSampleIsForgotten
  PairIsOfOneEpoch

PROPERTIES
  HeadingIsAsked
  SetYawMends

CHECK_DEADLOCK FALSE

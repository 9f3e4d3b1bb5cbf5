SPECIFICATION MCSpec

CONSTANTS
  MaxSpeed = 2
  MaxSteering = 2
  Speeds <- MCSpeeds
  Steerings <- MCSteerings
  EscGain <- MCEscGain
  SteerGain <- MCSteerGain
  UseDummyHardware = FALSE
  WireCap = 2
  NoFrame = NoFrame
  AccelScale = 1
  SteerScale = 1
  MaxSteer = 2
  LostSteer = 4
  AccelArrows <- MCArrows
  SteerArrows <- MCArrows
  Sticks <- MCSticks
  ButtonSets <- MCButtonSets
  AccelCap = 2
  NoMessage = NoMessage

INVARIANTS
  HardwareTypeOK
  DriveCommandFitsMode
  MotionComesFromItsSource
  PublishedSpeedMatchesWire
  LatchedModeIsCurrent
  GamepadTypeOK
  MotionOnlyInManual

PROPERTIES
  HandOverThroughStop
  ImplementsDriveAuthority
  OneStepForEachPress

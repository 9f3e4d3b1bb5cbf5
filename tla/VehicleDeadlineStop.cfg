SPECIFICATION Spec

CONSTANTS
  MaxSpeed = 1
  MaxSteering = 0
  Speeds = {0, 1}
  Steerings = {0}
  EscGain <- MCEscGain
  SteerGain <- MCSteerGain
  UseDummyHardware = FALSE
  WireCap = 1
  NoFrame = NoFrame
  AccelScale = 1
  SteerScale = 1
  MaxSteer = 0
  LostSteer = 4
  AccelArrows = {0, 1}
  SteerArrows = {0}
  Sticks = {0}
  ButtonSets <- MCButtonSets
  AccelCap = 1
  NoMessage = NoMessage
  PlannerSpeeds = {1}
  Losses = FALSE
  Misread <- MCMisread
  Crashes = FALSE
  Unplugs = FALSE

PROPERTY ResumeNeedsGcsStart

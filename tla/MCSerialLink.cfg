SPECIFICATION FairLinkSpec

CONSTANTS
  Frames <- MCFrames
  NewlineMapped = TRUE
  LineCap = 20
  MaxLosses = 2
  NoneSent = NoneSent

INVARIANT LinkTypeOK

PROPERTIES
  ImplementsFrameLine
  LatestIsApplied

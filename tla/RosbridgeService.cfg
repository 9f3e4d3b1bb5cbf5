SPECIFICATION FairSpec

CONSTANTS
  Channels = {c1, c2, c3}
  NoChannel = NoChannel

INVARIANTS
  TypeOK
  OneChannel

PROPERTY ComesBack

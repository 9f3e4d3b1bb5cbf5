SPECIFICATION FairSpec

CONSTANTS
  Programs = {p1, p2}
  Pids = {i1, i2, i3}
  NoPid = NoPid
  NoProgram = NoProgram

INVARIANTS
  TypeOK
  PidIsItsProgram
  EveryChildIsKept

PROPERTY PersistentStopStops

SPECIFICATION FairSpec
CONSTANTS
  Procs = {p1, p2, p3}
  Inodes = {i1, i2, i3}
  NoFile = NoFile
  Calls <- Retrying
  MayInterrupt = FALSE
  MayDie = FALSE
  AtomicConversion = TRUE
PROPERTY SomebodyGetsIt

SPECIFICATION Spec
CONSTANTS
  Procs = {p1, p2, p3}
  Inodes = {i1, i2, i3}
  NoFile = NoFile
  Calls <- Every
  MayInterrupt = TRUE
  MayDie = TRUE
  AtomicConversion = TRUE
SYMMETRY Symmetric
INVARIANTS Exclusion LockInv CleanedUp

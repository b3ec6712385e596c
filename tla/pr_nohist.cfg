SPECIFICATION Spec
CONSTANTS
  Clients = {c1, c2}
  Pkgs = {p}
  Sums = {s1, s2}
  Imports = {2}
  Controls = {"dump"}
  NoHist = TRUE
  CommitFirst = FALSE
  MayGiveUp = TRUE
  MaxSignals = 1
  MaxCrash = 1
  MaxRequests = 3
INVARIANTS UnlessKilled LosesOneAnswer PRInv
SYMMETRY Symmetric
CHECK_DEADLOCK FALSE

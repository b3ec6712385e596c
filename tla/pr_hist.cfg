SPECIFICATION FairSpec
CONSTANTS
  Clients = {c1, c2}
  Pkgs = {p}
  Sums = {s1, s2}
  Imports = {}
  Controls = {"quit"}
  NoHist = FALSE
  CommitFirst = TRUE
  MayGiveUp = FALSE
  MaxSignals = 1
  MaxCrash = 0
  MaxRequests = 4
INVARIANT Historical
PROPERTY Answered

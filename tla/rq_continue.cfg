SPECIFICATION Spec
CONSTANTS
  a = a
  b = b
  c = c
  d = d
  r = r
  s = s
  StampPolicyFns = {}
  NoExec = {a}
  NoStamp = {c}
  Fakeroot = {}
  NumberTasks = 2
  Abort = FALSE
  DiskAction = "ABORT"
  CanStop = FALSE
  SpawnMayFail = FALSE
  MaxCrash = 0
  Tasks <- T4
  Graphs <- Few4
  CoveredSets <- OneSkip
  StampInits <- StampsButC
  StampOf <- Shared4
  FnOf <- Fn4
  CanFail <- T4
INVARIANTS StampSkipSound VerdictSound StampExclusive ContinueAsFarAsPossible NeverStuck
PROPERTY CompleteIsFinal

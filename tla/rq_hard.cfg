SPECIFICATION FairSpec
CONSTANTS
  a = a
  b = b
  c = c
  d = d
  r = r
  s = s
  StampPolicyFns = {}
  NoExec = {}
  NoStamp = {}
  Fakeroot = {b}
  NumberTasks = 2
  Abort = TRUE
  DiskAction = "STOPTASKS"
  CanStop = TRUE
  SpawnMayFail = TRUE
  MaxCrash = 1
  Tasks <- T3
  Graphs <- Some3
  CoveredSets <- NoSkips
  StampInits <- NoStamps3
  StampOf <- OwnStamp3
  FnOf <- Fn3
  CanFail <- T3
INVARIANTS DepsSettled QueueInv LateLaunch FailureReported Quiescent
PROPERTIES ImplementsSchedule Termination

SPECIFICATION FairSpec
CONSTANTS
  e = e
  y = y
  p = p
  i = i
  c = c
  m = m
  x = x
  NoExec = {i}
  Enforced = {p}
  Forced = TRUE
  OnlyModes = {TRUE, FALSE}
  NumberTasks = 2
  CanStop = TRUE
  MaxCrash = 1
  Tasks <- T7
  Setscene <- S3
  Graphs <- MCGraphs
  HardDeps <- MCHard
  Targets <- MCTargets
  Uses <- MCUses
  Found <- MCFound
  Built <- MCBuilt
  Available <- MCAvail
  HashModes = {TRUE, FALSE}
  Configures <- MCConf
  StampOf <- MCStamp
INVARIANTS GraphSound NoHole TakenBackWhole HardDepsThere StopHonoured
PROPERTY SceneEnds

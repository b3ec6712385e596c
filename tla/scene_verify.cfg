SPECIFICATION Spec
CONSTANTS
  e = e
  y = y
  p = p
  i = i
  c = c
  m = m
  x = x
  NoExec = {i}
  Enforced = {}
  Forced = FALSE
  OnlyModes = {FALSE}
  NumberTasks = 2
  CanStop = FALSE
  MaxCrash = 0
  Tasks <- T7
  Setscene <- S3
  Graphs <- MCGraphs
  HardDeps <- MCHard
  Targets <- MCTargets
  Uses <- MCUses
  Found <- MCFound
  Built <- MCBuilt
  Available <- MCAvail
  HashModes = {TRUE, FALSE}
  Configures <- MCConf
  StampOf <- MCStamp
INVARIANT NoHoleVerified

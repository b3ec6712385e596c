SPECIFICATION FairSpec
CONSTANTS
  Files = {f1, f2}
  Threads = 2
  MaxTime = 2
  Ticks = 2
  InOrder = FALSE
  Stays = FALSE
  Broken <- FirstEdit
  None = None
INVARIANTS CacheComplete EntriesSound NoProcessLeft
PROPERTIES Fresh StopHonoured Answered PoolEnds

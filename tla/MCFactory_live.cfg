CONSTANTS
  k1 = k1  k2 = k2  manager = manager  main = main
  alarm = alarm  sigterm = sigterm  nobody = nobody
  Makers <- MCOneMaker
  Manager = manager
  Main = main
  Alarm = alarm
  Shutdowns <- MCShutdowns
  Threads <- MCThreeThreads
  Handlers <- MCHandlers
  Mutexes <- MCMutexes
  Conds <- MCConds
  SignalThreads <- MCMainOnly
  SpuriousWakeups = FALSE
  Nobody = nobody
  STORAGE_MAX_COUNT = 1
  INITIAL_WACHS = 3
  INITIAL_DOCHT = 1
  WachsAmounts <- MCWachsAmounts
  DochtAmounts <- MCDochtAmounts
  WACHS_BOUND = 0
  DOCHT_BOUND = 0
SPECIFICATION FairSpec

CHECK_DEADLOCK FALSE
PROPERTIES ShutdownEnds SleepingManagerIsCalled

CONSTANTS
  k1 = k1  k2 = k2  manager = manager  main = main
  alarm = alarm  sigterm = sigterm  nobody = nobody
  Makers <- MCMakers
  Manager = manager
  Main = main
  Alarm = alarm
  Shutdowns <- MCShutdowns
  Threads <- MCThreads
  Handlers <- MCHandlers
  Mutexes <- MCMutexes
  Conds <- MCConds
  SignalThreads <- MCMainOnly
  SpuriousWakeups = TRUE
  Nobody = nobody
  STORAGE_MAX_COUNT = 1
  INITIAL_WACHS = 5
  INITIAL_DOCHT = 2
  WachsAmounts <- MCWachsAmounts
  DochtAmounts <- MCDochtAmounts
  WACHS_BOUND = 2
  DOCHT_BOUND = 0
SPECIFICATION Spec
CHECK_DEADLOCK FALSE
INVARIANTS TypeOK StoreBound Conservation OnlyHandlersDeadlock

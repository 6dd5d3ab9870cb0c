CONSTANTS
  b1 = b1  b2 = b2  supplier = supplier  main = main
  alarm = alarm  sigterm = sigterm  nobody = nobody
  Bakers <- MCBakers
  Supplier = supplier
  Main = main
  Alarm = alarm
  Shutdowns <- MCShutdowns
  Threads <- MCThreads
  Handlers <- MCHandlers
  Mutexes <- MCMutexes
  Conds <- MCConds
  SignalThreads <- MCSomeThreads
  SpuriousWakeups = TRUE
  Nobody = nobody
  STORAGE_MAX_COUNT = 2
  STORAGE_SUPPLIER_COUNT = 1
  QUALITY_COUNT = 1
  UninitResetHand <- MCAnyFlags
SPECIFICATION Spec
CHECK_DEADLOCK FALSE
INVARIANTS TypeOK StorageBound OnlyHandlersDeadlock

CONSTANTS
  s1 = s1  s2 = s2  logger = logger  main = main  nobody = nobody
  NULL = NULL
  Sensors <- MCSensors
  Logger = logger
  Main = main
  Threads <- MCThreads
  Handlers <- MCNone
  Mutexes <- MCMutexes
  Conds <- MCConds
  SignalThreads <- MCNone
  SpuriousWakeups = TRUE
  Nobody = nobody
  SIZE = 3
  ITERATIONS = 5
  SPURIOUS = 2
SPECIFICATION FairSpec
CHECK_DEADLOCK FALSE
INVARIANTS TypeOK NoReadingLost SleepersHaveNoRoom
PROPERTY LoggerEnds

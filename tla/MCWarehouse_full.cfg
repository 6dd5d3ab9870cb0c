CONSTANTS
  b1 = b1  b2 = b2
  deliverer = deliverer  signaler = signaler
  mutex = mutex  mutex2 = mutex2  condition = condition
  Nobody = Nobody
  Bakers <- MCBakers
  Threads <- MCThreads
  Handlers = {}
  Mutexes = {mutex, mutex2}
  Conds = {condition}
  SignalThreads = {}
  SpuriousWakeups = TRUE
  MAX_SIZE_LAGER = 3
  TRIGGER = 1
SPECIFICATION FairSpec
INVARIANTS StoreBound
PROPERTIES DeliveryComes BakersGoOn

CONSTANTS
  z1 = z1  z2 = z2  z3 = z3
  Trains <- MCTrains
  SignalTrains <- MCTrains
  STRECKE_COUNT = 2
  EXIT_COUNT = 3
  SIGNALS = 2
  COUNT_BOUND = 6
SPECIFICATION FairSpec
CHECK_DEADLOCK FALSE
INVARIANTS TypeOK UnitsKept
PROPERTIES TrackSpec TrainsEnd

CONSTANTS
  w1 = w1  w2 = w2  w3 = w3
  Processes <- MCProcesses
  Workers <- MCWorkers
  Additions = 3
  LEFTOVER = 1
  AGAIN = 1
SPECIFICATION FairSpec
CHECK_DEADLOCK FALSE
INVARIANTS Exact LostUpdates OneInside
PROPERTIES AllEnd

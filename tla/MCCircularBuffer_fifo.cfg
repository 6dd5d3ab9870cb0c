CONSTANTS
  e1 = e1  e2 = e2
  NULL = NULL
  Elements <- MCElements
  Sizes <- MCSizes
  INT_MAX = 6
SPECIFICATION CbSpec
INVARIANTS CbTypeOK
PROPERTY Fifo

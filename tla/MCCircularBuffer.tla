-------------------------- MODULE MCCircularBuffer --------------------------
(* CircularBuffer.tla with small constants for TLC. *)
EXTENDS CircularBuffer

CONSTANTS e1, e2

MCElements == {e1, e2}
\* 0 and -1 are refused; 4 is the largest size for which the sums fit in 0 .. 6.
MCSizes == -1 .. 4

=============================================================================

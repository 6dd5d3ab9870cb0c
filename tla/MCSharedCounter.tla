-------------------------- MODULE MCSharedCounter --------------------------
(* SharedCounter.tla with small constants for TLC. *)
EXTENDS SharedCounter

CONSTANTS w1, w2, w3

MCWorkers == {w1, w2}
MCProcesses == {w1, w2, w3}

=============================================================================

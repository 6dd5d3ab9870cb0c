--------------------------- MODULE MCSensorBuffer ---------------------------
(* SensorBuffer.tla with small constants for TLC. *)
EXTENDS SensorBuffer, TLC

CONSTANTS s1, s2, logger, main, nobody

MCSensors == {s1, s2}
MCThreads == MCSensors \cup {logger, main}
MCNone == {}
MCMutexes == {"mutex"}
MCConds == {"producer"}
MCSymmetry == Permutations(MCSensors)

=============================================================================

------------------------------ MODULE MCTrains ------------------------------
(* Trains.tla with small constants for TLC. *)
EXTENDS Trains, TLC

CONSTANTS z1, z2, z3

MCTrains == {z1, z2, z3}
MCSymmetry == Permutations(MCTrains)

=============================================================================

------------------------------ MODULE MCBanking ------------------------------
(* Banking.tla with small constants for TLC. *)
EXTENDS Banking

CONSTANTS k1, k2, k3, k4

MCKids == {k1, k2, k3, k4}

\* With a credit of 2 one booking can bring an account below zero and one credit
\* back above.
MCActions == {-1, 1}

=============================================================================

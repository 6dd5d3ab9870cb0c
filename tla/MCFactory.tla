------------------------------ MODULE MCFactory -----------------------------
(* Factory.tla with small constants for TLC. *)
EXTENDS Factory

CONSTANTS k1, k2, manager, main, alarm, sigterm, nobody

MCMakers == {k1, k2}
MCOneMaker == {k1}
MCThreads == MCMakers \cup {manager, main}
MCThreeThreads == MCOneMaker \cup {manager, main}
MCShutdowns == {sigterm}
MCHandlers == {alarm} \cup MCShutdowns
MCMutexes == {"storage", "supplier", "lager"}
MCConds == {"supplier", "lager"}
MCMainOnly == {main}

\* The wax and wicks of the beginning are enough for one candle; a purchase may bring
\* what is missing for another one, or nothing.
MCWachsAmounts == {0, 2}
MCDochtAmounts == {0, 1}

=============================================================================

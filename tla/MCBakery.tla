------------------------------ MODULE MCBakery ------------------------------
(* Bakery.tla with small constants for TLC. *)
EXTENDS Bakery

CONSTANTS b1, b2, supplier, main, alarm, sigterm, nobody

MCBakers == {b1, b2}
MCOneBaker == {b1}
MCThreads == MCBakers \cup {supplier, main}
MCThreeThreads == MCOneBaker \cup {supplier, main}
MCShutdowns == {sigterm}
MCHandlers == {alarm} \cup MCShutdowns
MCMutexes == {"storage", "supplier", "baking"}
MCConds == {"supplier", "baking"}

\* Linux prefers the main thread; POSIX allows any thread, here one that also
\* takes all three mutexes.
MCSomeThreads == {b1, main}

MCAnyFlags == BOOLEAN

=============================================================================

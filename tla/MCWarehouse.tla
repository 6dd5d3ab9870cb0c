---------------------------- MODULE MCWarehouse ----------------------------
(* Warehouse.tla with small constants for TLC. *)
EXTENDS Warehouse

CONSTANTS b1, b2

MCBakers == {b1, b2}
MCThreads == MCBakers \cup {deliverer, signaler}

=============================================================================

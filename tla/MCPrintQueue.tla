---------------------------- MODULE MCPrintQueue ----------------------------
(* PrintQueue.tla with small constants for TLC. *)
EXTENDS PrintQueue

CONSTANTS c1, c2, c3

MCClients == {c1, c2, c3}
MCPrios == {0, 1}

=============================================================================

---------------------------- MODULE TrackSection ----------------------------
(***************************************************************************)
(* What a rail section is to promise: never more trains in it than it has  *)
(* tracks.  The program Zuege/main.c is shown to implement it.             *)
(***************************************************************************)
EXTENDS Naturals, FiniteSets

CONSTANTS
  Trains,
  Tracks    \* how many trains the section has room for

VARIABLE inside   \* the trains in the section

Init == inside = {}

Enter(t) ==
  /\ t \notin inside
  /\ Cardinality(inside) < Tracks
  /\ inside' = inside \cup {t}

Leave(t) ==
  /\ t \in inside
  /\ inside' = inside \ {t}

Next == \E t \in Trains : Enter(t) \/ Leave(t)

Spec == Init /\ [][Next]_inside

=============================================================================

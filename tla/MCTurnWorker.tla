--------------------------- MODULE MCTurnWorker ---------------------------
(* TurnWorker for TLC: the sets of the instances its configurations name. *)
EXTENDS TurnWorker

CONSTANTS c1, c2, c3

ThreeClients == {c1, c2, c3}
TwoClients   == {c1, c2}
OneClient    == {c1}
LastClient   == {c3}
NoClient     == {}
============================================================================

-------------------------- MODULE MCControlPlane ---------------------------
(* ControlPlane for TLC: the sets of the instances its configurations name. *)
EXTENDS ControlPlane, TLC

CONSTANTS h1, h2, a1

TwoHolders == {h1, h2}
OneAgent   == {a1}
Divided    == (h1 :> {"attach", "kill"}) @@ (h2 :> {"attach", "detach", "list", "events"})
============================================================================

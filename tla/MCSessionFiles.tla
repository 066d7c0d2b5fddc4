--------------------------- MODULE MCSessionFiles ---------------------------
(* SessionFiles for TLC: the sets of its configuration.                    *)
EXTENDS SessionFiles

CONSTANTS d1, d2, c1, c2

TwoDaemons == {d1, d2}
TwoDowns   == {c1, c2}
OneCrashes == {d1}
=============================================================================

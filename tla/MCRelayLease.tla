--------------------------- MODULE MCRelayLease ---------------------------
(* RelayLease for TLC: the sets of the instances its configurations name. *)
EXTENDS RelayLease, TLC

CONSTANTS c1, c2, p1, p2, i1, i2, k1

BothClients == {c1, c2}
OneClient   == {c1}
TwoPrompts  == {p1, p2}
OnePrompt   == {p1}
TwoIds      == {i1, i2}
OneId       == {i1}
OneCall     == {k1}
NoCalls     == {}
NoClient    == {}
OnlyStops   == {"stop"}
StopsAndErrors == {"stop", "error"}

\* Prompts and ids are interchangeable, and clients none of which may hang up.
Symmetry == Permutations(TwoPrompts) \cup Permutations(TwoIds) \cup Permutations(BothClients)
============================================================================

------------------------- MODULE MCChannelsFacade -------------------------
(* ChannelsFacade for TLC: its instances. *)
EXTENDS ChannelsFacade

CONSTANTS s1, s2, p1, p2, a1

TwoSessions  == {s1, s2}
TwoPrompts   == {p1, p2}
OneAsk       == {a1}
NoAsk        == {}
============================================================================

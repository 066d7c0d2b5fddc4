--------------------------- MODULE MCChannelHost ----------------------------
(* ChannelHost for TLC: the sets of its configuration.                     *)
EXTENDS ChannelHost

CONSTANTS s1, s2, p1, p2

TwoServers == {s1, s2}
TwoPrompts == {p1, p2}
=============================================================================

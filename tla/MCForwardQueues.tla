-------------------------- MODULE MCForwardQueues --------------------------
(* ForwardQueues for TLC: the sets of the instances its configurations name. *)
EXTENDS ForwardQueues

CONSTANTS s1, s2, i1, p1, p2

OldClient   == {1}
NoClient    == {}
TwoSessions == {s1, s2}
OneSession  == {s1}
NoPrompt    == {}
TwoPrompts  == {p1, p2}
OneId       == {i1}
SameId      == [p \in Prompts |-> i1]
ASessionEach == [p \in Prompts |-> IF p = p1 THEN s2 ELSE s1]
OnlyStops   == {"stop"}

\* All frames weigh one; or those of s2 two, so that its lane outgrows the
\* hard bound before it reaches the soft one.
AllLight    == [k \in Keys |-> 1]
HeavySecond == [k \in Keys |-> IF k = s2 THEN 2 ELSE 1]

\* Three frames for each session, replies among them, and none or one for no
\* session: the second of two replies with the same id may be that one.
ThreeEach   == [k \in Keys |-> IF k = Shared THEN 0 ELSE 3]
ThreeAndOne == [k \in Keys |-> IF k = Shared THEN 1 ELSE 3]
============================================================================

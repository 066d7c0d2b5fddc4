--------------------------- MODULE SessionLanes ---------------------------
(***************************************************************************)
(* What the relay promises about the frames an agent sends to its clients  *)
(* (docs/acp-transport-spec.md, 3 and 6.3): the frames of a session wait   *)
(* in a lane of their own and are handed on in the order they were sent,   *)
(* each to one client; a lane that outgrows its bound is cut, and after a  *)
(* cut no client receives anything, so that no stream continues with a     *)
(* hole in it.  One thing it does not promise: the reply to a prompt that  *)
(* was open together with another of the same id may go astray, into the   *)
(* lane of another session.                                                *)
(***************************************************************************)
EXTENDS Naturals, Sequences, FiniteSets

CONSTANTS Sessions, Clients, Prompts,
          FrameBound      \* frames that join each lane at most

VARIABLES crossed,        \* prompts that were open together with another of their id
          astray,         \* prompts whose reply joined another session's lane
          sent,           \* how many frames have joined each lane
          waiting,        \* the lane of each session
          handed,         \* what each client is given, in order
          cut             \* a lane was cut

laneVars == <<crossed, astray, sent, waiting, handed, cut>>

Frame == UNION {[sid : {s}, n : 1..FrameBound[s]] : s \in Sessions}

LanesInit ==
    /\ crossed = {}
    /\ astray = {}
    /\ sent = [s \in Sessions |-> 0]
    /\ waiting = [s \in Sessions |-> <<>>]
    /\ handed = [c \in Clients |-> <<>>]
    /\ cut = FALSE

\* Prompts come to share their id, for good.
Cross ==
    /\ crossed' \in SUBSET Prompts /\ crossed \subseteq crossed'
    /\ UNCHANGED <<astray, sent, waiting, handed, cut>>

\* A frame joins lane s: of the session s, or a reply that may stray.
Sends(s) ==
    /\ sent[s] < FrameBound[s]
    /\ sent' = [sent EXCEPT ![s] = @ + 1]
    /\ astray' = astray \/ \E p \in crossed : astray' = astray \cup {p}
    /\ UNCHANGED crossed

Queue(s) ==
    /\ Sends(s)
    /\ waiting' = [waiting EXCEPT ![s] = Append(@, [sid |-> s, n |-> sent[s] + 1])]
    /\ UNCHANGED <<handed, cut>>

\* The frame that does not fit goes with the rest of the lane.
Cut(s) ==
    /\ Sends(s)
    /\ waiting' = [waiting EXCEPT ![s] = <<>>]
    /\ cut' = TRUE
    /\ UNCHANGED handed

Hand(s, c) ==
    /\ ~cut
    /\ waiting[s] # <<>>
    /\ handed' = [handed EXCEPT ![c] = Append(@, Head(waiting[s]))]
    /\ waiting' = [waiting EXCEPT ![s] = Tail(@)]
    /\ UNCHANGED <<crossed, astray, sent, cut>>

LanesNext == \/ Cross
             \/ \E s \in Sessions : \/ Queue(s) \/ Cut(s)
                                    \/ \E c \in Clients : Hand(s, c)

LanesSpec == LanesInit /\ [][LanesNext]_laneVars
============================================================================

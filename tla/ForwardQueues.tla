--------------------------- MODULE ForwardQueues ---------------------------
(***************************************************************************)
(* The forward path of the relay (src/src/relay.rs): the demultiplexer     *)
(* pushes the agent's frames onto one queue per session and enforces the   *)
(* soft and the hard bound; the forwarder of each lease drains the queues  *)
(* round-robin, under the same mutex, and writes what it took to its       *)
(* client.  Who is granted the lease, and when, is RelayLease's business:  *)
(* here a lease may change hands at any time.                              *)
(*                                                                         *)
(* A frame is the lane it was put in and its number there; all frames of a *)
(* lane have the same size.  Most frames name their session; the reply to  *)
(* a prompt does not, and is routed by the turn of its id.  Nothing keeps  *)
(* two clients from prompting with the same id, one after the other, while *)
(* the first prompt is open: then the replies may join the wrong lane.     *)
(* What neither names a session nor replies to a prompt has a lane of its  *)
(* own.  A drain is one critical section, but a step per visit to a        *)
(* session.                                                                *)
(***************************************************************************)
EXTENDS Naturals, Sequences, FiniteSets, SequencesExt

CONSTANTS
    Sessions,
    Shared,       \* the key of the frames that belong to no session, "-"
    Prompts,      \* that clients send, each at most once
    Ids,          \* of the prompts; two prompts may have the same
    IdOf,
    SessionOf,    \* the session a prompt names
    ReplyKinds,   \* how this agent replies to a prompt: with "stop", "error"
    LeaseBound,   \* leases granted at most
    SoftBound,    \* SOFT_BOUND_FRAMES
    HardBound,    \* HARD_BOUND_BYTES
    BatchMax,     \* frames a drain takes at most (64 in the code)
    FrameBound,   \* frames that join each lane at most
    TotalBound,   \* frames the agent sends at most
    Size,         \* of a frame, per lane
    Crashing,     \* clients that may go away
    Mortal,       \* TRUE if the agent may die
    None

ASSUME BoundsAssumption == /\ SoftBound \in Nat \ {0}
                           /\ HardBound \in Nat \ {0}
                           /\ BatchMax \in Nat \ {0}
                           /\ FrameBound \in [Sessions \cup {Shared} -> Nat]
                           /\ TotalBound \in Nat
                           /\ LeaseBound \in Nat
                           /\ None \notin 1..LeaseBound
ASSUME SizeAssumption == Size \in [Sessions \cup {Shared} -> Nat \ {0}]
ASSUME ReplyAssumption == ReplyKinds \subseteq {"stop", "error"}
ASSUME SessionAssumption == IsFiniteSet(Sessions)
ASSUME PromptAssumption == IdOf \in [Prompts -> Ids] /\ SessionOf \in [Prompts -> Sessions]
ASSUME SharedAssumption == Shared \notin Sessions /\ None \notin Sessions \cup {Shared}

\* The keys of the queues.
Keys == Sessions \cup {Shared}

\* A lease's client, by the order in which the leases are granted.
Clients == 1..LeaseBound

VARIABLES
    \* RelayState
    queue,        \* frames of each session's SessionQueue
    openTurns,    \* open_turns: the session of each id
    pressured,    \* SessionQueue.pressured
    order,        \* drain_order
    torn,
    agentDead,
    mutex,        \* the forwarder that holds the lock; the others never keep it
    \* drain_round_robin
    lapLeft,      \* visits left in this lap
    lapPops,      \* popped_this_lap
    \* the leases and their forwarders
    lease,
    stopped,
    forwarder,    \* where each forwarder is
    batch,        \* what it has popped and not yet written
    \* the environment
    turn,         \* where each prompt is
    crossed,      \* prompts that were open while another was under the same id
    astray,       \* prompts whose reply joined a lane that is not their session's
    sent,         \* frames the agent has sent to each lane
    alive,        \* the client is there
    got,          \* what each client has received
    reported      \* frames that a telemetry sample said were dropped

turnVars  == <<openTurns, turn, crossed, astray>>
stateVars == <<queue, pressured, order, torn, agentDead>>
drainVars == <<mutex, lapLeft, lapPops>>
leaseVars == <<lease, stopped>>
taskVars  == <<forwarder, batch>>
worldVars == <<sent, alive, got, reported>>
vars == <<turnVars, stateVars, drainVars, leaseVars, taskVars, worldVars>>

Frame == UNION {[sid : {s}, n : 1..FrameBound[s]] : s \in Keys}

Init ==
    /\ queue = [s \in Keys |-> <<>>]
    /\ openTurns = [i \in Ids |-> None]
    /\ turn = [p \in Prompts |-> "unsent"]
    /\ crossed = {}
    /\ astray = {}
    /\ pressured = [s \in Keys |-> FALSE]
    /\ order = <<>>
    /\ torn = FALSE
    /\ agentDead = FALSE
    /\ mutex = None
    /\ lapLeft = 0
    /\ lapPops = 0
    /\ lease = None
    /\ stopped = [c \in Clients |-> FALSE]
    /\ forwarder = [c \in Clients |-> "off"]
    /\ batch = [c \in Clients |-> <<>>]
    /\ sent = [s \in Keys |-> 0]
    /\ alive = [c \in Clients |-> TRUE]
    /\ got = [c \in Clients |-> <<>>]
    /\ reported = {}

-----------------------------------------------------------------------------
(* agent_to_queues: push first, then look at the bounds.                   *)

\* Fault: the newest frame is put first.
PushesFront(q, f) == <<f>> \o q

Push(q, f) == Append(q, f)

\* SessionQueue.bytes, against the hard bound.
Fits(s, q) == Len(q) * Size[s] <= HardBound

\* Fault: a lane over the hard bound is dropped and the lease lives on.
DropsOnly(s, q) == torn

Torn(s, q) == torn \/ ~Fits(s, q)

\* There is room for a frame more than the replies that are due (a bound).
Room == MapThenSumSet(LAMBDA k : sent[k], Keys)
            + Cardinality({p \in Prompts : turn[p] = "open"}) < TotalBound

\* The agent's next frame joins the queue of key k.
Route(k) ==
    LET q == Push(queue[k], [sid |-> k, n |-> sent[k] + 1])
    IN /\ ~agentDead
       /\ mutex = None
       /\ sent[k] < FrameBound[k]
       /\ sent' = [sent EXCEPT ![k] = @ + 1]
       /\ queue' = [queue EXCEPT ![k] = IF Fits(k, q) THEN q ELSE <<>>]
       /\ pressured' = [pressured EXCEPT ![k] = @ \/ Len(q) >= SoftBound]
       /\ torn' = Torn(k, q)
       /\ reported' = IF Fits(k, q) THEN reported ELSE reported \cup ToSet(q)
       /\ UNCHANGED <<order, agentDead, drainVars, leaseVars, taskVars, alive, got>>

\* A frame that names its session, or that belongs to none.
DemuxFrame(s) == Room /\ Route(s) /\ UNCHANGED turnVars

\* Fault: what names no session goes where what belongs to none goes.
NamesNone(i) == Shared

\* The key of a reply is looked up before its turn is closed.
KeyOf(i) == IF openTurns[i] = None THEN Shared ELSE openTurns[i]

\* The reply to a prompt: a result with a stopReason removes the entry of its
\* id, whichever prompt it is of; an error removes nothing.
DemuxReply(p, kind) ==
    /\ turn[p] = "open"
    /\ Route(KeyOf(IdOf[p]))
    /\ astray' = IF KeyOf(IdOf[p]) = SessionOf[p] THEN astray ELSE astray \cup {p}
    /\ openTurns' = IF kind = "stop" THEN [openTurns EXCEPT ![IdOf[p]] = None] ELSE openTurns
    /\ turn' = [turn EXCEPT ![p] = "closed"]
    /\ UNCHANGED crossed

\* stdout is closed; relay_main sets agent_dead and ends.
AgentDies ==
    /\ Mortal
    /\ ~agentDead
    /\ mutex = None
    /\ agentDead' = TRUE
    /\ UNCHANGED <<turnVars, queue, pressured, order, torn, drainVars, leaseVars,
                   taskVars, worldVars>>

-----------------------------------------------------------------------------
(* client_to_agent: a prompt is registered before the agent sees it.       *)

\* The other open prompts with the same id.
Twins(p) == {q \in Prompts \ {p} : turn[q] = "open" /\ IdOf[q] = IdOf[p]}

\* The entry of the id is replaced, whether or not its turn is still open.
\* Bounded to prompts whose reply may still be sent.
Prompt(p) ==
    /\ \E c \in Clients : forwarder[c] # "off"
    /\ ~agentDead /\ ~torn
    /\ mutex = None
    /\ turn[p] = "unsent"
    /\ Room
    /\ sent[SessionOf[p]] < FrameBound[SessionOf[p]]
    /\ turn' = [turn EXCEPT ![p] = "open"]
    /\ openTurns' = [openTurns EXCEPT ![IdOf[p]] = SessionOf[p]]
    /\ crossed' = IF Twins(p) = {} THEN crossed ELSE crossed \cup {p} \cup Twins(p)
    /\ UNCHANGED <<astray, stateVars, drainVars, leaseVars, taskVars, sent, alive, got, reported>>

-----------------------------------------------------------------------------
(* do_attach and do_detach, as far as the forwarders are concerned.        *)

StopsHolder == IF lease = None THEN stopped ELSE [stopped EXCEPT ![lease] = TRUE]

Attach(c) ==
    /\ ~agentDead
    /\ forwarder[c] = "off"
    /\ \A d \in 1..(c - 1) : forwarder[d] # "off"
    /\ stopped' = StopsHolder
    /\ lease' = c
    /\ forwarder' = [forwarder EXCEPT ![c] = "top"]
    /\ UNCHANGED <<turnVars, stateVars, drainVars, batch, worldVars>>

Detach ==
    /\ ~agentDead
    /\ lease # None
    /\ stopped' = StopsHolder
    /\ lease' = None
    /\ UNCHANGED <<turnVars, stateVars, drainVars, taskVars, worldVars>>

\* The client goes away; its forwarder learns of it from a write only.
HangUp(c) ==
    /\ c \in Crashing
    /\ alive[c]
    /\ forwarder[c] = "write"
    /\ alive' = [alive EXCEPT ![c] = FALSE]
    /\ UNCHANGED <<turnVars, stateVars, drainVars, leaseVars, taskVars, sent, got, reported>>

-----------------------------------------------------------------------------
(* queues_to_client and drain_round_robin.                                 *)

\* try_recv on the stop switch, before the lock.
Top(c) ==
    /\ forwarder[c] = "top"
    /\ forwarder' = [forwarder EXCEPT ![c] = IF stopped[c] THEN "done" ELSE "lock"]
    /\ UNCHANGED <<turnVars, stateVars, drainVars, leaseVars, batch, worldVars>>

\* Fault: the forwarder does not look at the torn flag.
TearUnseen == FALSE

TearSeen == torn

\* Under the lock: a torn lease ends here.
LeaveTorn(c) ==
    /\ forwarder[c] = "lock"
    /\ mutex = None
    /\ TearSeen
    /\ forwarder' = [forwarder EXCEPT ![c] = "done"]
    /\ UNCHANGED <<turnVars, stateVars, drainVars, leaseVars, batch, worldVars>>

\* Keys that have a queue: a frame waits there, or a drain has seen one.
Known == {k \in Keys : queue[k] # <<>>} \cup ToSet(order)

\* Fault: sessions already in the order are added again.
AllKeys == Known

\* Those that are not in drain_order.
MissingKeys == Known \ ToSet(order)

\* The drain begins; a HashMap gives its keys in any order.
StartDrain(c) ==
    /\ forwarder[c] = "lock"
    /\ mutex = None
    /\ ~TearSeen
    /\ mutex' = c
    /\ \E new \in SetToSeqs(MissingKeys) : order' = order \o new
    /\ lapLeft' = Len(order')
    /\ lapPops' = 0
    /\ forwarder' = [forwarder EXCEPT ![c] = "drain"]
    /\ UNCHANGED <<turnVars, queue, pressured, torn, agentDead, leaseVars, batch, worldVars>>

\* Fault: a session that was served stays in front.
StaysInFront(o) == o

Requeued(o) == Append(Tail(o), Head(o))

\* Fault: the frame is read and left in the queue.
Peeked(q) == q

Popped(q) == Tail(q)

\* One visit: pop one frame unless the session is pressured or empty.
Visit(c) ==
    /\ mutex = c
    /\ lapLeft > 0
    /\ Len(batch[c]) < BatchMax
    /\ lapLeft' = lapLeft - 1
    /\ order' = Requeued(order)
    /\ LET s == Head(order)
       IN \/ /\ ~pressured[s]
             /\ queue[s] # <<>>
             /\ batch' = [batch EXCEPT ![c] = Append(@, Head(queue[s]))]
             /\ queue' = [queue EXCEPT ![s] = Popped(@)]
             /\ lapPops' = lapPops + 1
          \/ /\ pressured[s] \/ queue[s] = <<>>
             /\ UNCHANGED <<batch, queue, lapPops>>
    /\ UNCHANGED <<turnVars, pressured, torn, agentDead, mutex, leaseVars, forwarder, worldVars>>

NextLap(c) ==
    /\ mutex = c
    /\ lapLeft = 0
    /\ lapPops > 0
    /\ Len(batch[c]) < BatchMax
    /\ lapLeft' = Len(order)
    /\ lapPops' = 0
    /\ UNCHANGED <<turnVars, stateVars, mutex, leaseVars, taskVars, worldVars>>

\* Fault: a dead agent ends the forwarder before the batch is written.
LeavesOnDeath(c) == IF agentDead THEN "done" ELSE IF batch[c] = <<>> THEN "top" ELSE "write"

AfterDrain(c) == IF batch[c] # <<>> THEN "write" ELSE IF agentDead THEN "done" ELSE "top"

\* The batch is full, or a whole lap popped nothing: release the lock.
EndDrain(c) ==
    /\ mutex = c
    /\ Len(batch[c]) >= BatchMax \/ (lapLeft = 0 /\ lapPops = 0)
    /\ mutex' = None
    /\ lapLeft' = 0
    /\ lapPops' = 0
    /\ forwarder' = [forwarder EXCEPT ![c] = AfterDrain(c)]
    /\ UNCHANGED <<turnVars, stateVars, leaseVars, batch, worldVars>>

\* The batch is written frame by frame, whatever has become of the lease.
Write(c) ==
    /\ forwarder[c] = "write"
    /\ alive[c]
    /\ got' = [got EXCEPT ![c] = Append(@, Head(batch[c]))]
    /\ batch' = [batch EXCEPT ![c] = Tail(@)]
    /\ forwarder' = [forwarder EXCEPT ![c] = IF Len(batch[c]) = 1 THEN "top" ELSE "write"]
    /\ UNCHANGED <<turnVars, stateVars, drainVars, leaseVars, sent, alive, reported>>

\* The client is gone: the task returns, the rest of its batch with it.
WriteFails(c) ==
    /\ forwarder[c] = "write"
    /\ ~alive[c]
    /\ forwarder' = [forwarder EXCEPT ![c] = "done"]
    /\ UNCHANGED <<turnVars, stateVars, drainVars, leaseVars, batch, worldVars>>

Forward(c) == \/ Top(c) \/ LeaveTorn(c) \/ StartDrain(c) \/ Visit(c) \/ NextLap(c)
              \/ EndDrain(c) \/ Write(c) \/ WriteFails(c)

-----------------------------------------------------------------------------

Next == \/ \E s \in Keys : DemuxFrame(s)
        \/ \E p \in Prompts : Prompt(p) \/ \E kind \in ReplyKinds : DemuxReply(p, kind)
        \/ AgentDies
        \/ Detach
        \/ \E c \in Clients : Attach(c) \/ HangUp(c) \/ Forward(c)

Spec == Init /\ [][Next]_vars

\* The runtime polls every forwarder, and gives the mutex to whoever waits
\* for it; clients that are there read what is written to them.
FairSpec == Spec /\ \A c \in Clients : SF_vars(Forward(c))

-----------------------------------------------------------------------------
(* What should hold.                                                       *)

\* What a client is given: what it has received and what is on its way.
Handed(c) == got[c] \o batch[c]

\* Every variable has the values the code gives it; no session is twice in
\* drain_order.
TypeOK ==
    /\ queue \in [Keys -> Seq(Frame)]
    /\ openTurns \in [Ids -> Sessions \cup {None}]
    /\ turn \in [Prompts -> {"unsent", "open", "closed"}]
    /\ crossed \subseteq Prompts
    /\ astray \subseteq Prompts
    /\ pressured \in [Keys -> BOOLEAN]
    /\ order \in Seq(Keys) /\ IsInjective(order)
    /\ torn \in BOOLEAN
    /\ agentDead \in BOOLEAN
    /\ mutex \in Clients \cup {None}
    /\ lapLeft \in Nat
    /\ lapPops \in Nat
    /\ lease \in Clients \cup {None}
    /\ stopped \in [Clients -> BOOLEAN]
    /\ forwarder \in [Clients -> {"off", "top", "lock", "drain", "write", "done"}]
    /\ batch \in [Clients -> Seq(Frame)]
    /\ \A s \in Keys : sent[s] \in 0..FrameBound[s]
    /\ DOMAIN sent = Keys
    /\ alive \in [Clients -> BOOLEAN]
    /\ got \in [Clients -> Seq(Frame)]
    /\ reported \subseteq Frame

\* The reply to a prompt does not say whose it is and is still put behind the
\* frames of its session (relay.rs:533-551), whatever other prompts are opened
\* and closed - unless two open prompts had the same id.
InOwnLane == astray \subseteq crossed

\* No client sees two frames of a lane out of order, though forwarders that
\* were stopped may still drain (relay.rs:727-738).
InOrder ==
    \A c \in Clients : \A i, j \in 1..Len(Handed(c)) :
        /\ i < j
        /\ Handed(c)[i].sid = Handed(c)[j].sid
        => Handed(c)[i].n < Handed(c)[j].n

\* Where a frame may be: in the lane of a key, with a client.
Queued(f) == \E k \in Keys : \E i \in 1..Len(queue[k]) : queue[k][i] = f
Given(f)  == \E c \in Clients : \E i \in 1..Len(Handed(c)) : Handed(c)[i] = f

\* A frame is given to one client once, or still queued once, or reported
\* (relay.rs:733-738, 606-616): no two of these, whoever drains.
OncePerFrame ==
    /\ \A k, l \in Keys : \A i \in 1..Len(queue[k]), j \in 1..Len(queue[l]) :
           queue[k][i] = queue[l][j] => k = l /\ i = j
    /\ \A c, d \in Clients : \A i \in 1..Len(Handed(c)), j \in 1..Len(Handed(d)) :
           Handed(c)[i] = Handed(d)[j] => c = d /\ i = j
    /\ \A f \in Frame :
           /\ ~(Queued(f) /\ Given(f))
           /\ f \in reported => ~Queued(f) /\ ~Given(f)
           /\ f.n <= sent[f.sid] <=> Queued(f) \/ Given(f) \/ f \in reported

\* After a tear the stream stops for good: no client is given a frame of a
\* lane that follows one that was dropped (relay.rs:733-737, 618).
NeverSpliced ==
    \A c \in Clients : \A i \in 1..Len(Handed(c)) :
        ~ \E f \in reported : f.sid = Handed(c)[i].sid /\ f.n < Handed(c)[i].n

\* What the clients are given of a session is what the agent sent, in order,
\* once, and without a gap that is not the end (relay.rs:533-551, 606-616,
\* 727-761).  Replies to prompts whose ids crossed have left their session's
\* order: they are in the order of the lane they joined.
FramesIntact == InOwnLane /\ InOrder /\ OncePerFrame /\ NeverSpliced

\* The drain is fair (relay.rs:770-811): in one batch a session gets at most
\* one frame more than any other that has frames left and is not pressured.
FairShare ==
    \A c \in Clients : mutex = c =>
        LET share(s) == Cardinality({i \in 1..Len(batch[c]) : batch[c][i].sid = s})
        IN \A s, t \in Keys :
               queue[t] # <<>> /\ ~pressured[t] => share(s) <= share(t) + 1

\* A client that is there and holds the lease.
Served == lease # None /\ alive[lease]

\* Frames of a session that is not pressured go out (relay.rs:727-761), also
\* after the agent has died: pressure elsewhere does not hold them up.
EligibleLaneDrains ==
    \A s \in Sessions :
        (queue[s] # <<>> /\ ~pressured[s])
            ~> (queue[s] = <<>> \/ pressured[s] \/ torn \/ ~Served)

\* The queues implement the lanes: those of the sessions, with no reply astray
\* but those whose ids crossed, and the one of what belongs to no session.
Lanes == INSTANCE SessionLanes
             WITH Sessions <- Keys, waiting <- queue, handed <- [c \in Clients |-> Handed(c)],
                  cut <- torn

LanesSpec == Lanes!LanesSpec

-----------------------------------------------------------------------------
(* What the documentation says and the code does not do.                   *)

\* acp-transport-spec.md:255-257: the hard bound tears that client's lease.  torn is
\* never reset, so every later lease's forwarder leaves at once (relay.rs:733-736).
TearEndsOneLease ==
    \A c \in Clients :
        [](torn /\ forwarder[c] = "off" =>
              [](forwarder[c] = "done" => stopped[c] \/ ~alive[c] \/ agentDead))

=============================================================================

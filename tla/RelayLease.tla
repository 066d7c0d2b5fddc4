---------------------------- MODULE RelayLease ----------------------------
(***************************************************************************)
(* The lease of one agent: who may talk to it, and when the connection     *)
(* may change hands.  This is relay_main and the tasks it starts           *)
(* (src/src/relay.rs): the client readers and forwarders, the single stdin *)
(* writer and the stdout demultiplexer, together with the accept loop of   *)
(* the data socket (src/src/supervisor.rs).  The agent process and the     *)
(* clients are the environment.                                            *)
(*                                                                         *)
(* A frame is a record: what the client sends is a prompt or the answer to *)
(* a call, what the agent sends is a call (a server-initiated request) or  *)
(* the reply to a prompt.  Frames that neither open nor close anything are *)
(* left to ForwardQueues, and so are the per-session lanes: here the frames*)
(* waiting for a client form one lane.                                     *)
(*                                                                         *)
(* A client numbers its requests, each number once; two clients may use    *)
(* the same number, and the relay keeps nothing else of a turn.  Each      *)
(* await point of the code is a boundary between two actions.              *)
(***************************************************************************)
EXTENDS Naturals, Sequences, FiniteSets, Functions

CONSTANTS
    Clients,      \* connections to the data socket, each made at most once
    Prompts,      \* session/prompt requests
    Ids,          \* the JSON-RPC ids clients give them
    Calls,        \* ids of requests the agent makes of its client
    ReplyKinds,   \* how this agent replies to a prompt: with "stop", "error"
    StdinCap,     \* frames the stdin channel holds (256 in the code)
    PipeCap,      \* frames the agent's stdout pipe holds
    ChunkMax,     \* frames that one read of a client socket returns
    Crashing,     \* clients that may hang up
    Mortal,       \* TRUE if the agent process may die
    None

ASSUME DisjointAssumption == /\ Prompts \cap Calls = {}
                             /\ None \notin Clients \cup Prompts \cup Calls
ASSUME ReplyAssumption == ReplyKinds \subseteq {"stop", "error"}
ASSUME BoundAssumption == /\ StdinCap \in Nat \ {0}
                          /\ PipeCap \in Nat \ {0}
                          /\ ChunkMax \in Nat \ {0}
ASSUME EnvironmentAssumption == /\ Crashing \subseteq Clients
                                /\ Mortal \in BOOLEAN

VARIABLES
    \* relay_main and do_attach
    relay,        \* where the command loop is
    candidate,    \* the connection do_attach is serving
    deadline,     \* STEAL_WAIT has passed since the wait began
    lease,        \* the connection that holds the lease
    stopped,      \* Lease::stop was called for this connection
    agentDead,    \* RelayState.agent_dead
    \* RelayState: the ids in flight
    openTurns,    \* open_turns
    openCalls,    \* open_callbacks, with the age the steal wait looks at
    rpcId,        \* the id each prompt is sent with
    crossed,      \* prompts whose entry a reply to another one removed
    lane,         \* agent frames waiting to be forwarded
    \* the tasks of the relay
    reader,       \* client_to_agent, per connection
    chunk,        \* the frames the reader has read and not yet handed on
    forwarder,    \* queues_to_client, per connection
    demux,        \* agent_to_queues
    stdin,        \* the channel to agent_stdin_writer
    writer,       \* agent_stdin_writer
    accepting,    \* data_socket_accept_loop
    \* the environment
    conn,         \* what became of each connection
    alive,        \* the client behind it is still there
    got,          \* calls a client has received and not answered
    owner,        \* the connection a prompt came from
    prompt,       \* how far each prompt is
    asking,       \* the prompt on whose behalf the agent waits for an answer
    unasked,      \* calls the agent has not made
    agent,        \* the process
    stdout        \* its pipe

relayVars  == <<relay, candidate, deadline, lease, stopped, agentDead>>
idVars     == <<rpcId, crossed>>
openVars   == <<openTurns, openCalls, idVars>>
readerVars == <<reader, chunk>>
outVars    == <<lane, forwarder>>
demuxVars  == <<demux, stdout>>
stdinVars  == <<stdin, writer>>
connVars   == <<conn, alive, accepting>>
agentVars  == <<asking, unasked, agent>>
vars == <<relayVars, openVars, readerVars, outVars, demuxVars, stdinVars,
          connVars, got, owner, prompt, agentVars>>

PromptFrame == [kind : {"prompt"}, id : Prompts]
AnswerFrame == [kind : {"answer"}, id : Calls]
CallFrame   == [kind : {"call"}, id : Calls]
ReplyFrame  == [kind : ReplyKinds, id : Prompts]
ToAgent     == PromptFrame \cup AnswerFrame
FromAgent   == CallFrame \cup ReplyFrame

PromptsIn(s) == {f.id : f \in {g \in Range(s) : g.kind = "prompt"}}
AnswersIn(s) == {f.id : f \in {g \in Range(s) : g.kind = "answer"}}
CallsIn(s)   == {f.id : f \in {g \in Range(s) : g.kind = "call"}}

Init ==
    /\ relay = "select"
    /\ candidate = None
    /\ deadline = FALSE
    /\ lease = None
    /\ stopped = [c \in Clients |-> FALSE]
    /\ agentDead = FALSE
    /\ openTurns = {}
    /\ openCalls = [k \in Calls |-> "none"]
    /\ rpcId \in [Prompts -> Ids]
    /\ crossed = {}
    /\ lane = <<>>
    /\ reader = [c \in Clients |-> "off"]
    /\ chunk = [c \in Clients |-> <<>>]
    /\ forwarder = [c \in Clients |-> "off"]
    /\ demux = "read"
    /\ stdin = <<>>
    /\ writer = "up"
    /\ accepting = TRUE
    /\ conn = [c \in Clients |-> "new"]
    /\ alive = [c \in Clients |-> TRUE]
    /\ got = [c \in Clients |-> {}]
    /\ owner = [p \in Prompts |-> None]
    /\ prompt = [p \in Prompts |-> "unsent"]
    /\ asking = [k \in Calls |-> None]
    /\ unasked = Calls
    /\ agent = "up"
    /\ stdout = <<>>

-----------------------------------------------------------------------------
(* The steal check, and the wake-up that ends a wait for it.               *)

\* RelayState::steal_unsafe_excluding_expired
StealUnsafe == openTurns # {} \/ \E k \in Calls : openCalls[k] = "fresh"

\* Notify::notify_waiters wakes whoever is parked now and leaves no permit.
NotifyBoundary == relay' = IF relay = "parked" THEN "check" ELSE relay

\* An entry of open_callbacks grows older than CALLBACK_STEAL_TTL.
CallAges(k) ==
    /\ openCalls[k] = "fresh"
    /\ openCalls' = [openCalls EXCEPT ![k] = "stale"]
    /\ UNCHANGED <<relayVars, openTurns, idVars, readerVars, outVars, demuxVars, stdinVars,
                   connVars, got, owner, prompt, agentVars>>

-----------------------------------------------------------------------------
(* relay_main: one command at a time.                                      *)

\* The accept loop hands over a stream; do_attach waits only when it steals.
RecvAttach(c) ==
    /\ relay = "select"
    /\ accepting
    /\ conn[c] = "pending"
    /\ candidate' = c
    /\ relay' = IF lease = None THEN "grant" ELSE "check"
    /\ UNCHANGED <<deadline, lease, stopped, agentDead, openVars, readerVars, outVars, demuxVars,
                   stdinVars, connVars, got, owner, prompt, agentVars>>

\* wait_turn_boundary, under the lock.
CheckBoundary ==
    /\ relay = "check"
    /\ relay' = IF agentDead \/ ~StealUnsafe THEN "grant" ELSE "arm"
    /\ UNCHANGED <<candidate, deadline, lease, stopped, agentDead, openVars, readerVars,
                   outVars, demuxVars, stdinVars, connVars, got, owner, prompt, agentVars>>

\* The lock is released; only now does the wait register with the Notify.
Park ==
    /\ relay = "arm"
    /\ ~deadline
    /\ relay' = "parked"
    /\ UNCHANGED <<candidate, deadline, lease, stopped, agentDead, openVars, readerVars,
                   outVars, demuxVars, stdinVars, connVars, got, owner, prompt, agentVars>>

\* Fault: the wait has no deadline of its own.
NeverWakes == relay

\* Fault: the wait gives up at its deadline without another look.
GivesUp == IF relay = "parked" THEN "arm" ELSE relay

\* STEAL_WAIT passes: a parked wait wakes and checks once more.
WakeAtDeadline == IF relay = "parked" THEN "check" ELSE relay

StealWaitExpires ==
    /\ relay \in {"check", "arm", "parked"}
    /\ ~deadline
    /\ deadline' = TRUE
    /\ relay' = WakeAtDeadline
    /\ UNCHANGED <<candidate, lease, stopped, agentDead, openVars, readerVars,
                   outVars, demuxVars, stdinVars, connVars, got, owner, prompt, agentVars>>

\* do_attach returns an error and drops the stream.
RefuseSteal ==
    /\ relay = "arm"
    /\ deadline
    /\ relay' = "select"
    /\ candidate' = None
    /\ deadline' = FALSE
    /\ conn' = [conn EXCEPT ![candidate] = "refused"]
    /\ UNCHANGED <<lease, stopped, agentDead, openVars, readerVars, outVars,
                   demuxVars, stdinVars, alive, accepting, got, owner, prompt, agentVars>>

\* Fault: the old client's tasks go on.
KeepsHolder == stopped

\* Lease::stop of the lease there is.
StopsHolder == IF lease = None THEN stopped ELSE [stopped EXCEPT ![lease] = TRUE]

\* Stop both directions of the old client, start those of the new one.
GrantLease ==
    /\ relay = "grant"
    /\ relay' = "select"
    /\ candidate' = None
    /\ deadline' = FALSE
    /\ stopped' = StopsHolder
    /\ lease' = candidate
    /\ conn' = [conn EXCEPT ![candidate] = "up"]
    /\ reader' = [reader EXCEPT ![candidate] = "read"]
    /\ forwarder' = [forwarder EXCEPT ![candidate] = "top"]
    /\ UNCHANGED <<agentDead, openVars, chunk, lane, demuxVars, stdinVars,
                   alive, accepting, got, owner, prompt, agentVars>>

\* do_detach by the holder; nobody asks whether a turn is open.
Detach ==
    /\ relay = "select"
    /\ lease # None
    /\ lease' = None
    /\ stopped' = StopsHolder
    /\ UNCHANGED <<relay, candidate, deadline, agentDead, openVars, readerVars, outVars,
                   demuxVars, stdinVars, connVars, got, owner, prompt, agentVars>>

\* The demultiplexer is gone: mark the agent dead, wake the waiters (this
\* task is the only one that ever waits), let the forwarder drain.
NoticeDeath ==
    /\ relay = "select"
    /\ demux = "done"
    /\ agentDead' = TRUE
    /\ relay' = IF lease = None THEN "ended" ELSE "drain"
    /\ UNCHANGED <<candidate, deadline, lease, stopped, openVars, readerVars, outVars,
                   demuxVars, stdinVars, connVars, got, owner, prompt, agentVars>>

\* wait_drained returns, on the signal or after two seconds.
EndRelay ==
    /\ relay = "drain"
    /\ relay' = "ended"
    /\ lease' = None
    /\ UNCHANGED <<candidate, deadline, stopped, agentDead, openVars, readerVars, outVars,
                   demuxVars, stdinVars, connVars, got, owner, prompt, agentVars>>

\* data_socket_accept_loop finds the command channel closed and returns: the
\* stream in its hands is dropped, later ones stay in the listener's backlog.
AcceptLoopEnds(c) ==
    /\ relay = "ended"
    /\ accepting
    /\ conn[c] = "pending"
    /\ conn' = [conn EXCEPT ![c] = "refused"]
    /\ accepting' = FALSE
    /\ UNCHANGED <<relayVars, openVars, readerVars, outVars, demuxVars, stdinVars,
                   alive, got, owner, prompt, agentVars>>

Relay == \/ \E c \in Clients : RecvAttach(c) \/ AcceptLoopEnds(c)
         \/ CheckBoundary \/ Park \/ StealWaitExpires \/ RefuseSteal
         \/ GrantLease \/ Detach \/ NoticeDeath \/ EndRelay

-----------------------------------------------------------------------------
(* client_to_agent.                                                        *)

\* Fault: the stop switch is also looked at between two frames.
StopsMidChunk(c) == /\ reader[c] \in {"read", "send"}
                    /\ stopped[c] \/ relay = "ended" \/ ~alive[c]

\* The stop switch fires, or its sender is gone with the relay, or the client
\* has hung up: all looked at between two reads only.
StopSeen(c) == /\ reader[c] = "read"
               /\ stopped[c] \/ relay = "ended" \/ ~alive[c]

ReaderStops(c) ==
    /\ StopSeen(c)
    /\ reader' = [reader EXCEPT ![c] = "done"]
    /\ UNCHANGED <<relayVars, openVars, chunk, outVars, demuxVars, stdinVars, connVars,
                   got, owner, prompt, agentVars>>

\* What a client may write now: a new prompt, or the answer to a call it got.
Sendable(c) == [kind : {"prompt"}, id : {p \in Prompts : prompt[p] = "unsent"}]
                   \cup [kind : {"answer"}, id : got[c]]

\* A client gives each of its prompts an id of its own.
OwnIds(c, s) ==
    \A p \in PromptsIn(s), q \in Prompts :
        (q \in PromptsIn(s) \/ owner[q] = c) /\ rpcId[q] = rpcId[p] => q = p

Chunks(S) == {s \in UNION {[1..n -> S] : n \in 1..ChunkMax} : IsInjective(s)}

\* select! takes whichever branch is ready, so a stopped reader may still read.
ReadChunk(c) ==
    /\ reader[c] = "read"
    /\ alive[c]
    /\ \E s \in Chunks(Sendable(c)) :
          /\ OwnIds(c, s)
          /\ chunk' = [chunk EXCEPT ![c] = s]
          /\ got' = [got EXCEPT ![c] = @ \ AnswersIn(s)]
          /\ owner' = [p \in Prompts |-> IF p \in PromptsIn(s) THEN c ELSE owner[p]]
          /\ prompt' = [p \in Prompts |-> IF p \in PromptsIn(s) THEN "read" ELSE prompt[p]]
    /\ reader' = [reader EXCEPT ![c] = "track"]
    /\ UNCHANGED <<relayVars, openVars, outVars, demuxVars, stdinVars, connVars, agentVars>>

\* Register the prompts and clear the answered calls, under the lock.
TrackChunk(c) ==
    /\ reader[c] = "track"
    /\ openTurns' = openTurns \cup {rpcId[p] : p \in PromptsIn(chunk[c])}
    /\ openCalls' = [k \in Calls |-> IF k \in AnswersIn(chunk[c]) THEN "none" ELSE openCalls[k]]
    /\ prompt' = [p \in Prompts |-> IF p \in PromptsIn(chunk[c]) THEN "held" ELSE prompt[p]]
    /\ reader' = [reader EXCEPT ![c] = IF openCalls' # openCalls THEN "notify" ELSE "send"]
    /\ UNCHANGED <<relayVars, idVars, chunk, outVars, demuxVars, stdinVars, connVars, got,
                   owner, agentVars>>

ReaderNotifies(c) ==
    /\ reader[c] = "notify"
    /\ reader' = [reader EXCEPT ![c] = "send"]
    /\ NotifyBoundary
    /\ UNCHANGED <<candidate, deadline, lease, stopped, agentDead, openVars, chunk, outVars,
                   demuxVars, stdinVars, connVars, got, owner, prompt, agentVars>>

\* Hand the frames to the stdin writer one by one; the stop switch is not
\* looked at until all are gone.
SendFrame(c) ==
    /\ reader[c] = "send"
    /\ chunk[c] # <<>>
    /\ writer = "up"
    /\ Len(stdin) < StdinCap
    /\ stdin' = Append(stdin, Head(chunk[c]))
    /\ chunk' = [chunk EXCEPT ![c] = Tail(@)]
    /\ prompt' = [p \in Prompts |-> IF p \in PromptsIn(<<Head(chunk[c])>>)
                                    THEN "stdin" ELSE prompt[p]]
    /\ UNCHANGED <<relayVars, openVars, reader, outVars, demuxVars, writer, connVars,
                   got, owner, agentVars>>

ChunkSent(c) ==
    /\ reader[c] = "send"
    /\ chunk[c] = <<>>
    /\ reader' = [reader EXCEPT ![c] = "read"]
    /\ UNCHANGED <<relayVars, openVars, chunk, outVars, demuxVars, stdinVars, connVars,
                   got, owner, prompt, agentVars>>

SendFails(c) ==
    /\ reader[c] = "send"
    /\ chunk[c] # <<>>
    /\ writer = "gone"
    /\ reader' = [reader EXCEPT ![c] = "done"]
    /\ UNCHANGED <<relayVars, openVars, chunk, outVars, demuxVars, stdinVars, connVars,
                   got, owner, prompt, agentVars>>

ReaderStep(c) == \/ ReaderStops(c) \/ TrackChunk(c) \/ ReaderNotifies(c)
                 \/ SendFrame(c) \/ ChunkSent(c) \/ SendFails(c)

-----------------------------------------------------------------------------
(* agent_stdin_writer.  A frame is off the stdin channel once the agent has *)
(* read it: until then it waits there, in the writer's hand or in the pipe. *)

\* write_all returns when the agent has made room; one that does not read
\* may hold it up for ever (relay.rs:482).
WriteFrame ==
    /\ writer = "up"
    /\ stdin # <<>>
    /\ agent = "up"
    /\ stdin' = Tail(stdin)
    /\ LET f == Head(stdin)
       IN \/ /\ f.kind = "prompt"
             /\ prompt' = [prompt EXCEPT ![f.id] = "working"]
             /\ UNCHANGED asking
          \/ /\ f.kind = "answer"
             /\ asking' = [asking EXCEPT ![f.id] = None]
             /\ UNCHANGED prompt
    /\ UNCHANGED <<relayVars, openVars, readerVars, outVars, demuxVars, writer, connVars,
                   got, owner, unasked, agent>>

WriteFails ==
    /\ writer = "up"
    /\ stdin # <<>>
    /\ agent = "dead"
    /\ writer' = "gone"
    /\ stdin' = <<>>
    /\ UNCHANGED <<relayVars, openVars, readerVars, outVars, demuxVars, connVars, got,
                   owner, prompt, agentVars>>

-----------------------------------------------------------------------------
(* agent_to_queues.                                                        *)

\* Fault: every frame with an id opens a callback.
OpensAny(f) == [k \in Calls \cup {f.id} |-> IF k = f.id THEN "fresh" ELSE openCalls[k]]

\* A call opens a callback; a reply with a stopReason closes the turn of its
\* id, and a reply without one closes nothing.
CallsAfter(f) == IF f.kind = "call" THEN [openCalls EXCEPT ![f.id] = "fresh"] ELSE openCalls

\* Fault: a reply closes every turn.
ClosesAll(f) == IF f.kind = "stop" THEN {} ELSE openTurns

\* Fault: a reply closes no turn.
ClosesNone(f) == openTurns

TurnsAfter(f) == IF f.kind = "stop" THEN openTurns \ {rpcId[f.id]} ELSE openTurns

\* A prompt that left its reader registered and whose reply is not back yet.
InFlight(p) == prompt[p] \in {"held", "stdin", "working", "replied"}

\* The turns that lose their entry to a reply that is not theirs.
CrossedBy(f) == {p \in Prompts \ {f.id} : InFlight(p) /\ rpcId[p] = rpcId[f.id]}

\* What becomes of the prompt the frame replies to.
PromptAfter(f) ==
    CASE f.kind = "stop"  -> [prompt EXCEPT ![f.id] = "closed"]
      [] f.kind = "error" -> [prompt EXCEPT ![f.id] = "failed"]
      [] OTHER            -> prompt

DemuxFrame ==
    /\ demux = "read"
    /\ stdout # <<>>
    /\ LET f == Head(stdout)
       IN /\ openCalls' = CallsAfter(f)
          /\ openTurns' = TurnsAfter(f)
          /\ demux' = IF openTurns' # openTurns THEN "notify" ELSE "read"
          /\ crossed' = IF f.kind = "stop" THEN crossed \cup CrossedBy(f) ELSE crossed
          /\ prompt' = PromptAfter(f)
    /\ stdout' = Tail(stdout)
    /\ lane' = Append(lane, Head(stdout))
    /\ UNCHANGED <<relayVars, rpcId, readerVars, forwarder, stdinVars, connVars, got, owner,
                   agentVars>>

DemuxNotifies ==
    /\ demux = "notify"
    /\ demux' = "read"
    /\ NotifyBoundary
    /\ UNCHANGED <<candidate, deadline, lease, stopped, agentDead, openVars, readerVars,
                   outVars, stdout, stdinVars, connVars, got, owner, prompt, agentVars>>

DemuxEof ==
    /\ demux = "read"
    /\ stdout = <<>>
    /\ agent = "dead"
    /\ demux' = "done"
    /\ UNCHANGED <<relayVars, openVars, readerVars, outVars, stdout, stdinVars, connVars,
                   got, owner, prompt, agentVars>>

Demux == DemuxFrame \/ DemuxNotifies \/ DemuxEof

-----------------------------------------------------------------------------
(* queues_to_client.                                                       *)

\* The stop switch is looked at only here, before the lock is taken.
ForwarderTop(c) ==
    /\ forwarder[c] = "top"
    /\ forwarder' = [forwarder EXCEPT ![c] = IF stopped[c] THEN "done" ELSE "pop"]
    /\ UNCHANGED <<relayVars, openVars, readerVars, lane, demuxVars, stdinVars, connVars,
                   got, owner, prompt, agentVars>>

\* Take what is queued and write it; a client that is gone ends the task, and
\* what was taken is lost.
ForwardLane(c) ==
    /\ forwarder[c] = "pop"
    /\ lane # <<>>
    /\ lane' = <<>>
    /\ \/ /\ alive[c]
          /\ forwarder' = [forwarder EXCEPT ![c] = "top"]
          /\ got' = [got EXCEPT ![c] = @ \cup CallsIn(lane)]
       \/ /\ ~alive[c]
          /\ forwarder' = [forwarder EXCEPT ![c] = "done"]
          /\ UNCHANGED got
    /\ UNCHANGED <<relayVars, openVars, readerVars, demuxVars, stdinVars, connVars, owner,
                   prompt, agentVars>>

ForwarderIdle(c) ==
    /\ forwarder[c] = "pop"
    /\ lane = <<>>
    /\ forwarder' = [forwarder EXCEPT ![c] = IF agentDead THEN "done" ELSE "top"]
    /\ UNCHANGED <<relayVars, openVars, readerVars, lane, demuxVars, stdinVars, connVars,
                   got, owner, prompt, agentVars>>

Forward(c) == ForwarderTop(c) \/ ForwardLane(c) \/ ForwarderIdle(c)

-----------------------------------------------------------------------------
(* The environment: clients come and go, the agent works on its prompts.   *)

Connect(c) ==
    /\ conn[c] = "new"
    /\ conn' = [conn EXCEPT ![c] = "pending"]
    /\ UNCHANGED <<relayVars, openVars, readerVars, outVars, demuxVars, stdinVars, alive,
                   accepting, got, owner, prompt, agentVars>>

HangUp(c) ==
    /\ c \in Crashing
    /\ conn[c] \in {"pending", "up"}
    /\ alive[c]
    /\ alive' = [alive EXCEPT ![c] = FALSE]
    /\ UNCHANGED <<relayVars, openVars, readerVars, outVars, demuxVars, stdinVars, conn,
                   accepting, got, owner, prompt, agentVars>>

AgentCalls(k, p) ==
    /\ agent = "up"
    /\ prompt[p] = "working"
    /\ k \in unasked
    /\ Len(stdout) < PipeCap
    /\ unasked' = unasked \ {k}
    /\ asking' = [asking EXCEPT ![k] = p]
    /\ stdout' = Append(stdout, [kind |-> "call", id |-> k])
    /\ UNCHANGED <<relayVars, openVars, readerVars, outVars, demux, stdinVars, connVars,
                   got, owner, prompt, agent>>

\* A turn ends once the calls made for it are answered or given up.
AgentReplies(p, kind) ==
    /\ agent = "up"
    /\ prompt[p] = "working"
    /\ \A k \in Calls : asking[k] # p
    /\ Len(stdout) < PipeCap
    /\ prompt' = [prompt EXCEPT ![p] = "replied"]
    /\ stdout' = Append(stdout, [kind |-> kind, id |-> p])
    /\ UNCHANGED <<relayVars, openVars, readerVars, outVars, demux, stdinVars, connVars,
                   got, owner, agentVars>>

AgentGivesUp(k) ==
    /\ asking[k] # None
    /\ asking' = [asking EXCEPT ![k] = None]
    /\ UNCHANGED <<relayVars, openVars, readerVars, outVars, demuxVars, stdinVars, connVars,
                   got, owner, prompt, unasked, agent>>

AgentDies ==
    /\ Mortal
    /\ agent = "up"
    /\ agent' = "dead"
    /\ asking' = [k \in Calls |-> None]
    /\ UNCHANGED <<relayVars, openVars, readerVars, outVars, demuxVars, stdinVars, connVars,
                   got, owner, prompt, unasked>>

Environment ==
    \/ \E c \in Clients : Connect(c) \/ HangUp(c) \/ ReadChunk(c)
    \/ \E p \in Prompts : \/ \E k \in Calls : AgentCalls(k, p)
                          \/ \E kind \in ReplyKinds : AgentReplies(p, kind)
    \/ \E k \in Calls : AgentGivesUp(k) \/ CallAges(k)
    \/ AgentDies

-----------------------------------------------------------------------------

Next == \/ Relay
        \/ \E c \in Clients : ReaderStep(c) \/ Forward(c)
        \/ WriteFrame \/ WriteFails
        \/ Demux
        \/ Environment

Spec == Init /\ [][Next]_vars

\* The runtime keeps polling every task that can run, and timers fire.
\* Nothing is assumed of clients and agent: neither need read what is written to
\* it, so that of the writes only the agent's that fails is sure to return.
TaskFairness ==
    /\ \A c \in Clients : /\ WF_vars(RecvAttach(c))
                          /\ WF_vars(ReaderStep(c))
                          /\ WF_vars(ForwarderTop(c) \/ ForwarderIdle(c))
    /\ WF_vars(CheckBoundary \/ Park \/ RefuseSteal \/ GrantLease \/ EndRelay)
    /\ WF_vars(StealWaitExpires) /\ WF_vars(NoticeDeath)
    /\ WF_vars(\E c \in Clients : AcceptLoopEnds(c))
    /\ WF_vars(Demux) /\ WF_vars(WriteFails)

FairSpec == Spec /\ TaskFairness

-----------------------------------------------------------------------------
(* What should hold.                                                       *)

\* Every variable has the values the code gives it.
TypeOK ==
    /\ relay \in {"select", "check", "arm", "parked", "grant", "drain", "ended"}
    /\ candidate \in Clients \cup {None}
    /\ deadline \in BOOLEAN
    /\ lease \in Clients \cup {None}
    /\ stopped \in [Clients -> BOOLEAN]
    /\ agentDead \in BOOLEAN
    /\ openTurns \subseteq Ids
    /\ rpcId \in [Prompts -> Ids]
    /\ crossed \subseteq Prompts
    /\ openCalls \in [Calls -> {"none", "fresh", "stale"}]
    /\ lane \in Seq(FromAgent)
    /\ reader \in [Clients -> {"off", "read", "track", "notify", "send", "done"}]
    /\ chunk \in [Clients -> Seq(ToAgent)]
    /\ forwarder \in [Clients -> {"off", "top", "pop", "done"}]
    /\ demux \in {"read", "notify", "done"}
    /\ stdin \in Seq(ToAgent)
    /\ writer \in {"up", "gone"}
    /\ accepting \in BOOLEAN
    /\ conn \in [Clients -> {"new", "pending", "up", "refused"}]
    /\ alive \in [Clients -> BOOLEAN]
    /\ got \in [Clients -> SUBSET Calls]
    /\ owner \in [Prompts -> Clients \cup {None}]
    /\ prompt \in [Prompts -> {"unsent", "read", "held", "stdin", "working", "replied", "closed",
                           "failed"}]
    /\ asking \in [Calls -> Prompts \cup {None}]
    /\ unasked \subseteq Calls
    /\ agent \in {"up", "dead"}
    /\ stdout \in Seq(FromAgent)

\* What the steal check relies on (relay.rs:674-680, 557-563): when open_turns
\* is empty, no prompt is in a reader's hands, in the stdin channel, with the
\* agent or replied to on stdout, and the agent waits for no client's answer.
\* Turns are told apart by their ids alone: of two clients' that have the same,
\* one after the other's detach, the first reply removes the entry of both.
BoundaryIsQuiet ==
    openTurns = {} => /\ \A p \in Prompts : InFlight(p) => p \in crossed
                      /\ \A k \in Calls : asking[k] # None => asking[k] \in crossed

\* The converse (relay.rs:117-119): an entry of open_turns stands for a turn
\* that is still going on, so no finished turn keeps refusing steals.  A turn
\* that ended in an error has no stopReason and does keep its entry.
OpenTurnIsLive ==
    agent = "up" =>
        \A i \in openTurns :
            \E p \in Prompts : rpcId[p] = i /\ (InFlight(p) \/ prompt[p] = "failed")

\* One client at a time (relay.rs:348-350): a connection whose tasks were
\* started and not told to stop is the leaseholder, while the relay runs.
ExclusiveLease ==
    relay # "ended" =>
        \A c \in Clients :
            /\ reader[c] # "off" /\ ~stopped[c] => lease = c
            /\ forwarder[c] # "off" /\ ~stopped[c] => lease = c
            /\ stopped[c] => lease # c

\* Every connection is eventually leased or refused (relay.rs:445-467), though
\* notify_waiters leaves no permit and a wake-up may be missed, and though the
\* task that would tell of the agent's death is the one that waits.  Those that
\* come when the accept loop has returned are not answered.
AttachAnswered ==
    \A c \in Clients : conn[c] = "pending" ~> (conn[c] \in {"up", "refused"} \/ ~accepting)

\* A steal that is parked when the boundary comes, and stays, is not refused
\* (relay.rs:447-467): a late wake-up is made good at the deadline.
ParkedStealGetsLease ==
    \A c \in Clients :
        []((relay = "parked" /\ candidate = c /\ [](~StealUnsafe)) => <>(lease = c))

\* An agent that keeps reading its stdin.
AgentReads == WF_vars(WriteFrame)

\* A prompt registered as a turn reaches an agent that reads (relay.rs:705-711),
\* even if its connection loses the lease between the two: no turn is left open
\* that nobody will close.
RegisteredPromptArrives ==
    AgentReads =>
        \A p \in Prompts :
            prompt[p] = "held" ~> (prompt[p] \notin {"held", "stdin"} \/ agent = "dead")

-----------------------------------------------------------------------------
(* Inductive strengthenings, for the proofs.                               *)

\* The connection do_attach serves is none that has tasks, and tasks exist
\* only for connections that were granted the lease.
LeaseInv ==
    /\ relay \in {"check", "arm", "parked", "grant"} <=> candidate # None
    /\ \A c \in Clients :
          /\ candidate = c => conn[c] = "pending"
          /\ conn[c] # "up" => reader[c] = "off" /\ forwarder[c] = "off" /\ ~stopped[c]
          /\ lease = c => conn[c] = "up" /\ ~stopped[c]
    /\ ExclusiveLease

\* No two frames of s with a kind in K have the same id.
Once(s, K) ==
    \A i, j \in 1..Len(s) :
        s[i].kind \in K /\ s[j].kind \in K /\ s[i].id = s[j].id => i = j

\* The prompts that the frames of s with a kind in K name have come this far.
At(s, K, stage) == \A i \in 1..Len(s) : s[i].kind \in K => prompt[s[i].id] = stage

\* Where a prompt is, each queue knows; the turns in flight are registered.
ChunkInv(c) ==
    /\ reader[c] \in {"off", "read"} => chunk[c] = <<>>
    /\ Once(chunk[c], {"prompt"})
    /\ At(chunk[c], {"prompt"}, IF reader[c] = "track" THEN "read" ELSE "held")
    /\ \A i \in 1..Len(chunk[c]) :
          chunk[c][i].kind = "prompt" => owner[chunk[c][i].id] = c

StdinInv  == Once(stdin, {"prompt"}) /\ At(stdin, {"prompt"}, "stdin")
StdoutInv == Once(stdout, {"stop", "error"}) /\ At(stdout, {"stop", "error"}, "replied")

TurnTracked == \A p \in Prompts : InFlight(p) => rpcId[p] \in openTurns \/ p \in crossed
CallsAreMadeInTurns == \A k \in Calls : asking[k] # None => prompt[asking[k]] = "working"

TurnInv ==
    /\ \A c \in Clients : ChunkInv(c)
    /\ StdinInv
    /\ StdoutInv
    /\ TurnTracked
    /\ CallsAreMadeInTurns

-----------------------------------------------------------------------------
(* What the documentation says and the code does not do.                   *)

\* acp-transport-spec.md:335-336: a live steal is permitted only when no prompt is
\* in flight.  The code checks, releases the lock and only then stops the old
\* reader (relay.rs:387-395).
StealOnlyAtBoundary ==
    [][(relay = "grant" /\ lease # None /\ lease' = candidate) => openTurns = {}]_vars

=============================================================================

------------------------- MODULE RelayLeaseProofs -------------------------
(* What RelayLease guarantees for every set of clients, prompts and calls. *)
EXTENDS RelayLease, SequenceTheorems, TLAPS

(***************************************************************************)
(* Type correctness                                                        *)
(***************************************************************************)

\* A chunk is a sequence of what the client may send.
LEMMA ChunksAreSequences ==
    ASSUME NEW S, NEW s \in Chunks(S)
    PROVE  /\ s \in Seq(S)
           /\ IsInjective(s)
<1>1. PICK n \in 1..ChunkMax : s \in [1..n -> S]
  BY DEF Chunks
<1>2. n \in Nat
  BY BoundAssumption
<1>3. s \in Seq(S)
  BY <1>1, <1>2, IsASeq
<1>. QED  BY <1>3 DEF Chunks

\* PromptsIn and AnswersIn name the ids of the frames of a sequence.
LEMMA IdsOfFrames ==
    ASSUME NEW s \in Seq(ToAgent)
    PROVE  /\ PromptsIn(s) \subseteq Prompts
           /\ AnswersIn(s) \subseteq Calls
BY DEF PromptsIn, AnswersIn, Range, ToAgent, PromptFrame, AnswerFrame

LEMMA CallsOfFrames ==
    ASSUME NEW s \in Seq(FromAgent)
    PROVE  CallsIn(s) \subseteq Calls
BY ReplyAssumption DEF CallsIn, Range, FromAgent, CallFrame, ReplyFrame

LEMMA SendableTyped ==
    ASSUME TypeOK, NEW c \in Clients
    PROVE  Sendable(c) \subseteq ToAgent
BY DEF Sendable, ToAgent, PromptFrame, AnswerFrame, TypeOK

\* The head and the tail of a queue hold what the queue holds.
LEMMA HeadTailTyped ==
    ASSUME NEW S, NEW s \in Seq(S), s # <<>>
    PROVE  Head(s) \in S /\ Tail(s) \in Seq(S)
BY HeadTailProperties

LEMMA InitTypeOK == Init => TypeOK
<1>. SUFFICES ASSUME Init PROVE TypeOK
  OBVIOUS
<1>1. /\ lane \in Seq(FromAgent) /\ stdin \in Seq(ToAgent) /\ stdout \in Seq(FromAgent)
      /\ chunk \in [Clients -> Seq(ToAgent)]
  BY EmptySeq DEF Init
<1>2. /\ stopped \in [Clients -> BOOLEAN] /\ alive \in [Clients -> BOOLEAN]
      /\ got \in [Clients -> SUBSET Calls]
      /\ openCalls \in [Calls -> {"none", "fresh", "stale"}]
      /\ owner \in [Prompts -> Clients \cup {None}]
      /\ asking \in [Calls -> Prompts \cup {None}]
  BY DEF Init
<1>. QED  BY <1>1, <1>2 DEF Init, TypeOK

USE DisjointAssumption

LEMMA RelayTypeOK == TypeOK /\ Relay => TypeOK'
<1>. SUFFICES ASSUME TypeOK, Relay PROVE TypeOK'
  OBVIOUS
<1>. USE DEF TypeOK, relayVars, openVars, idVars, readerVars, outVars, demuxVars, stdinVars,
             connVars, agentVars
<1>1. ASSUME NEW c \in Clients, RecvAttach(c) PROVE TypeOK'
  BY <1>1 DEF RecvAttach
<1>2. CASE CheckBoundary
  BY <1>2 DEF CheckBoundary
<1>3. CASE Park
  BY <1>3 DEF Park
<1>4. CASE StealWaitExpires
  BY <1>4 DEF StealWaitExpires, WakeAtDeadline
<1>5. CASE RefuseSteal
  BY <1>5 DEF RefuseSteal
<1>6. CASE GrantLease
  BY <1>6 DEF GrantLease, StopsHolder
<1>7. CASE Detach
  BY <1>7 DEF Detach, StopsHolder
<1>8. CASE NoticeDeath
  BY <1>8 DEF NoticeDeath
<1>9. CASE EndRelay
  BY <1>9 DEF EndRelay
<1>10. ASSUME NEW c \in Clients, AcceptLoopEnds(c) PROVE TypeOK'
  BY <1>10 DEF AcceptLoopEnds
<1>. QED
  BY <1>1, <1>2, <1>3, <1>4, <1>5, <1>6, <1>7, <1>8, <1>9, <1>10 DEF Relay

LEMMA ReaderTypeOK ==
    ASSUME TypeOK, NEW c \in Clients, ReaderStep(c) \/ ReadChunk(c)
    PROVE  TypeOK'
<1>. USE DEF TypeOK, relayVars, openVars, idVars, readerVars, outVars, demuxVars, stdinVars,
             connVars, agentVars
<1>1. CASE ReaderStops(c)
  BY <1>1 DEF ReaderStops, StopSeen
<1>2. CASE ReadChunk(c)
  <2>1. PICK s \in Chunks(Sendable(c)) :
           /\ chunk' = [chunk EXCEPT ![c] = s]
           /\ got' = [got EXCEPT ![c] = @ \ AnswersIn(s)]
           /\ owner' = [p \in Prompts |-> IF p \in PromptsIn(s) THEN c ELSE owner[p]]
           /\ prompt' = [p \in Prompts |-> IF p \in PromptsIn(s) THEN "read" ELSE prompt[p]]
    BY <1>2 DEF ReadChunk
  <2>2. s \in Seq(ToAgent)
    <3>1. s \in Seq(Sendable(c)) /\ Sendable(c) \subseteq ToAgent
      BY ChunksAreSequences, SendableTyped
    <3>. QED  BY <3>1, SeqMonotonic
  <2>. QED  BY <1>2, <2>1, <2>2 DEF ReadChunk
<1>3. CASE TrackChunk(c)
  BY <1>3, IdsOfFrames DEF TrackChunk
<1>4. CASE ReaderNotifies(c)
  BY <1>4 DEF ReaderNotifies, NotifyBoundary
<1>5. CASE SendFrame(c)
  <2>1. Head(chunk[c]) \in ToAgent /\ Tail(chunk[c]) \in Seq(ToAgent)
    BY <1>5, HeadTailTyped DEF SendFrame
  <2>2. Append(stdin, Head(chunk[c])) \in Seq(ToAgent)
    BY <2>1, AppendProperties
  <2>. QED  BY <1>5, <2>1, <2>2 DEF SendFrame
<1>6. CASE ChunkSent(c)
  BY <1>6, SMTT(40) DEF ChunkSent
<1>7. CASE SendFails(c)
  BY <1>7 DEF SendFails
<1>. QED  BY <1>1, <1>2, <1>3, <1>4, <1>5, <1>6, <1>7 DEF ReaderStep

LEMMA WriterTypeOK == TypeOK /\ (WriteFrame \/ WriteFails) => TypeOK'
<1>. SUFFICES ASSUME TypeOK, WriteFrame \/ WriteFails PROVE TypeOK'
  OBVIOUS
<1>. USE DEF TypeOK, relayVars, openVars, idVars, readerVars, outVars, demuxVars, stdinVars,
             connVars, agentVars
<1>1. CASE WriteFrame
  <2>1. Head(stdin) \in ToAgent /\ Tail(stdin) \in Seq(ToAgent)
    BY <1>1, HeadTailTyped DEF WriteFrame
  <2>2. /\ Head(stdin).kind = "prompt" => Head(stdin).id \in Prompts
        /\ Head(stdin).kind = "answer" => Head(stdin).id \in Calls
    BY <2>1 DEF ToAgent, PromptFrame, AnswerFrame
  <2>3. \/ /\ Head(stdin).id \in Prompts
           /\ prompt' = [prompt EXCEPT ![Head(stdin).id] = "working"]
           /\ asking' = asking
        \/ /\ Head(stdin).id \in Calls
           /\ asking' = [asking EXCEPT ![Head(stdin).id] = None]
           /\ prompt' = prompt
    BY <1>1, <2>2 DEF WriteFrame
  <2>4. /\ prompt \in [Prompts -> {"unsent", "read", "held", "stdin", "working", "replied",
                                   "closed", "failed"}]
        /\ asking \in [Calls -> Prompts \cup {None}]
    OBVIOUS
  <2>5. /\ prompt' \in [Prompts -> {"unsent", "read", "held", "stdin", "working", "replied",
                                    "closed", "failed"}]
        /\ asking' \in [Calls -> Prompts \cup {None}]
    <3>. HIDE DEF TypeOK
    <3>. QED  BY <2>3, <2>4
  <2>. QED  BY <1>1, <2>1, <2>5 DEF WriteFrame
<1>2. CASE WriteFails
  BY <1>2 DEF WriteFails
<1>. QED  BY <1>1, <1>2

LEMMA DemuxTypeOK == TypeOK /\ Demux => TypeOK'
<1>. SUFFICES ASSUME TypeOK, Demux PROVE TypeOK'
  OBVIOUS
<1>. USE DEF TypeOK, relayVars, openVars, idVars, readerVars, outVars, demuxVars, stdinVars,
             connVars, agentVars
<1>1. CASE DemuxFrame
  <2>1. Head(stdout) \in FromAgent /\ Tail(stdout) \in Seq(FromAgent)
    BY <1>1, HeadTailTyped DEF DemuxFrame
  <2>2. Append(lane, Head(stdout)) \in Seq(FromAgent)
    BY <2>1, AppendProperties
  <2>3. openCalls' \in [Calls -> {"none", "fresh", "stale"}] /\ openTurns' \subseteq Ids
            /\ crossed' \subseteq Prompts
    BY <1>1 DEF DemuxFrame, CallsAfter, TurnsAfter, CrossedBy
  <2>4. \/ prompt' = prompt
        \/ prompt' = [prompt EXCEPT ![Head(stdout).id] = "closed"]
        \/ prompt' = [prompt EXCEPT ![Head(stdout).id] = "failed"]
    BY <1>1 DEF DemuxFrame, PromptAfter
  <2>5. prompt' \in [Prompts -> {"unsent", "read", "held", "stdin", "working", "replied",
                                 "closed", "failed"}]
    BY <2>4
  <2>6. demux' \in {"read", "notify"}
    BY <1>1 DEF DemuxFrame
  <2>7. lane' \in Seq(FromAgent) /\ stdout' \in Seq(FromAgent)
    BY <1>1, <2>1, <2>2 DEF DemuxFrame
  <2>8. UNCHANGED <<relay, candidate, deadline, lease, stopped, agentDead, reader, chunk,
                    forwarder, stdin, writer, accepting, conn, alive, got, owner, asking,
                    unasked, agent, rpcId>>
    BY <1>1 DEF DemuxFrame
  <2>. QED  BY <2>3, <2>5, <2>6, <2>7, <2>8
<1>2. CASE DemuxNotifies
  BY <1>2 DEF DemuxNotifies, NotifyBoundary
<1>3. CASE DemuxEof
  BY <1>3 DEF DemuxEof
<1>. QED  BY <1>1, <1>2, <1>3 DEF Demux

LEMMA ForwardTypeOK ==
    ASSUME TypeOK, NEW c \in Clients, Forward(c)
    PROVE  TypeOK'
<1>. USE DEF TypeOK, relayVars, openVars, idVars, readerVars, outVars, demuxVars, stdinVars,
             connVars, agentVars
<1>1. CASE ForwarderTop(c)
  BY <1>1 DEF ForwarderTop
<1>2. CASE ForwardLane(c)
  <2>1. lane' \in Seq(FromAgent)
    BY <1>2, EmptySeq DEF ForwardLane
  <2>2. CallsIn(lane) \subseteq Calls
    BY CallsOfFrames
  <2>3. forwarder' \in [Clients -> {"off", "top", "pop", "done"}]
    <3>1. /\ forwarder \in [Clients -> {"off", "top", "pop", "done"}]
          /\ \/ forwarder' = [forwarder EXCEPT ![c] = "top"]
             \/ forwarder' = [forwarder EXCEPT ![c] = "done"]
      BY <1>2 DEF ForwardLane
    <3>. HIDE DEF TypeOK
    <3>. QED  BY <3>1
  <2>4. \/ got' = [got EXCEPT ![c] = @ \cup CallsIn(lane)]
        \/ got' = got
    BY <1>2 DEF ForwardLane
  <2>5. got' \in [Clients -> SUBSET Calls]
    <3>1. got[c] \cup CallsIn(lane) \in SUBSET Calls
      BY <2>2
    <3>2. got \in [Clients -> SUBSET Calls]
      OBVIOUS
    <3>. HIDE DEF TypeOK
    <3>. QED  BY <2>4, <3>1, <3>2
  <2>. QED  BY <1>2, <2>1, <2>3, <2>5 DEF ForwardLane
<1>3. CASE ForwarderIdle(c)
  BY <1>3 DEF ForwarderIdle
<1>. QED  BY <1>1, <1>2, <1>3 DEF Forward

LEMMA EnvironmentTypeOK == TypeOK /\ Environment => TypeOK'
<1>. SUFFICES ASSUME TypeOK, Environment PROVE TypeOK'
  OBVIOUS
<1>. USE DEF TypeOK, relayVars, openVars, idVars, readerVars, outVars, demuxVars, stdinVars,
             connVars, agentVars
<1>1. ASSUME NEW c \in Clients, Connect(c) PROVE TypeOK'
  BY <1>1 DEF Connect
<1>2. ASSUME NEW c \in Clients, HangUp(c) PROVE TypeOK'
  BY <1>2 DEF HangUp
<1>3. ASSUME NEW c \in Clients, ReadChunk(c) PROVE TypeOK'
  BY <1>3, ReaderTypeOK
<1>4. ASSUME NEW p \in Prompts, NEW k \in Calls, AgentCalls(k, p) PROVE TypeOK'
  <2>1. [kind |-> "call", id |-> k] \in FromAgent
    BY DEF FromAgent, CallFrame
  <2>2. Append(stdout, [kind |-> "call", id |-> k]) \in Seq(FromAgent)
    BY <2>1, AppendProperties
  <2>. QED  BY <1>4, <2>2 DEF AgentCalls
<1>5. ASSUME NEW p \in Prompts, NEW kind \in ReplyKinds, AgentReplies(p, kind) PROVE TypeOK'
  <2>1. [kind |-> kind, id |-> p] \in FromAgent
    BY DEF FromAgent, ReplyFrame
  <2>2. Append(stdout, [kind |-> kind, id |-> p]) \in Seq(FromAgent)
    BY <2>1, AppendProperties
  <2>. QED  BY <1>5, <2>2 DEF AgentReplies
<1>6. ASSUME NEW k \in Calls, AgentGivesUp(k) PROVE TypeOK'
  BY <1>6 DEF AgentGivesUp
<1>7. ASSUME NEW k \in Calls, CallAges(k) PROVE TypeOK'
  BY <1>7 DEF CallAges
<1>8. CASE AgentDies
  BY <1>8 DEF AgentDies
<1>. QED  BY <1>1, <1>2, <1>3, <1>4, <1>5, <1>6, <1>7, <1>8 DEF Environment

\* Every variable keeps the type the code gives it, whatever the instance.
THEOREM TypeCorrect == Spec => []TypeOK
<1>1. TypeOK /\ [Next]_vars => TypeOK'
  <2>. SUFFICES ASSUME TypeOK, [Next]_vars PROVE TypeOK'
    OBVIOUS
  <2>1. CASE UNCHANGED vars
    BY <2>1 DEF TypeOK, vars, relayVars, openVars, idVars, readerVars, outVars, demuxVars,
                stdinVars, connVars, agentVars
  <2>2. CASE Next
    BY <2>2, RelayTypeOK, ReaderTypeOK, WriterTypeOK, DemuxTypeOK, ForwardTypeOK,
       EnvironmentTypeOK DEF Next
  <2>. QED  BY <2>1, <2>2
<1>. QED  BY InitTypeOK, <1>1, PTL DEF Spec

(***************************************************************************)
(* One client at a time                                                    *)
(***************************************************************************)

\* What LeaseInv looks at.
leaseVars == <<candidate, conn, lease, stopped>>

\* A step that starts no task and leaves the lease alone preserves LeaseInv.
QuietStep ==
    /\ UNCHANGED leaseVars
    /\ \/ relay' = relay
       \/ relay = "parked" /\ relay' = "check"
    /\ \A c \in Clients : /\ reader'[c] = "off" <=> reader[c] = "off"
                          /\ forwarder'[c] = "off" <=> forwarder[c] = "off"

LEMMA QuietStepLeaseInv == TypeOK /\ LeaseInv /\ QuietStep => LeaseInv'
BY DEF TypeOK, LeaseInv, ExclusiveLease, QuietStep, leaseVars

LEMMA TaskStepsAreQuiet ==
    ASSUME TypeOK, NEW c \in Clients, ReaderStep(c) \/ Forward(c) \/ ReadChunk(c)
    PROVE  QuietStep
<1>. USE DEF QuietStep, leaseVars, relayVars, outVars, readerVars, connVars, TypeOK
<1>1. CASE ReaderStep(c)
  BY <1>1 DEF ReaderStep, ReaderStops, StopSeen, TrackChunk, ReaderNotifies, SendFrame, ChunkSent,
              SendFails, NotifyBoundary
<1>2. CASE Forward(c)
  BY <1>2 DEF Forward, ForwarderTop, ForwardLane, ForwarderIdle
<1>3. CASE ReadChunk(c)
  BY <1>3 DEF ReadChunk
<1>. QED  BY <1>1, <1>2, <1>3

LEMMA AgentStepsAreQuiet ==
    ASSUME TypeOK,
           \/ WriteFrame \/ WriteFails \/ Demux \/ AgentDies
           \/ \E p \in Prompts, k \in Calls : AgentCalls(k, p)
           \/ \E p \in Prompts, kind \in ReplyKinds : AgentReplies(p, kind)
           \/ \E k \in Calls : AgentGivesUp(k) \/ CallAges(k)
           \/ \E c \in Clients : HangUp(c)
    PROVE  QuietStep
BY DEF QuietStep, leaseVars, relayVars, outVars, readerVars, connVars, WriteFrame, WriteFails,
       Demux, DemuxFrame, DemuxNotifies, DemuxEof, NotifyBoundary, AgentDies, AgentCalls,
       AgentReplies, AgentGivesUp, CallAges, HangUp

LEMMA RelayLeaseInv == TypeOK /\ LeaseInv /\ Relay => LeaseInv'
<1>. SUFFICES ASSUME TypeOK, LeaseInv, Relay PROVE LeaseInv'
  OBVIOUS
<1>. USE DEF TypeOK, LeaseInv, ExclusiveLease, relayVars, outVars, readerVars, connVars
<1>1. ASSUME NEW c \in Clients, RecvAttach(c) PROVE LeaseInv'
  BY <1>1 DEF RecvAttach
<1>2. CASE CheckBoundary
  BY <1>2 DEF CheckBoundary
<1>3. CASE Park
  BY <1>3 DEF Park
<1>4. CASE StealWaitExpires
  BY <1>4 DEF StealWaitExpires, WakeAtDeadline
<1>5. CASE RefuseSteal
  BY <1>5 DEF RefuseSteal
<1>6. CASE GrantLease
  BY <1>6 DEF GrantLease, StopsHolder
<1>7. CASE Detach
  BY <1>7 DEF Detach, StopsHolder
<1>8. CASE NoticeDeath
  BY <1>8 DEF NoticeDeath
<1>9. CASE EndRelay
  BY <1>9 DEF EndRelay
<1>10. ASSUME NEW c \in Clients, AcceptLoopEnds(c) PROVE LeaseInv'
  BY <1>10 DEF AcceptLoopEnds
<1>. QED
  BY <1>1, <1>2, <1>3, <1>4, <1>5, <1>6, <1>7, <1>8, <1>9, <1>10 DEF Relay

LEMMA LeaseInvInductive ==
    /\ Init => LeaseInv
    /\ TypeOK /\ LeaseInv /\ [Next]_vars => LeaseInv'
<1>1. Init => LeaseInv
  BY DEF Init, LeaseInv, ExclusiveLease
<1>2. ASSUME TypeOK, LeaseInv, [Next]_vars PROVE LeaseInv'
  <2>1. CASE UNCHANGED vars
    BY <1>2, <2>1, QuietStepLeaseInv
       DEF QuietStep, leaseVars, vars, relayVars, outVars, readerVars, connVars
  <2>2. ASSUME NEW c \in Clients, Connect(c) PROVE LeaseInv'
    BY <1>2, <2>2 DEF Connect, TypeOK, LeaseInv, ExclusiveLease, relayVars, outVars,
                      readerVars
  <2>3. CASE Next
    BY <1>2, <2>2, <2>3, RelayLeaseInv, QuietStepLeaseInv, TaskStepsAreQuiet,
       AgentStepsAreQuiet DEF Next, Environment
  <2>. QED  BY <1>2, <2>1, <2>3
<1>. QED  BY <1>1, <1>2

\* At most one connection's tasks run unstopped, and it is the leaseholder's.
THEOREM LeaseIsExclusive == Spec => []ExclusiveLease
<1>1. LeaseInv => ExclusiveLease
  BY DEF LeaseInv
<1>. QED  BY LeaseInvInductive, TypeCorrect, <1>1, PTL DEF Spec

(***************************************************************************)
(* An empty open_turns means a quiet agent                                 *)
(***************************************************************************)

\* Taking the head off a queue keeps its frames distinct, from one another
\* and from the head.
LEMMA TailOnce ==
    ASSUME NEW S, NEW s \in Seq(S), s # <<>>, NEW K, Once(s, K)
    PROVE  /\ Once(Tail(s), K)
           /\ \A i \in 1..Len(Tail(s)) :
                 Tail(s)[i].kind \in K /\ Head(s).kind \in K => Tail(s)[i].id # Head(s).id
<1>1. /\ Len(s) \in Nat /\ Len(s) # 0
      /\ Len(Tail(s)) = Len(s) - 1
      /\ \A i \in 1..Len(Tail(s)) : Tail(s)[i] = s[i + 1]
  BY HeadTailProperties, EmptySeq, LenProperties
<1>2. Head(s) = s[1] /\ 1 \in 1..Len(s)
  BY <1>1
<1>3. \A i \in 1..Len(Tail(s)) : i + 1 \in 1..Len(s) /\ i + 1 # 1
  BY <1>1
<1>. QED  BY <1>1, <1>2, <1>3 DEF Once

LEMMA AppendOnce ==
    ASSUME NEW S, NEW s \in Seq(S), NEW f \in S, NEW K, Once(s, K),
           \A i \in 1..Len(s) : s[i].kind \in K /\ f.kind \in K => s[i].id # f.id
    PROVE  Once(Append(s, f), K)
<1>1. /\ Len(s) \in Nat
      /\ Len(Append(s, f)) = Len(s) + 1
      /\ \A i \in 1..Len(s) : Append(s, f)[i] = s[i]
      /\ Append(s, f)[Len(s) + 1] = f
  BY AppendProperties, LenProperties
<1>2. \A i \in 1..Len(Append(s, f)) : i \in 1..Len(s) \/ i = Len(s) + 1
  BY <1>1
<1>. QED  BY <1>1, <1>2 DEF Once

\* A queue whose head is taken, or that a frame joins, still says how far its
\* prompts are, if the step leaves the others where they were.
LEMMA TailAt ==
    ASSUME NEW S, NEW s \in Seq(S), s # <<>>, NEW K, NEW stage, At(s, K, stage),
           \A i \in 1..Len(Tail(s)) :
               Tail(s)[i].kind \in K => prompt'[Tail(s)[i].id] = prompt[Tail(s)[i].id]
    PROVE  \A i \in 1..Len(Tail(s)) : Tail(s)[i].kind \in K => prompt'[Tail(s)[i].id] = stage
<1>1. /\ Len(s) \in Nat /\ Len(s) # 0
      /\ Len(Tail(s)) = Len(s) - 1
      /\ \A i \in 1..Len(Tail(s)) : Tail(s)[i] = s[i + 1]
  BY HeadTailProperties, EmptySeq, LenProperties
<1>2. \A i \in 1..Len(Tail(s)) : i + 1 \in 1..Len(s)
  BY <1>1
<1>. QED  BY <1>1, <1>2 DEF At

LEMMA AppendAt ==
    ASSUME NEW S, NEW s \in Seq(S), NEW f \in S, NEW K, NEW stage,
           \A i \in 1..Len(s) : s[i].kind \in K => prompt'[s[i].id] = stage,
           f.kind \in K => prompt'[f.id] = stage
    PROVE  \A i \in 1..Len(Append(s, f)) :
               Append(s, f)[i].kind \in K => prompt'[Append(s, f)[i].id] = stage
<1>1. /\ Len(s) \in Nat
      /\ Len(Append(s, f)) = Len(s) + 1
      /\ \A i \in 1..Len(s) : Append(s, f)[i] = s[i]
      /\ Append(s, f)[Len(s) + 1] = f
  BY AppendProperties, LenProperties
<1>2. \A i \in 1..Len(Append(s, f)) : i \in 1..Len(s) \/ i = Len(s) + 1
  BY <1>1
<1>. QED  BY <1>1, <1>2

\* What the frames of a queue are.
LEMMA FramesToAgent ==
    ASSUME NEW s \in Seq(ToAgent)
    PROVE  /\ Len(s) \in Nat
           /\ \A i \in 1..Len(s) : /\ s[i] \in ToAgent
                                   /\ s[i].kind \in {"prompt", "answer"}
                                   /\ s[i].kind = "prompt" => s[i].id \in Prompts
                                   /\ s[i].kind = "answer" => s[i].id \in Calls
           /\ \A p : p \in PromptsIn(s) <=>
                     \E i \in 1..Len(s) : s[i].kind = "prompt" /\ s[i].id = p
<1>1. Len(s) \in Nat /\ DOMAIN s = 1..Len(s) /\ \A i \in 1..Len(s) : s[i] \in ToAgent
  BY LenProperties, ElementOfSeq
<1>2. \A f \in ToAgent : /\ f.kind \in {"prompt", "answer"}
                         /\ f.kind = "prompt" => f.id \in Prompts
                         /\ f.kind = "answer" => f.id \in Calls
  BY DEF ToAgent, PromptFrame, AnswerFrame
<1>3. Range(s) = {s[i] : i \in 1..Len(s)}
  BY <1>1 DEF Range
<1>4. \A p : p \in PromptsIn(s) <=> \E i \in 1..Len(s) : s[i].kind = "prompt" /\ s[i].id = p
  BY <1>3 DEF PromptsIn
<1>. QED  BY <1>1, <1>2, <1>4

LEMMA FramesFromAgent ==
    ASSUME NEW s \in Seq(FromAgent)
    PROVE  /\ Len(s) \in Nat
           /\ \A i \in 1..Len(s) : /\ s[i] \in FromAgent
                                   /\ s[i].kind \in {"call", "stop", "error"}
                                   /\ s[i].kind = "call" => s[i].id \in Calls
                                   /\ s[i].kind # "call" => s[i].id \in Prompts
<1>1. Len(s) \in Nat /\ \A i \in 1..Len(s) : s[i] \in FromAgent
  BY LenProperties, ElementOfSeq
<1>2. \A f \in FromAgent : /\ f.kind \in {"call", "stop", "error"}
                           /\ f.kind = "call" => f.id \in Calls
                           /\ f.kind # "call" => f.id \in Prompts
  BY ReplyAssumption DEF FromAgent, CallFrame, ReplyFrame
<1>. QED  BY <1>1, <1>2

\* A step that moves no prompt: queues and turns stay, a reader may only
\* start with nothing in its hands, or go on with what it has registered.
queueVars == <<chunk, stdin, stdout, owner, prompt, openTurns, idVars>>

IdleStep ==
    /\ UNCHANGED queueVars
    /\ \A k \in Calls : asking'[k] = asking[k] \/ asking'[k] = None
    /\ \A c \in Clients : \/ reader'[c] = reader[c]
                          \/ chunk[c] = <<>> /\ reader'[c] # "track"
                          \/ reader[c] \in {"notify", "send"} /\ reader'[c] \in {"send", "done"}

LEMMA IdleStepTurnInv == TypeOK /\ TurnInv /\ IdleStep => TurnInv'
<1>. SUFFICES ASSUME TypeOK, TurnInv, IdleStep PROVE TurnInv'
  OBVIOUS
<1>1. ASSUME NEW c \in Clients PROVE ChunkInv(c)'
  <2>1. ChunkInv(c) /\ chunk'[c] = chunk[c] /\ Len(<<>>) = 0
    BY DEF TurnInv, IdleStep, queueVars
  <2>2. \/ reader'[c] = reader[c]
        \/ chunk[c] = <<>> /\ reader'[c] # "track"
        \/ reader[c] \in {"notify", "send"} /\ reader'[c] \in {"send", "done"}
    BY DEF IdleStep
  <2>. QED  BY <2>1, <2>2 DEF ChunkInv, Once, At, IdleStep, queueVars
<1>2. StdinInv' /\ StdoutInv'
  BY DEF TurnInv, IdleStep, queueVars, StdinInv, StdoutInv, Once, At
<1>3. TurnTracked' /\ CallsAreMadeInTurns'
  BY DEF TypeOK, TurnInv, IdleStep, queueVars, idVars, TurnTracked, InFlight, CallsAreMadeInTurns
<1>. QED  BY <1>1, <1>2, <1>3 DEF TurnInv

LEMMA IdleActions ==
    ASSUME TypeOK, LeaseInv, TurnInv,
           \/ Relay \/ DemuxNotifies \/ DemuxEof \/ AgentDies
           \/ \E c \in Clients : \/ Forward(c) \/ Connect(c) \/ HangUp(c)
                                 \/ ReaderStops(c) \/ ReaderNotifies(c)
                                 \/ ChunkSent(c) \/ SendFails(c)
           \/ \E k \in Calls : AgentGivesUp(k) \/ CallAges(k)
    PROVE  IdleStep
<1>. USE DEF IdleStep, queueVars, relayVars, openVars, idVars, readerVars, outVars, demuxVars,
             stdinVars, agentVars, TypeOK
<1>1. CASE GrantLease
  <2>1. candidate \in Clients /\ chunk[candidate] = <<>>
    BY <1>1 DEF GrantLease, LeaseInv, TurnInv, ChunkInv
  <2>. QED  BY <1>1, <2>1 DEF GrantLease
<1>2. CASE Relay /\ ~GrantLease
  BY <1>2 DEF Relay, RecvAttach, AcceptLoopEnds, CheckBoundary, Park, StealWaitExpires,
              RefuseSteal, Detach, NoticeDeath, EndRelay
<1>3. CASE DemuxNotifies \/ DemuxEof \/ AgentDies
  BY <1>3 DEF DemuxNotifies, DemuxEof, AgentDies
<1>4. ASSUME NEW c \in Clients, Forward(c) \/ Connect(c) \/ HangUp(c) PROVE IdleStep
  BY <1>4 DEF Forward, ForwarderTop, ForwardLane, ForwarderIdle, Connect, HangUp
<1>5. ASSUME NEW c \in Clients,
             ReaderStops(c) \/ ReaderNotifies(c) \/ ChunkSent(c) \/ SendFails(c)
      PROVE  IdleStep
  BY <1>5 DEF ReaderStops, StopSeen, ReaderNotifies, ChunkSent, SendFails, TurnInv, ChunkInv
<1>6. ASSUME NEW k \in Calls, AgentGivesUp(k) \/ CallAges(k) PROVE IdleStep
  BY <1>6 DEF AgentGivesUp, CallAges
<1>. QED  BY <1>1, <1>2, <1>3, <1>4, <1>5, <1>6

\* Reading: the prompts read were not sent before, so no queue holds them.
LEMMA ReadChunkTurnInv ==
    ASSUME TypeOK, TurnInv, NEW c \in Clients, ReadChunk(c)
    PROVE  TurnInv'
<1>1. PICK s \in Chunks(Sendable(c)) :
         /\ chunk' = [chunk EXCEPT ![c] = s]
         /\ owner' = [p \in Prompts |-> IF p \in PromptsIn(s) THEN c ELSE owner[p]]
         /\ prompt' = [p \in Prompts |-> IF p \in PromptsIn(s) THEN "read" ELSE prompt[p]]
  BY DEF ReadChunk
<1>2. /\ reader' = [reader EXCEPT ![c] = "track"]
      /\ UNCHANGED <<stdin, stdout, openTurns, rpcId, crossed, asking>>
  BY DEF ReadChunk, demuxVars, stdinVars, openVars, idVars, agentVars
<1>3. s \in Seq(Sendable(c)) /\ s \in Seq(ToAgent) /\ IsInjective(s)
  BY ChunksAreSequences, SendableTyped, SeqMonotonic
<1>4. \A f \in Sendable(c) : f.kind = "prompt" => /\ f.id \in Prompts
                                                 /\ prompt[f.id] = "unsent"
                                                 /\ f = [kind |-> "prompt", id |-> f.id]
  BY DEF Sendable
<1>5. \A i \in 1..Len(s) : s[i] \in Sendable(c)
  BY <1>3, ElementOfSeq
<1>6. \A p \in PromptsIn(s) : p \in Prompts /\ prompt[p] = "unsent"
  BY <1>3, <1>4, <1>5, FramesToAgent
<1>7. Once(s, {"prompt"})
  <2>1. DOMAIN s = 1..Len(s)
    BY <1>3, LenProperties
  <2>. QED  BY <1>3, <1>4, <1>5, <2>1 DEF Once, IsInjective
<1>8. \A p \in Prompts : prompt[p] # "unsent" => prompt'[p] = prompt[p] /\ owner'[p] = owner[p]
  BY <1>1, <1>6 DEF TypeOK
<1>9. ChunkInv(c)'
  <2>1. chunk'[c] = s /\ reader'[c] = "track"
    BY <1>1, <1>2 DEF TypeOK
  <2>2. \A i \in 1..Len(s) : s[i].kind = "prompt" => prompt'[s[i].id] = "read"
                                                  /\ owner'[s[i].id] = c
    BY <1>1, <1>3, FramesToAgent
  <2>. QED  BY <1>7, <2>1, <2>2 DEF ChunkInv, Once, At
<1>10. ASSUME NEW d \in Clients, d # c PROVE ChunkInv(d)'
  <2>1. chunk'[d] = chunk[d] /\ reader'[d] = reader[d]
    BY <1>1, <1>2, <1>10 DEF TypeOK
  <2>2. ChunkInv(d) /\ chunk[d] \in Seq(ToAgent)
    BY DEF TurnInv, TypeOK
  <2>3. \A i \in 1..Len(chunk[d]) : chunk[d][i].kind = "prompt" =>
            chunk[d][i].id \in Prompts /\ prompt[chunk[d][i].id] # "unsent"
    BY <2>2, FramesToAgent DEF ChunkInv, At
  <2>. QED  BY <1>8, <2>1, <2>2, <2>3 DEF ChunkInv, Once, At
<1>11. StdinInv' /\ StdoutInv'
  <2>1. \A i \in 1..Len(stdin) : stdin[i].kind = "prompt" => stdin[i].id \in Prompts
    BY FramesToAgent DEF TypeOK
  <2>2. \A i \in 1..Len(stdout) : stdout[i].kind \in {"stop", "error"} => stdout[i].id \in Prompts
    BY FramesFromAgent DEF TypeOK
  <2>. QED  BY <1>2, <1>8, <2>1, <2>2 DEF TurnInv, StdinInv, StdoutInv, Once, At
<1>12. TurnTracked' /\ CallsAreMadeInTurns'
  <2>1. TurnTracked'
    BY <1>1, <1>2, <1>8 DEF TypeOK, TurnInv, TurnTracked, InFlight
  <2>2. CallsAreMadeInTurns'
    BY <1>2, <1>8 DEF TypeOK, TurnInv, CallsAreMadeInTurns
  <2>. QED  BY <2>1, <2>2
<1>. QED  BY <1>9, <1>10, <1>11, <1>12 DEF TurnInv

\* Registering: the prompts of the chunk are the reader's own.
LEMMA TrackChunkTurnInv ==
    ASSUME TypeOK, TurnInv, NEW c \in Clients, TrackChunk(c)
    PROVE  TurnInv'
<1>1. /\ reader[c] = "track"
      /\ openTurns' = openTurns \cup {rpcId[p] : p \in PromptsIn(chunk[c])}
      /\ prompt' = [p \in Prompts |-> IF p \in PromptsIn(chunk[c]) THEN "held" ELSE prompt[p]]
      /\ UNCHANGED <<chunk, stdin, stdout, owner, rpcId, crossed, asking>>
      /\ reader'[c] \in {"notify", "send"}
      /\ \A d \in Clients : d # c => reader'[d] = reader[d]
  BY DEF TrackChunk, idVars, demuxVars, stdinVars, agentVars, TypeOK
<1>2. ChunkInv(c) /\ chunk[c] \in Seq(ToAgent)
  BY DEF TurnInv, TypeOK
<1>3. \A p \in PromptsIn(chunk[c]) : p \in Prompts /\ prompt[p] = "read" /\ owner[p] = c
  <2>1. reader[c] = "track"
    BY DEF TrackChunk
  <2>. QED  BY <1>2, <2>1, FramesToAgent DEF ChunkInv, At
<1>4. ChunkInv(c)'
  <2>1. \A i \in 1..Len(chunk[c]) : chunk[c][i].kind = "prompt" =>
            prompt'[chunk[c][i].id] = "held"
    BY <1>1, <1>2, FramesToAgent
  <2>2. chunk' = chunk /\ owner' = owner /\ reader'[c] \notin {"off", "read", "track"}
    BY <1>1
  <2>3. Once(chunk[c], {"prompt"})'
    BY <1>2, <2>2 DEF ChunkInv, Once
  <2>4. At(chunk[c], {"prompt"}, "held")'
    BY <2>1, <2>2 DEF At
  <2>5. \A i \in 1..Len(chunk'[c]) :
            chunk'[c][i].kind = "prompt" => owner'[chunk'[c][i].id] = c
    BY <1>2, <2>2 DEF ChunkInv
  <2>. QED  BY <2>2, <2>3, <2>4, <2>5 DEF ChunkInv
<1>5. ASSUME NEW d \in Clients, d # c PROVE ChunkInv(d)'
  <2>1. ChunkInv(d) /\ chunk[d] \in Seq(ToAgent)
    BY DEF TurnInv, TypeOK
  <2>2. \A i \in 1..Len(chunk[d]) : chunk[d][i].kind = "prompt" =>
            prompt'[chunk[d][i].id] = prompt[chunk[d][i].id]
    BY <1>1, <1>3, <1>5, <2>1, FramesToAgent DEF ChunkInv
  <2>. QED  BY <1>1, <1>5, <2>1, <2>2 DEF ChunkInv, Once, At
<1>6. StdinInv' /\ StdoutInv'
  <2>1. \A i \in 1..Len(stdin) : stdin[i].kind = "prompt" =>
            prompt'[stdin[i].id] = prompt[stdin[i].id]
    BY <1>1, <1>3, FramesToAgent DEF TurnInv, StdinInv, At, TypeOK
  <2>2. \A i \in 1..Len(stdout) : stdout[i].kind \in {"stop", "error"} =>
            prompt'[stdout[i].id] = prompt[stdout[i].id]
    BY <1>1, <1>3, FramesFromAgent DEF TurnInv, StdoutInv, At, TypeOK
  <2>. QED  BY <1>1, <2>1, <2>2 DEF TurnInv, StdinInv, StdoutInv, Once, At
<1>7. TurnTracked'
  BY <1>1 DEF TypeOK, TurnInv, TurnTracked, InFlight
<1>8. CallsAreMadeInTurns'
  BY <1>1, <1>3 DEF TypeOK, TurnInv, CallsAreMadeInTurns
<1>. QED  BY <1>4, <1>5, <1>6, <1>7, <1>8 DEF TurnInv

\* Handing on: the head of one chunk becomes the last of the stdin channel.
LEMMA SendFrameTurnInv ==
    ASSUME TypeOK, TurnInv, NEW c \in Clients, SendFrame(c)
    PROVE  TurnInv'
<1>. DEFINE f == Head(chunk[c])
<1>1. /\ reader[c] = "send"
      /\ chunk[c] # <<>>
      /\ chunk[c] \in Seq(ToAgent)
      /\ ChunkInv(c)
      /\ stdin \in Seq(ToAgent)
  BY DEF SendFrame, TypeOK, TurnInv
<1>2. /\ f = chunk[c][1] /\ 1 \in 1..Len(chunk[c])
      /\ f \in ToAgent
      /\ Tail(chunk[c]) \in Seq(ToAgent)
  BY <1>1, HeadTailProperties, EmptySeq, LenProperties
<1>3. \A p : p \in PromptsIn(<<f>>) <=> f.kind = "prompt" /\ f.id = p
  BY DEF PromptsIn, Range
<1>4. /\ stdin' = Append(stdin, f)
      /\ chunk' = [chunk EXCEPT ![c] = Tail(@)]
      /\ \A p \in Prompts : prompt'[p] = IF f.kind = "prompt" /\ f.id = p THEN "stdin"
                                         ELSE prompt[p]
      /\ UNCHANGED <<reader, stdout, owner, openTurns, rpcId, crossed, asking>>
  BY <1>3 DEF SendFrame, openVars, idVars, demuxVars, agentVars
<1>5. f.kind = "prompt" => f.id \in Prompts /\ prompt[f.id] = "held" /\ owner[f.id] = c
  BY <1>1, <1>2, FramesToAgent DEF ChunkInv, At
<1>6. ChunkInv(c)'
  <2>1. chunk'[c] = Tail(chunk[c]) /\ reader'[c] = "send" /\ UNCHANGED owner
    BY <1>1, <1>4 DEF TypeOK
  <2>2. /\ Once(Tail(chunk[c]), {"prompt"})
        /\ \A i \in 1..Len(Tail(chunk[c])) :
              Tail(chunk[c])[i].kind = "prompt" /\ f.kind = "prompt" =>
                  Tail(chunk[c])[i].id # f.id
    BY <1>1, TailOnce DEF ChunkInv
  <2>3. \A i \in 1..Len(Tail(chunk[c])) :
           Tail(chunk[c])[i].kind = "prompt" => /\ prompt[Tail(chunk[c])[i].id] = "held"
                                               /\ owner[Tail(chunk[c])[i].id] = c
                                               /\ Tail(chunk[c])[i].id \in Prompts
    <3>1. /\ Len(Tail(chunk[c])) = Len(chunk[c]) - 1
          /\ \A i \in 1..Len(Tail(chunk[c])) : Tail(chunk[c])[i] = chunk[c][i + 1]
      BY <1>1, HeadTailProperties
    <3>2. \A i \in 1..Len(Tail(chunk[c])) : i + 1 \in 1..Len(chunk[c])
      BY <1>1, <3>1, LenProperties
    <3>. QED  BY <1>1, <3>1, <3>2, FramesToAgent DEF ChunkInv, At
  <2>4. \A i \in 1..Len(Tail(chunk[c])) :
           Tail(chunk[c])[i].kind = "prompt" => prompt'[Tail(chunk[c])[i].id] = "held"
    BY <1>4, <2>2, <2>3
  <2>. QED  BY <2>1, <2>2, <2>3, <2>4 DEF ChunkInv, Once, At
<1>7. ASSUME NEW d \in Clients, d # c PROVE ChunkInv(d)'
  <2>1. /\ chunk'[d] = chunk[d] /\ reader'[d] = reader[d] /\ UNCHANGED owner
        /\ ChunkInv(d) /\ chunk[d] \in Seq(ToAgent)
    BY <1>4, <1>7 DEF TypeOK, TurnInv
  <2>2. \A i \in 1..Len(chunk[d]) : chunk[d][i].kind = "prompt" =>
            prompt'[chunk[d][i].id] = prompt[chunk[d][i].id]
    BY <1>4, <1>5, <1>7, <2>1, FramesToAgent DEF ChunkInv
  <2>. QED  BY <2>1, <2>2 DEF ChunkInv, Once, At
<1>8. StdinInv'
  <2>1. \A i \in 1..Len(stdin) : stdin[i].kind = "prompt" =>
            /\ stdin[i].id \in Prompts
            /\ prompt[stdin[i].id] = "stdin"
    BY <1>1, FramesToAgent DEF TurnInv, StdinInv, At
  <2>2. Once(Append(stdin, f), {"prompt"})
    <3>1. Once(stdin, {"prompt"})
      BY DEF TurnInv, StdinInv
    <3>. HIDE DEF f
    <3>. QED  BY <1>1, <1>2, <1>5, <2>1, <3>1, AppendOnce
  <2>3. /\ \A i \in 1..Len(stdin) : stdin[i].kind \in {"prompt"} => prompt'[stdin[i].id] = "stdin"
        /\ f.kind \in {"prompt"} => prompt'[f.id] = "stdin"
    BY <1>4, <1>5, <2>1
  <2>4. \A i \in 1..Len(Append(stdin, f)) : Append(stdin, f)[i].kind \in {"prompt"} =>
            prompt'[Append(stdin, f)[i].id] = "stdin"
    <3>. HIDE DEF f
    <3>. QED  BY <1>1, <1>2, <2>3, AppendAt
  <2>. HIDE DEF f
  <2>. QED  BY <1>4, <2>2, <2>4 DEF StdinInv, Once, At
<1>9. StdoutInv'
  <2>1. \A i \in 1..Len(stdout) : stdout[i].kind \in {"stop", "error"} =>
            prompt'[stdout[i].id] = prompt[stdout[i].id]
    BY <1>4, <1>5, FramesFromAgent DEF TurnInv, StdoutInv, At, TypeOK
  <2>. QED  BY <1>4, <2>1 DEF TurnInv, StdoutInv, Once, At
<1>10. TurnTracked'
  BY <1>4, <1>5 DEF TypeOK, TurnInv, TurnTracked, InFlight
<1>11. CallsAreMadeInTurns'
  BY <1>4, <1>5 DEF TypeOK, TurnInv, CallsAreMadeInTurns
<1>. QED  BY <1>6, <1>7, <1>8, <1>9, <1>10, <1>11 DEF TurnInv

\* A step that takes one prompt p from one stage to another leaves every
\* queue alone in which p is not.
LEMMA OthersKeepTheirStage ==
    ASSUME TypeOK, TurnInv, NEW p \in Prompts,
           prompt[p] \in {"stdin", "working", "replied"},
           \A q \in Prompts : q # p => prompt'[q] = prompt[q],
           UNCHANGED <<chunk, reader, owner>>
    PROVE  /\ \A c \in Clients : ChunkInv(c)'
           /\ prompt[p] # "stdin" /\ stdin' = stdin => StdinInv'
           /\ prompt[p] # "replied" /\ stdout' = stdout => StdoutInv'
<1>1. ASSUME NEW c \in Clients PROVE ChunkInv(c)'
  <2>1. ChunkInv(c) /\ chunk[c] \in Seq(ToAgent)
    BY DEF TypeOK, TurnInv
  <2>2. \A i \in 1..Len(chunk[c]) : chunk[c][i].kind = "prompt" =>
            prompt'[chunk[c][i].id] = prompt[chunk[c][i].id]
    BY <2>1, FramesToAgent DEF ChunkInv, At
  <2>. QED  BY <2>1, <2>2 DEF ChunkInv, Once, At
<1>2. ASSUME prompt[p] # "stdin", stdin' = stdin PROVE StdinInv'
  <2>1. \A i \in 1..Len(stdin) : stdin[i].kind = "prompt" =>
            prompt'[stdin[i].id] = prompt[stdin[i].id]
    BY <1>2, FramesToAgent DEF TypeOK, TurnInv, StdinInv, At
  <2>. QED  BY <1>2, <2>1 DEF TurnInv, StdinInv, Once, At
<1>3. ASSUME prompt[p] # "replied", stdout' = stdout PROVE StdoutInv'
  <2>1. \A i \in 1..Len(stdout) : stdout[i].kind \in {"stop", "error"} =>
            prompt'[stdout[i].id] = prompt[stdout[i].id]
    BY <1>3, FramesFromAgent DEF TypeOK, TurnInv, StdoutInv, At
  <2>. QED  BY <1>3, <2>1 DEF TurnInv, StdoutInv, Once, At
<1>. QED  BY <1>1, <1>2, <1>3

\* The writer gives the agent the frame at the head of its channel.
LEMMA WriterTurnInv ==
    ASSUME TypeOK, TurnInv, WriteFrame \/ WriteFails
    PROVE  TurnInv'
<1>1. CASE WriteFrame
  <2>. DEFINE f == Head(stdin)
  <2>1. /\ stdin # <<>> /\ stdin \in Seq(ToAgent)
        /\ f = stdin[1] /\ 1 \in 1..Len(stdin)
        /\ stdin' = Tail(stdin)
        /\ f.kind \in {"prompt", "answer"}
        /\ Once(stdin, {"prompt"}) /\ At(stdin, {"prompt"}, "stdin")
    BY <1>1, FramesToAgent, EmptySeq, HeadTailProperties DEF WriteFrame, TypeOK, TurnInv, StdinInv
  <2>2. /\ UNCHANGED <<chunk, reader, owner, stdout, openTurns, rpcId, crossed>>
        /\ \/ f.kind = "prompt" /\ prompt' = [prompt EXCEPT ![f.id] = "working"] /\ asking' = asking
           \/ f.kind = "answer" /\ prompt' = prompt /\ asking' = [asking EXCEPT ![f.id] = None]
    BY <1>1 DEF WriteFrame, readerVars, demuxVars, openVars, idVars
  <2>3. /\ Once(Tail(stdin), {"prompt"})
        /\ \A i \in 1..Len(Tail(stdin)) :
              Tail(stdin)[i].kind \in {"prompt"} /\ f.kind \in {"prompt"} =>
                  Tail(stdin)[i].id # f.id
    BY <2>1, TailOnce
  <2>4. CASE f.kind = "answer"
    <3>1. Tail(stdin) \in Seq(ToAgent) /\ prompt' = prompt
      BY <2>1, <2>2, <2>4, HeadTailProperties
    <3>2. \A i \in 1..Len(Tail(stdin)) : Tail(stdin)[i].kind \in {"prompt"} =>
              prompt'[Tail(stdin)[i].id] = "stdin"
      BY <2>1, <3>1, TailAt
    <3>3. StdinInv'
      BY <2>1, <2>3, <3>2 DEF StdinInv, Once, At
    <3>4. (\A c \in Clients : ChunkInv(c)') /\ StdoutInv'
      <4>1. chunk' = chunk /\ reader' = reader /\ owner' = owner /\ stdout' = stdout
        BY <2>2
      <4>. QED  BY <3>1, <4>1 DEF TurnInv, ChunkInv, StdoutInv, Once, At
    <3>5. TurnTracked'
      BY <2>2, <2>4 DEF TypeOK, TurnInv, TurnTracked, InFlight
    <3>6. CallsAreMadeInTurns'
      <4>1. \A k \in Calls : asking'[k] \in {asking[k], None}
        BY <2>2, <2>4 DEF TypeOK
      <4>. QED  BY <3>1, <4>1 DEF TurnInv, CallsAreMadeInTurns
    <3>. QED  BY <3>3, <3>4, <3>5, <3>6 DEF TurnInv
  <2>5. CASE f.kind = "prompt"
    <3>1. f.id \in Prompts /\ prompt[f.id] = "stdin"
      BY <2>1, <2>5, FramesToAgent DEF At
    <3>2. \A q \in Prompts : prompt'[q] = IF q = f.id THEN "working" ELSE prompt[q]
      BY <2>2, <2>5, <3>1 DEF TypeOK
    <3>3. (\A c \in Clients : ChunkInv(c)') /\ StdoutInv'
      <4>. HIDE DEF f
      <4>. QED  BY <2>2, <3>1, <3>2, OthersKeepTheirStage
    <3>4. StdinInv'
      <4>1. Tail(stdin) \in Seq(ToAgent)
        BY <2>1, HeadTailProperties
      <4>2. \A i \in 1..Len(Tail(stdin)) : Tail(stdin)[i].kind \in {"prompt"} =>
                prompt'[Tail(stdin)[i].id] = prompt[Tail(stdin)[i].id]
        BY <2>3, <2>5, <3>2, <4>1, FramesToAgent
      <4>3. \A i \in 1..Len(Tail(stdin)) : Tail(stdin)[i].kind \in {"prompt"} =>
                prompt'[Tail(stdin)[i].id] = "stdin"
        BY <2>1, <4>2, TailAt
      <4>. QED  BY <2>1, <2>3, <4>3 DEF StdinInv, Once, At
    <3>5. TurnTracked' /\ CallsAreMadeInTurns'
      BY <2>2, <2>5, <3>1, <3>2 DEF TypeOK, TurnInv, TurnTracked, InFlight, CallsAreMadeInTurns
    <3>. QED  BY <3>3, <3>4, <3>5 DEF TurnInv
  <2>. QED  BY <2>1, <2>4, <2>5
<1>2. CASE WriteFails
  <2>1. stdin' = <<>> /\ UNCHANGED <<chunk, reader, owner, prompt, stdout, openTurns, rpcId,
                                crossed, asking>>
    BY <1>2 DEF WriteFails, readerVars, demuxVars, openVars, idVars, agentVars
  <2>2. StdinInv'
    BY <2>1 DEF StdinInv, Once, At
  <2>. QED  BY <2>1, <2>2 DEF TurnInv, ChunkInv, StdoutInv, Once, At, TurnTracked, InFlight,
                              CallsAreMadeInTurns
<1>. QED  BY <1>1, <1>2

\* The demultiplexer closes the turn of the reply at the head of stdout.
LEMMA DemuxFrameTurnInv ==
    ASSUME TypeOK, TurnInv, DemuxFrame
    PROVE  TurnInv'
<1>. DEFINE f == Head(stdout)
<1>. DEFINE R == {"stop", "error"}
<1>1. /\ stdout # <<>> /\ stdout \in Seq(FromAgent)
      /\ f = stdout[1] /\ 1 \in 1..Len(stdout)
      /\ stdout' = Tail(stdout)
      /\ Tail(stdout) \in Seq(FromAgent)
      /\ f.kind \in {"call", "stop", "error"}
      /\ Once(stdout, R) /\ At(stdout, R, "replied")
  BY FramesFromAgent, EmptySeq, HeadTailProperties DEF DemuxFrame, TypeOK, TurnInv, StdoutInv
<1>2. /\ UNCHANGED <<chunk, reader, owner, stdin, rpcId, asking>>
      /\ openTurns' = TurnsAfter(f)
      /\ crossed' = IF f.kind = "stop" THEN crossed \cup CrossedBy(f) ELSE crossed
      /\ prompt' = PromptAfter(f)
  BY DEF DemuxFrame, readerVars, stdinVars, agentVars
<1>3. /\ Once(Tail(stdout), R)
      /\ \A i \in 1..Len(Tail(stdout)) :
            Tail(stdout)[i].kind \in R /\ f.kind \in R => Tail(stdout)[i].id # f.id
  BY <1>1, TailOnce
<1>4. CASE f.kind = "call"
  <2>1. prompt' = prompt /\ openTurns' = openTurns /\ crossed' = crossed
    BY <1>2, <1>4 DEF TurnsAfter, PromptAfter
  <2>2. \A i \in 1..Len(Tail(stdout)) : Tail(stdout)[i].kind \in R =>
            prompt'[Tail(stdout)[i].id] = "replied"
    BY <1>1, <2>1, TailAt
  <2>3. StdoutInv'
    BY <1>1, <1>3, <2>2 DEF StdoutInv, Once, At
  <2>. QED  BY <1>2, <2>1, <2>3 DEF TurnInv, ChunkInv, StdinInv, Once, At, TurnTracked, InFlight,
                                    CallsAreMadeInTurns
<1>5. CASE f.kind \in R
  <2>1. f.id \in Prompts /\ prompt[f.id] = "replied"
    BY <1>1, <1>5, FramesFromAgent DEF At
  <2>2. /\ prompt'[f.id] \in {"closed", "failed"}
        /\ \A q \in Prompts : q # f.id => prompt'[q] = prompt[q]
    BY <1>2, <1>5, <2>1 DEF PromptAfter, TypeOK
  <2>3. (\A c \in Clients : ChunkInv(c)') /\ StdinInv'
    <3>. HIDE DEF f
    <3>. QED  BY <1>2, <2>1, <2>2, OthersKeepTheirStage
  <2>4. StdoutInv'
    <3>1. \A i \in 1..Len(Tail(stdout)) : Tail(stdout)[i].kind \in R =>
              prompt'[Tail(stdout)[i].id] = prompt[Tail(stdout)[i].id]
      BY <1>1, <1>3, <1>5, <2>2, FramesFromAgent
    <3>2. \A i \in 1..Len(Tail(stdout)) : Tail(stdout)[i].kind \in R =>
              prompt'[Tail(stdout)[i].id] = "replied"
      BY <1>1, <3>1, TailAt
    <3>. QED  BY <1>1, <1>3, <3>2 DEF StdoutInv, Once, At
  \* A reply that removes the entry of another turn has crossed with it.
  <2>5. ASSUME NEW q \in Prompts, InFlight(q)'
        PROVE  rpcId'[q] \in openTurns' \/ q \in crossed'
    <3>1. q # f.id /\ InFlight(q) /\ (rpcId[q] \in openTurns \/ q \in crossed)
      BY <2>2, <2>5 DEF InFlight, TurnInv, TurnTracked
    <3>. QED  BY <1>2, <3>1 DEF TurnsAfter, CrossedBy
  <2>6. TurnTracked'
    BY <2>5 DEF TurnTracked
  <2>7. CallsAreMadeInTurns'
    BY <1>2, <2>1, <2>2 DEF TypeOK, TurnInv, CallsAreMadeInTurns
  <2>. QED  BY <2>3, <2>4, <2>6, <2>7 DEF TurnInv
<1>. QED  BY <1>1, <1>4, <1>5

LEMMA AgentCallsTurnInv ==
    ASSUME TypeOK, TurnInv, NEW k \in Calls, NEW p \in Prompts, AgentCalls(k, p)
    PROVE  TurnInv'
<1>. DEFINE f == [kind |-> "call", id |-> k]
<1>1. /\ prompt[p] = "working"
      /\ asking' = [asking EXCEPT ![k] = p]
      /\ stdout' = Append(stdout, f)
      /\ UNCHANGED <<chunk, reader, owner, stdin, openTurns, rpcId, crossed, prompt>>
  BY DEF AgentCalls, readerVars, stdinVars, openVars, idVars
<1>2. f \in FromAgent /\ f.kind = "call" /\ stdout \in Seq(FromAgent)
  BY DEF FromAgent, CallFrame, TypeOK
<1>3. StdoutInv'
  <2>. HIDE DEF f
  <2>1. Once(Append(stdout, f), {"stop", "error"})
    BY <1>2, AppendOnce DEF TurnInv, StdoutInv
  <2>2. \A i \in 1..Len(Append(stdout, f)) : Append(stdout, f)[i].kind \in {"stop", "error"} =>
            prompt'[Append(stdout, f)[i].id] = "replied"
    BY <1>1, <1>2, AppendAt DEF TurnInv, StdoutInv, At
  <2>. QED  BY <1>1, <2>1, <2>2 DEF StdoutInv, Once, At
<1>4. (\A c \in Clients : ChunkInv(c)') /\ StdinInv'
  BY <1>1 DEF TurnInv, ChunkInv, StdinInv, Once, At
<1>5. TurnTracked' /\ CallsAreMadeInTurns'
  BY <1>1 DEF TypeOK, TurnInv, TurnTracked, InFlight, CallsAreMadeInTurns
<1>. QED  BY <1>3, <1>4, <1>5 DEF TurnInv

LEMMA AgentRepliesTurnInv ==
    ASSUME TypeOK, TurnInv, NEW p \in Prompts, NEW kind \in ReplyKinds, AgentReplies(p, kind)
    PROVE  TurnInv'
<1>. DEFINE f == [kind |-> kind, id |-> p]
<1>1. /\ prompt[p] = "working"
      /\ \A k \in Calls : asking[k] # p
      /\ prompt' = [prompt EXCEPT ![p] = "replied"]
      /\ stdout' = Append(stdout, f)
      /\ UNCHANGED <<chunk, reader, owner, stdin, openTurns, rpcId, crossed, asking>>
  BY DEF AgentReplies, readerVars, stdinVars, openVars, idVars, agentVars
<1>2. f \in FromAgent /\ f.id = p /\ stdout \in Seq(FromAgent)
  BY DEF FromAgent, ReplyFrame, TypeOK
<1>3. \A q \in Prompts : prompt'[q] = IF q = p THEN "replied" ELSE prompt[q]
  BY <1>1 DEF TypeOK
<1>4. StdoutInv'
  <2>. HIDE DEF f
  <2>1. \A i \in 1..Len(stdout) : stdout[i].kind \in {"stop", "error"} =>
            /\ stdout[i].id \in Prompts
            /\ prompt[stdout[i].id] = "replied"
            /\ stdout[i].id # p
    BY <1>1, <1>2, FramesFromAgent DEF TurnInv, StdoutInv, At
  <2>2. Once(Append(stdout, f), {"stop", "error"})
    BY <1>2, <2>1, AppendOnce DEF TurnInv, StdoutInv
  <2>3. \A i \in 1..Len(Append(stdout, f)) : Append(stdout, f)[i].kind \in {"stop", "error"} =>
            prompt'[Append(stdout, f)[i].id] = "replied"
    BY <1>2, <1>3, <2>1, AppendAt
  <2>. QED  BY <1>1, <2>2, <2>3 DEF StdoutInv, Once, At
<1>5. (\A c \in Clients : ChunkInv(c)') /\ StdinInv'
  BY <1>1, <1>3, OthersKeepTheirStage
<1>6. TurnTracked' /\ CallsAreMadeInTurns'
  BY <1>1, <1>3 DEF TypeOK, TurnInv, TurnTracked, InFlight, CallsAreMadeInTurns
<1>. QED  BY <1>4, <1>5, <1>6 DEF TurnInv

LEMMA TurnInvInductive ==
    /\ Init => TurnInv
    /\ TypeOK /\ LeaseInv /\ TurnInv /\ [Next]_vars => TurnInv'
<1>1. Init => TurnInv
  BY DEF Init, TurnInv, ChunkInv, StdinInv, StdoutInv, TurnTracked, InFlight,
         CallsAreMadeInTurns, Once, At
<1>2. ASSUME TypeOK, LeaseInv, TurnInv, [Next]_vars PROVE TurnInv'
  <2>1. CASE UNCHANGED vars
    <3>1. IdleStep
      BY <2>1 DEF vars, IdleStep, queueVars, readerVars, demuxVars, stdinVars, openVars,
                  idVars, agentVars
    <3>. QED  BY <1>2, <3>1, IdleStepTurnInv
  <2>2. CASE Next
    BY <1>2, <2>2, IdleActions, IdleStepTurnInv, ReadChunkTurnInv, TrackChunkTurnInv,
       SendFrameTurnInv, WriterTurnInv, DemuxFrameTurnInv, AgentCallsTurnInv,
       AgentRepliesTurnInv DEF Next, ReaderStep, Demux, Environment
  <2>. QED  BY <1>2, <2>1, <2>2
<1>. QED  BY <1>1, <1>2

\* When open_turns is empty nothing is in flight and the agent waits for no
\* answer, but for a turn whose id another client's turn had too: the check
\* that wait_turn_boundary makes is the right one, for any number of clients,
\* prompts, ids, calls and queued frames.
THEOREM BoundaryMeansQuiet == Spec => []BoundaryIsQuiet
<1>1. TypeOK /\ TurnInv => BoundaryIsQuiet
  BY DEF TypeOK, TurnInv, TurnTracked, CallsAreMadeInTurns, BoundaryIsQuiet, InFlight
<1>. QED  BY TypeCorrect, LeaseInvInductive, TurnInvInductive, <1>1, PTL DEF Spec

(***************************************************************************)
(* What keeps a steal waiting                                              *)
(***************************************************************************)

\* A prompt that accounts for an entry of open_turns.
Keeps(p) == InFlight(p) \/ prompt[p] = "failed"

EntriesAreOfTurns == \A i \in openTurns : \E p \in Prompts : rpcId[p] = i /\ Keeps(p)

\* A step that adds entries only with their prompts, and after which a prompt
\* accounts for its entry still, if the entry is there.
KeepingStep ==
    /\ rpcId' = rpcId
    /\ \A i \in openTurns' \ openTurns : \E p \in Prompts : rpcId[p] = i /\ Keeps(p)'
    /\ \A p \in Prompts : Keeps(p) => Keeps(p)' \/ rpcId[p] \notin openTurns'

LEMMA KeepingStepKeeps == EntriesAreOfTurns /\ KeepingStep => EntriesAreOfTurns'
BY DEF EntriesAreOfTurns, KeepingStep

\* Only what reads, registers, hands on, writes or answers a prompt moves it.
LEMMA QuietStepsKeep ==
    ASSUME UNCHANGED <<prompt, openTurns, rpcId>> PROVE KeepingStep
BY DEF KeepingStep, Keeps, InFlight

LEMMA ReaderKeeps ==
    ASSUME TypeOK, NEW c \in Clients, ReadChunk(c) \/ TrackChunk(c) \/ SendFrame(c)
    PROVE  KeepingStep
<1>. USE DEF TypeOK, Keeps, InFlight
<1>1. CASE ReadChunk(c)
  <2>1. PICK s \in Chunks(Sendable(c)) :
           prompt' = [p \in Prompts |-> IF p \in PromptsIn(s) THEN "read" ELSE prompt[p]]
    BY <1>1 DEF ReadChunk
  <2>2. s \in Seq(Sendable(c))
    BY ChunksAreSequences
  <2>3. \A p \in PromptsIn(s) : prompt[p] = "unsent"
    BY <2>2 DEF PromptsIn, Range, Sendable
  <2>4. openTurns' = openTurns /\ rpcId' = rpcId
    BY <1>1 DEF ReadChunk, openVars, idVars
  <2>. QED  BY <2>1, <2>3, <2>4 DEF KeepingStep
<1>2. CASE TrackChunk(c)
  <2>1. PromptsIn(chunk[c]) \subseteq Prompts
    BY IdsOfFrames
  <2>2. \A p \in Prompts : prompt'[p] = IF p \in PromptsIn(chunk[c]) THEN "held" ELSE prompt[p]
    BY <1>2 DEF TrackChunk
  <2>3. openTurns' = openTurns \cup {rpcId[p] : p \in PromptsIn(chunk[c])} /\ rpcId' = rpcId
    BY <1>2 DEF TrackChunk, idVars
  <2>. QED  BY <2>1, <2>2, <2>3 DEF KeepingStep
<1>3. CASE SendFrame(c)
  <2>1. \A p \in Prompts : prompt'[p] \in {"stdin", prompt[p]}
    BY <1>3 DEF SendFrame
  <2>2. openTurns' = openTurns /\ rpcId' = rpcId
    BY <1>3 DEF SendFrame, openVars, idVars
  <2>. QED  BY <2>1, <2>2 DEF KeepingStep
<1>. QED  BY <1>1, <1>2, <1>3

LEMMA AgentKeeps ==
    ASSUME TypeOK, \/ WriteFrame
                   \/ \E p \in Prompts, kind \in ReplyKinds : AgentReplies(p, kind)
    PROVE  KeepingStep
<1>. USE DEF TypeOK, Keeps, InFlight
<1>1. \A p \in Prompts : prompt'[p] \in {"working", "replied", prompt[p]}
  <2>1. CASE WriteFrame
    BY <2>1 DEF WriteFrame
  <2>2. ASSUME NEW q \in Prompts, NEW kind \in ReplyKinds, AgentReplies(q, kind)
        PROVE  \A p \in Prompts : prompt'[p] \in {"working", "replied", prompt[p]}
    BY <2>2 DEF AgentReplies
  <2>. QED  BY <2>1, <2>2
<1>2. openTurns' = openTurns /\ rpcId' = rpcId
  BY DEF WriteFrame, AgentReplies, openVars, idVars
<1>. QED  BY <1>1, <1>2 DEF KeepingStep

\* A reply takes away the entry of the prompt that it closes.
LEMMA DemuxKeeps == ASSUME TypeOK, DemuxFrame PROVE KeepingStep
<1>. USE DEF Keeps, InFlight
<1>1. PICK f : f = Head(stdout)
  OBVIOUS
<1>2. f \in FromAgent
  BY <1>1, HeadTailTyped DEF TypeOK, DemuxFrame
<1>3. rpcId' = rpcId /\ openTurns' = TurnsAfter(f) /\ prompt' = PromptAfter(f)
  BY <1>1 DEF DemuxFrame
<1>4. CASE f.kind = "stop"
  <2>1. f.id \in Prompts
    BY <1>2, <1>4 DEF FromAgent, CallFrame, ReplyFrame
  <2>2. \A p \in Prompts : p # f.id => prompt'[p] = prompt[p]
    BY <1>3, <1>4 DEF PromptAfter, TypeOK
  <2>3. openTurns' = openTurns \ {rpcId[f.id]}
    BY <1>3, <1>4 DEF TurnsAfter
  <2>. QED  BY <1>3, <2>1, <2>2, <2>3 DEF KeepingStep
<1>5. CASE f.kind # "stop"
  <2>1. \A p \in Prompts : prompt'[p] \in {"failed", prompt[p]}
    BY <1>3, <1>5 DEF PromptAfter, TypeOK
  <2>2. openTurns' = openTurns
    BY <1>3, <1>5 DEF TurnsAfter
  <2>. QED  BY <1>3, <2>1, <2>2 DEF KeepingStep
<1>. QED  BY <1>4, <1>5

LEMMA EntriesInductive ==
    /\ Init => EntriesAreOfTurns
    /\ TypeOK /\ EntriesAreOfTurns /\ [Next]_vars => EntriesAreOfTurns'
<1>1. Init => EntriesAreOfTurns
  BY DEF Init, EntriesAreOfTurns
<1>2. ASSUME TypeOK, [Next]_vars PROVE KeepingStep
  <2>1. CASE UNCHANGED vars
    BY <2>1, QuietStepsKeep DEF vars, openVars, idVars
  <2>2. CASE Relay
    <3>1. UNCHANGED <<prompt, openTurns, rpcId>>
      BY <2>2 DEF Relay, RecvAttach, AcceptLoopEnds, CheckBoundary, Park, StealWaitExpires,
         RefuseSteal, GrantLease, Detach, NoticeDeath, EndRelay, openVars, idVars
    <3>. QED  BY <3>1, QuietStepsKeep
  <2>3. ASSUME NEW c \in Clients, ReaderStep(c) \/ Forward(c) \/ Connect(c) \/ HangUp(c)
                                  \/ ReadChunk(c)
        PROVE  KeepingStep
    <3>1. CASE ReadChunk(c) \/ TrackChunk(c) \/ SendFrame(c)
      BY <1>2, <3>1, ReaderKeeps
    <3>2. CASE \/ ReaderStops(c) \/ ReaderNotifies(c) \/ ChunkSent(c) \/ SendFails(c)
               \/ Forward(c) \/ Connect(c) \/ HangUp(c)
      <4>1. UNCHANGED <<prompt, openTurns, rpcId>>
        BY <3>2 DEF ReaderStops, ReaderNotifies, ChunkSent, SendFails, Forward, ForwarderTop,
           ForwardLane, ForwarderIdle, Connect, HangUp, openVars, idVars
      <4>. QED  BY <4>1, QuietStepsKeep
    <3>. QED  BY <2>3, <3>1, <3>2 DEF ReaderStep
  <2>4. CASE \/ WriteFails \/ DemuxNotifies \/ DemuxEof \/ AgentDies
             \/ \E k \in Calls : \/ AgentGivesUp(k) \/ CallAges(k)
                                 \/ \E p \in Prompts : AgentCalls(k, p)
    <3>1. UNCHANGED <<prompt, openTurns, rpcId>>
      BY <2>4 DEF WriteFails, DemuxNotifies, DemuxEof, AgentDies, AgentGivesUp, CallAges,
         AgentCalls, openVars, idVars
    <3>. QED  BY <3>1, QuietStepsKeep
  <2>5. CASE DemuxFrame
    BY <1>2, <2>5, DemuxKeeps
  <2>6. CASE WriteFrame \/ \E p \in Prompts, kind \in ReplyKinds : AgentReplies(p, kind)
    BY <1>2, <2>6, AgentKeeps
  <2>. QED  BY <1>2, <2>1, <2>2, <2>3, <2>4, <2>5, <2>6 DEF Next, Demux, Environment
<1>. QED  BY <1>1, <1>2, KeepingStepKeeps

\* What refuses a steal is a turn (relay.rs:117-119): every id in open_turns is
\* that of a prompt that is on its way, being worked on, or ended in an error, so
\* no turn that ended with a stopReason keeps the lease from changing hands.
THEOREM EntriesAreLive == Spec => []OpenTurnIsLive
<1>1. EntriesAreOfTurns => OpenTurnIsLive
  BY DEF EntriesAreOfTurns, OpenTurnIsLive, Keeps
<1>. QED  BY TypeCorrect, EntriesInductive, <1>1, PTL DEF Spec
=============================================================================

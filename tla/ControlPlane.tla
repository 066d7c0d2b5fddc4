---------------------------- MODULE ControlPlane ----------------------------
(***************************************************************************)
(* The supervisor's control plane (src/src/supervisor.rs): the handlers of *)
(* control connections, which ask the relays for leases with the pool's    *)
(* mutex held, the accept loop of each agent's data socket, and the part   *)
(* of relay_main (src/src/relay.rs) that keeps the holder tags.  How a     *)
(* steal waits for its boundary is RelayLease's business: here the wait    *)
(* ends either way.  The pool only shrinks; spawning is PoolFiles.         *)
(*                                                                         *)
(* A holder is one orchestrator: it makes control requests one after the   *)
(* other, as many as it likes, and connects to a data socket once.  What   *)
(* an events stream carries is left out.                                   *)
(***************************************************************************)
EXTENDS Naturals, Sequences, FiniteSets, SequencesExt

CONSTANTS
    Holders,
    Agents,
    Asks,         \* the verbs a holder uses (a bound)
    CmdCap,       \* commands a relay's channel holds (32 in the code)
    None

Verbs == {"attach", "detach", "list", "kill", "events"}

ASSUME NamesAssumption == /\ Holders \cap Agents = {}
                          /\ None \notin Holders \cup Agents
ASSUME AsksAssumption == Asks \in [Holders -> SUBSET Verbs]
ASSUME CapAssumption == CmdCap \in Nat \ {0}

VARIABLES
    \* Supervisor
    pool,         \* agents in the map
    mutex,        \* the handler that holds the map's lock
    \* handle_control_conn, per holder
    handler,      \* where it is
    verb,
    target,       \* the agent it names, or None
    todo,         \* relays it has still to ask
    asked,        \* the relay it waits for, or is in the middle of listing
    path,         \* the agent whose socket the holder was given and has not used
    \* relay_main, per agent
    relay,
    cmds,         \* the command channel
    intended,     \* intended_holder
    candidate,    \* the connection do_attach is serving, with its tag
    lease,        \* the connection that holds the lease, with its tag
    \* data_socket_accept_loop, per agent
    backlog,      \* connections nobody has accepted
    acceptor,
    conn,         \* what became of each holder's connection
    \* the environment
    alive,        \* the agent's process
    \* history
    registered,   \* holders a relay has recorded
    overlapped    \* a holder was recorded while another was yet to be leased

handlerVars == <<handler, verb, target, todo, asked, path>>
leaseVars   == <<intended, candidate, lease, registered, overlapped>>
socketVars  == <<backlog, acceptor, conn>>
vars == <<pool, mutex, handlerVars, relay, cmds, leaseVars, socketVars, alive>>

\* Messages of the relay's channel: a verb's question, or a stream.  list has two
\* for each relay: LeaseHolder, and then SessionCount.
Cmd    == [kind : {"attach", "detach", "list", "count", "events", "stream"}, of : Holders]
Leased == [of : Holders, tag : Holders \cup {None}]    \* None: "data-socket"

Init ==
    /\ pool = Agents
    /\ mutex = None
    /\ handler = [h \in Holders |-> "idle"]
    /\ verb = [h \in Holders |-> "list"]
    /\ target = [h \in Holders |-> None]
    /\ todo = [h \in Holders |-> {}]
    /\ asked = [h \in Holders |-> None]
    /\ path = [h \in Holders |-> None]
    /\ relay = [a \in Agents |-> "select"]
    /\ cmds = [a \in Agents |-> <<>>]
    /\ intended = [a \in Agents |-> None]
    /\ candidate = [a \in Agents |-> None]
    /\ lease = [a \in Agents |-> None]
    /\ backlog = [a \in Agents |-> <<>>]
    /\ acceptor = [a \in Agents |-> "accept"]
    /\ conn = [h \in Holders |-> "none"]
    /\ alive = [a \in Agents |-> TRUE]
    /\ registered = [a \in Agents |-> {}]
    /\ overlapped = [a \in Agents |-> FALSE]

-----------------------------------------------------------------------------
(* handle_control_conn.                                                    *)

\* The handler goes on, or it returns and its locals are gone.
Goto(h, where) ==
    /\ handler' = [handler EXCEPT ![h] = where]
    /\ UNCHANGED <<verb, target>>

Return(h) ==
    /\ handler' = [handler EXCEPT ![h] = "idle"]
    /\ verb' = [verb EXCEPT ![h] = "list"]
    /\ target' = [target EXCEPT ![h] = None]

\* attach, kill and events name an agent; detach may; list does not.
MayName(v) == CASE v = "list" -> {None} [] v = "detach" -> Agents \cup {None} [] OTHER -> Agents

Request(h, v, a) ==
    /\ handler[h] = "idle"
    /\ v \in Asks[h]
    /\ a \in MayName(v)
    /\ verb' = [verb EXCEPT ![h] = v]
    /\ target' = [target EXCEPT ![h] = a]
    /\ handler' = [handler EXCEPT ![h] = IF v \in {"attach", "events"} THEN "resolve" ELSE "lock"]
    /\ UNCHANGED <<pool, mutex, todo, asked, path, relay, cmds, leaseVars,
                   socketVars, alive>>

\* Fault: the lock is not given back.
StaysLocked == UNCHANGED mutex

Unlock == mutex' = None

\* resolve_target takes the lock and gives it back.
Resolve(h) ==
    /\ handler[h] = "resolve"
    /\ mutex = None
    /\ IF target[h] \in pool THEN Goto(h, "lock") ELSE Return(h)
    /\ UNCHANGED <<pool, mutex, todo, asked, path, relay, cmds,
                   leaseVars, socketVars, alive>>

\* Fault: the agent resolve_target found is taken for granted.
AsResolved(h) == IF target[h] = None THEN pool ELSE {target[h]}

\* The relays a request is for, looked up under the lock.
Lookup(h) == IF target[h] = None THEN pool ELSE {target[h]} \cap pool

\* The lock is taken; it is kept while the relays are asked.
Lock(h) ==
    /\ handler[h] = "lock"
    /\ mutex = None
    /\ IF Lookup(h) = {} /\ verb[h] # "list"
       THEN Return(h) /\ UNCHANGED <<pool, mutex, todo>>
       ELSE /\ mutex' = h
            /\ IF verb[h] = "kill"
               THEN /\ pool' = pool \ {target[h]}
                    /\ Goto(h, "kill")
                    /\ UNCHANGED todo
               ELSE /\ todo' = [todo EXCEPT ![h] = Lookup(h)]
                    /\ Goto(h, "send")
                    /\ UNCHANGED pool
    /\ UNCHANGED <<asked, path, relay, cmds, leaseVars, socketVars, alive>>

\* The child is killed and waited for and its socket file removed.
KillDone(h) ==
    /\ handler[h] = "kill"
    /\ alive' = [alive EXCEPT ![target[h]] = FALSE]
    /\ Unlock
    /\ Goto(h, "persist")
    /\ UNCHANGED <<pool, todo, asked, path, relay, cmds, leaseVars, socketVars>>

\* The pool or a handler that kills the agent owns it, and its listener.
Owned(a) == a \in pool \/ \E h \in Holders : handler[h] \in {"kill", "persist"} /\ target[h] = a

Refuse(H) == conn' = [h \in Holders |-> IF h \in H THEN "refused" ELSE conn[h]]

\* The pool is persisted under the lock, the Agent dropped and its listener
\* with it, unless the accept loop has it too.
Persist(h) ==
    /\ handler[h] = "persist"
    /\ mutex = None
    /\ Return(h)
    /\ IF acceptor[target[h]] = "returned"
       THEN /\ Refuse(ToSet(backlog[target[h]]))
            /\ backlog' = [backlog EXCEPT ![target[h]] = <<>>]
       ELSE UNCHANGED <<conn, backlog>>
    /\ UNCHANGED <<pool, mutex, todo, asked, path, relay, cmds, leaseVars, acceptor, alive>>

\* A list goes on with the relay that has answered its first question.
IsNext(h, a) == a \in todo[h] /\ asked[h] \in {None, a}

Question(h, a) == IF asked[h] = a THEN "count" ELSE verb[h]

\* A subscription is not acknowledged: the lock is given back and samples wait.
Ask(h, a) ==
    /\ handler[h] = "send"
    /\ IsNext(h, a)
    /\ relay[a] # "ended"
    /\ Len(cmds[a]) < CmdCap
    /\ cmds' = [cmds EXCEPT ![a] = Append(@, [kind |-> Question(h, a), of |-> h])]
    /\ todo' = [todo EXCEPT ![h] = @ \ {a}]
    /\ IF verb[h] = "events"
       THEN Unlock /\ Goto(h, "stream") /\ UNCHANGED asked
       ELSE Goto(h, "await") /\ asked' = [asked EXCEPT ![h] = a] /\ UNCHANGED mutex
    /\ UNCHANGED <<pool, path, relay, leaseVars, socketVars, alive>>

\* The relay is gone: skip it.
AskFails(h, a) ==
    /\ handler[h] = "send"
    /\ IsNext(h, a)
    /\ relay[a] = "ended"
    /\ todo' = [todo EXCEPT ![h] = @ \ {a}]
    /\ asked' = [asked EXCEPT ![h] = None]
    /\ UNCHANGED <<pool, mutex, handler, verb, target, path, relay, cmds,
                   leaseVars, socketVars, alive>>

\* Fault: the path is returned and the relay told afterwards, or never.
AtOnce(h) == TRUE

AllAsked(h) == todo[h] = {}

\* A write to a peer that has left fails, or the last task that could report a
\* sample is gone with the relay.
StreamEnds(h) ==
    /\ handler[h] = "stream"
    /\ Return(h)
    /\ UNCHANGED <<pool, mutex, todo, asked, path, relay, cmds, leaseVars,
                   socketVars, alive>>

\* attach answers with the path, also when the relay was gone.
Finish(h) ==
    /\ handler[h] = "send"
    /\ AllAsked(h)
    /\ Unlock
    /\ Return(h)
    /\ path' = IF verb[h] = "attach" /\ conn[h] = "none"
               THEN [path EXCEPT ![h] = target[h]] ELSE path
    /\ todo' = [todo EXCEPT ![h] = {}]
    /\ UNCHANGED <<pool, asked, relay, cmds, leaseVars, socketVars, alive>>

HandlerStep(h) == \/ Resolve(h) \/ Lock(h) \/ KillDone(h) \/ Persist(h) \/ Finish(h)
                  \/ \E a \in Agents : Ask(h, a) \/ AskFails(h, a)

-----------------------------------------------------------------------------
(* relay_main: the commands, and the tags.                                 *)

Take(a, kind) ==
    /\ relay[a] = "select"
    /\ cmds[a] # <<>>
    /\ Head(cmds[a]).kind = kind
    /\ cmds' = [cmds EXCEPT ![a] = Tail(@)]

\* The handlers H are answered, or find their question dropped: on to the next
\* relay, or with none left to ask, as after the detach of a lease.
Tell(H, left) ==
    /\ handler' = [h \in Holders |-> IF h \in H THEN "send" ELSE handler[h]]
    /\ asked' = [h \in Holders |-> IF h \in H THEN None ELSE asked[h]]
    /\ todo' = [h \in Holders |-> IF h \in H THEN left[h] ELSE todo[h]]

\* Holders recorded by a whose connection is still to be leased.
Expected(a) == {g \in registered[a] : conn[g] \in {"none", "backlog", "sent"}}

\* SetIntendedHolder: the last one counts.
Register(a) ==
    /\ Take(a, "attach")
    /\ LET h == Head(cmds[a]).of
       IN /\ intended' = [intended EXCEPT ![a] = h]
          /\ registered' = [registered EXCEPT ![a] = @ \cup {h}]
          /\ overlapped' = [overlapped EXCEPT ![a] = @ \/ Expected(a) \ {h} # {}]
          /\ Tell({h}, todo)
    /\ UNCHANGED <<pool, mutex, verb, target, path, relay, candidate, lease, socketVars, alive>>

\* do_detach: only the lease with the holder's tag.
TagMatches(a, h) == lease[a] # None /\ lease[a].tag = h

Detach(a) ==
    /\ Take(a, "detach")
    /\ LET h == Head(cmds[a]).of
       IN /\ lease' = [lease EXCEPT ![a] = IF TagMatches(a, h) THEN None ELSE @]
          /\ Tell({h}, IF TagMatches(a, h) THEN [todo EXCEPT ![h] = {}] ELSE todo)
    /\ UNCHANGED <<pool, mutex, verb, target, path, relay, intended, candidate, registered,
                   overlapped, socketVars, alive>>

\* The handler has the next question for the same relay.
LeaseHolder(a) ==
    /\ Take(a, "list")
    /\ LET h == Head(cmds[a]).of
       IN /\ handler' = [handler EXCEPT ![h] = "send"]
          /\ todo' = [todo EXCEPT ![h] = @ \cup {a}]
    /\ UNCHANGED <<pool, mutex, verb, target, asked, path, relay, leaseVars, socketVars, alive>>

SessionCount(a) ==
    /\ Take(a, "count")
    /\ Tell({Head(cmds[a]).of}, todo)
    /\ UNCHANGED <<pool, mutex, verb, target, path, relay, leaseVars, socketVars, alive>>

\* Subscribe: the relay's list of subscribers is telemetry, and left out.
Subscribe(a) ==
    /\ Take(a, "events")
    /\ UNCHANGED <<pool, mutex, handlerVars, relay, leaseVars, socketVars, alive>>

\* do_attach answers the accept loop, which goes on whatever the answer is.
AcceptNext(a) == acceptor' = [acceptor EXCEPT ![a] = "accept"]

\* do_attach grants, without another await: a lease there was is stopped.
Grant(a, c) ==
    /\ lease' = [lease EXCEPT ![a] = c]
    /\ conn' = [conn EXCEPT ![c.of] = "leased"]
    /\ AcceptNext(a)

\* A stream takes the intended holder's tag; do_attach grants a free lease at
\* once and waits for the boundary otherwise.
Attach(a) ==
    /\ Take(a, "stream")
    /\ intended' = [intended EXCEPT ![a] = None]
    /\ LET c == [of |-> Head(cmds[a]).of, tag |-> intended[a]]
       IN IF lease[a] = None
          THEN Grant(a, c) /\ UNCHANGED <<relay, candidate>>
          ELSE /\ relay' = [relay EXCEPT ![a] = "steal"]
               /\ candidate' = [candidate EXCEPT ![a] = c]
               /\ UNCHANGED <<lease, conn, acceptor>>
    /\ UNCHANGED <<pool, mutex, handlerVars, registered, overlapped, backlog, alive>>

\* The boundary, or the agent's death, or STEAL_WAIT.
StealWaitEnds(a) ==
    /\ relay[a] = "steal"
    /\ relay' = [relay EXCEPT ![a] = "select"]
    /\ candidate' = [candidate EXCEPT ![a] = None]
    /\ \/ Grant(a, candidate[a])
       \/ Refuse({candidate[a].of}) /\ AcceptNext(a) /\ UNCHANGED lease
    /\ UNCHANGED <<pool, mutex, handlerVars, cmds, intended, registered, overlapped, backlog,
                   alive>>

\* Fault: a dead relay leaves its questions unanswered.
NobodyTold(a) == {}

\* The channel is dropped with what is in it, and every sender of a reply.
Dropped(a) == {h \in Holders : handler[h] = "await" /\ asked[h] = a}

EndRelay(a) ==
    /\ relay[a] = "select"
    /\ ~alive[a]
    /\ relay' = [relay EXCEPT ![a] = "ended"]
    /\ Tell(Dropped(a), todo)
    /\ lease' = [lease EXCEPT ![a] = None]
    /\ Refuse({c.of : c \in {d \in ToSet(cmds[a]) : d.kind = "stream"}})
    /\ cmds' = [cmds EXCEPT ![a] = <<>>]
    /\ UNCHANGED <<pool, mutex, verb, target, path, intended, candidate, registered,
                   overlapped, backlog, acceptor, alive>>

RelayStep(a) == \/ Register(a) \/ Detach(a) \/ LeaseHolder(a) \/ SessionCount(a)
                \/ Subscribe(a) \/ Attach(a) \/ StealWaitEnds(a) \/ EndRelay(a)

-----------------------------------------------------------------------------
(* The data socket.                                                        *)

\* The socket file is there until the agent has been killed.
FileThere(a) == a \in pool \/ \E h \in Holders : handler[h] = "kill" /\ target[h] = a

Connect(h) ==
    /\ conn[h] = "none"
    /\ path[h] # None
    /\ FileThere(path[h])
    /\ conn' = [conn EXCEPT ![h] = "backlog"]
    /\ backlog' = [backlog EXCEPT ![path[h]] = Append(@, h)]
    /\ path' = [path EXCEPT ![h] = None]
    /\ UNCHANGED <<pool, mutex, handler, verb, target, todo, asked, relay, cmds,
                   leaseVars, acceptor, alive>>

Accept(a) ==
    /\ acceptor[a] = "accept"
    /\ backlog[a] # <<>>
    /\ relay[a] # "ended"
    /\ Len(cmds[a]) < CmdCap
    /\ cmds' = [cmds EXCEPT ![a] = Append(@, [kind |-> "stream", of |-> Head(backlog[a])])]
    /\ conn' = [conn EXCEPT ![Head(backlog[a])] = "sent"]
    /\ backlog' = [backlog EXCEPT ![a] = Tail(@)]
    /\ acceptor' = [acceptor EXCEPT ![a] = "await"]
    /\ UNCHANGED <<pool, mutex, handlerVars, relay, leaseVars, alive>>

\* Fault: the loop returns only when its reply is dropped, not when a send fails.
IgnoresFailedSend(a) == acceptor[a] = "await"

\* The relay is gone: a stream in hand is dropped.
SeesRelayGone(a) == acceptor[a] = "await" \/ (acceptor[a] = "accept" /\ backlog[a] # <<>>)

\* The loop returns, and drops what it has in hand.  Whoever owns the agent keeps
\* the listener open; if nobody does, this was the last reference, and the
\* backlog goes too.
ReturnWith(a, inHand) ==
    /\ acceptor' = [acceptor EXCEPT ![a] = "returned"]
    /\ Refuse(IF Owned(a) THEN inHand ELSE ToSet(backlog[a]))
    /\ backlog' = [backlog EXCEPT ![a] = CASE ~Owned(a) -> <<>>
                                          [] Owned(a) /\ inHand # {} -> Tail(@)
                                          [] OTHER -> @]
    /\ UNCHANGED <<pool, mutex, handlerVars, relay, cmds, leaseVars, alive>>

AcceptLoopReturns(a) ==
    /\ relay[a] = "ended"
    /\ SeesRelayGone(a)
    /\ ReturnWith(a, IF acceptor[a] = "accept" THEN {Head(backlog[a])} ELSE {})

\* accept fails, as when there are no descriptors left: the loop returns also if
\* the relay is there, and nobody starts another.
AcceptFails(a) ==
    /\ acceptor[a] = "accept"
    /\ ReturnWith(a, {})

AcceptLoop(a) == Accept(a) \/ AcceptLoopReturns(a)

AgentDies(a) ==
    /\ alive[a]
    /\ alive' = [alive EXCEPT ![a] = FALSE]
    /\ UNCHANGED <<pool, mutex, handlerVars, relay, cmds, leaseVars, socketVars>>

-----------------------------------------------------------------------------

Next == \/ \E h \in Holders : \/ \E v \in Verbs, a \in Agents \cup {None} : Request(h, v, a)
                              \/ HandlerStep(h) \/ StreamEnds(h) \/ Connect(h)
        \/ \E a \in Agents : RelayStep(a) \/ AcceptLoop(a) \/ AcceptFails(a) \/ AgentDies(a)

Spec == Init /\ [][Next]_vars

\* Tasks that can run are polled; the mutex and the channels are handed to
\* waiters in turn; a steal wait ends.  Nothing is assumed of holders.
FairSpec ==
    /\ Spec
    /\ \A h \in Holders : SF_vars(HandlerStep(h))
    /\ \A a \in Agents : WF_vars(RelayStep(a)) /\ SF_vars(AcceptLoop(a))

-----------------------------------------------------------------------------
(* What should hold.                                                       *)

\* Every variable has the values the code gives it; the lock is held by the
\* handler that asks relays or kills.
TypeOK ==
    /\ pool \subseteq Agents
    /\ mutex \in Holders \cup {None}
    /\ \A h \in Holders : mutex = h <=> handler[h] \in {"send", "await", "kill"}
    /\ handler \in [Holders -> {"idle", "resolve", "lock", "send", "await", "kill", "persist",
                            "stream"}]
    /\ verb \in [Holders -> Verbs]
    /\ target \in [Holders -> Agents \cup {None}]
    /\ todo \in [Holders -> SUBSET Agents]
    /\ asked \in [Holders -> Agents \cup {None}]
    /\ path \in [Holders -> Agents \cup {None}]
    /\ relay \in [Agents -> {"select", "steal", "ended"}]
    /\ cmds \in [Agents -> Seq(Cmd)]
    /\ intended \in [Agents -> Holders \cup {None}]
    /\ candidate \in [Agents -> Leased \cup {None}]
    /\ lease \in [Agents -> Leased \cup {None}]
    /\ backlog \in [Agents -> Seq(Holders)]
    /\ acceptor \in [Agents -> {"accept", "await", "returned"}]
    /\ conn \in [Holders -> {"none", "backlog", "sent", "leased", "refused"}]
    /\ alive \in [Agents -> BOOLEAN]
    /\ registered \in [Agents -> SUBSET Holders]
    /\ overlapped \in [Agents -> BOOLEAN]

\* The lease is tagged with the orchestrator that connected
\* (supervisor.rs:418-423), whatever detaches, steals and deaths there were, as
\* long as no two of them were between attach and lease at the same time: of two
\* that were, the first to connect takes the tag of the last to attach.
TaggedUnlessOverlapped ==
    \A a \in Agents : lease[a] # None => lease[a].tag = lease[a].of \/ overlapped[a]

\* An attach is answered with the socket of an agent that is in the pool
\* (supervisor.rs:414-417), though the target was resolved under an earlier
\* lock and a kill may have come in between.
PathOfPooled == [][\A h \in Holders : path'[h] \notin {path[h], None} => path'[h] \in pool]_vars

\* Every control request is answered (supervisor.rs:336-389), with a stream if
\* that is what it asked for, although its
\* handler may wait for a relay with the pool's lock held, the relay may be in
\* a steal wait, and may end with the question in its channel.
RequestAnswered ==
    \A h \in Holders : handler[h] # "idle" ~> handler[h] \in {"idle", "stream"}

\* Every connection is leased or refused (supervisor.rs:296-332), except those
\* that wait at the listener of a pooled agent whose accept loop has returned,
\* with its relay or on a failed accept.
ConnectionAnswered ==
    \A h \in Holders :
        conn[h] \in {"backlog", "sent"} ~>
            \/ conn[h] \in {"leased", "refused"}
            \/ \E a \in pool : acceptor[a] = "returned" /\ h \in ToSet(backlog[a])

\* Whoever talks to the supervisor, on either socket, is answered.
PeersAnswered == RequestAnswered /\ ConnectionAnswered

=============================================================================

------------------------- MODULE ControlPlaneProofs -------------------------
(***************************************************************************)
(* What TLAPS proves of ControlPlane: the types, that an attach is         *)
(* answered with the socket of a pooled agent, and that a lease is tagged  *)
(* with the orchestrator that connected.                                   *)
(***************************************************************************)
EXTENDS ControlPlane, SequenceTheorems, TLAPS

-----------------------------------------------------------------------------
(* The inductive invariant.                                                *)

\* A handler that asks or kills names an agent of the right kind; attach asks
\* one relay, that of an agent which stays in the pool while it asks.
Asking ==
    \A h \in Holders :
        /\ handler[h] \in {"send", "await"} => verb[h] # "kill"
        /\ handler[h] # "idle" /\ verb[h] \in {"attach", "kill", "events"} => target[h] \in Agents
        /\ handler[h] \in {"kill", "persist"} => verb[h] = "kill"
        /\ handler[h] \in {"send", "await"} /\ verb[h] = "attach" =>
               target[h] \in pool /\ todo[h] \subseteq {target[h]}
        /\ handler[h] = "await" => asked[h] \in Agents
        /\ handler[h] = "await" /\ verb[h] = "attach" => asked[h] = target[h]
        /\ handler[h] # "await" /\ asked[h] # None =>
               handler[h] = "send" /\ verb[h] = "list" /\ asked[h] \in todo[h]

IsQuestion(m) == m.kind \in {"attach", "detach", "list", "count"}
IsStream(m)   == m.kind = "stream"

\* The verb of a handler that asks this.
VerbOf(kind) == IF kind = "count" THEN "list" ELSE kind

\* A question in a channel is the one the handler with the lock waits for.
Questions ==
    \A a \in Agents : \A i \in 1..Len(cmds[a]) :
        IsQuestion(cmds[a][i]) =>
            /\ handler[cmds[a][i].of] = "await"
            /\ asked[cmds[a][i].of] = a
            /\ verb[cmds[a][i].of] = VerbOf(cmds[a][i].kind)
            /\ \A j \in 1..Len(cmds[a]) : IsQuestion(cmds[a][j]) => j = i

\* h's stream is in the channel of a.
InChannel(a, h) == \E i \in 1..Len(cmds[a]) : IsStream(cmds[a][i]) /\ cmds[a][i].of = h

\* The relay of a has h's stream, in its channel or as its candidate.
Sent(a, h) == InChannel(a, h) \/ (relay[a] = "steal" /\ candidate[a].of = h)

InBacklog(a, h) == \E i \in 1..Len(backlog[a]) : backlog[a][i] = h

\* A connection is in one place: not yet made, in one backlog, or with one relay.
Places ==
    /\ \A h \in Holders : path[h] # None => conn[h] = "none"
    /\ \A a \in Agents : \A i \in 1..Len(backlog[a]) :
           /\ conn[backlog[a][i]] = "backlog"
           /\ \A b \in Agents : \A j \in 1..Len(backlog[b]) :
                  backlog[a][i] = backlog[b][j] => a = b /\ i = j
    /\ \A a \in Agents, h \in Holders : Sent(a, h) =>
           /\ conn[h] = "sent"
           /\ acceptor[a] = "await"
           /\ \A b \in Agents : Sent(b, h) => b = a

\* The accept loop has one stream with the relay at a time, and a relay that
\* has ended has no channel.
OneStream ==
    \A a \in Agents :
        /\ relay[a] = "steal" => candidate[a] \in Leased
        /\ relay[a] = "ended" => Len(cmds[a]) = 0
        /\ \A i \in 1..Len(cmds[a]) : IsStream(cmds[a][i]) =>
               /\ relay[a] # "steal"
               /\ \A j \in 1..Len(cmds[a]) : IsStream(cmds[a][j]) => j = i

\* h has still to be leased by a: it has been told, or is about to be told,
\* the path, or its connection is on the way.
Bound(a, h) ==
    \/ path[h] = a
    \/ handler[h] = "send" /\ verb[h] = "attach" /\ target[h] = a /\ todo[h] = {} /\ conn[h] = "none"
    \/ InBacklog(a, h)
    \/ InChannel(a, h)

\* Unless two overlapped, the one that is bound for a relay is the one the
\* relay expects.
Tags ==
    \A a \in Agents : relay[a] # "ended" /\ ~overlapped[a] =>
        /\ \A h \in Holders : Bound(a, h) => h \in registered[a] /\ intended[a] = h
        /\ relay[a] = "steal" => candidate[a].tag = candidate[a].of
        /\ lease[a] # None => lease[a].tag = lease[a].of

Ended == \A a \in Agents : relay[a] = "ended" => lease[a] = None

IInv == TypeOK /\ Asking /\ Questions /\ Places /\ OneStream /\ Tags /\ Ended

-----------------------------------------------------------------------------
(* Sequences.                                                              *)

\* An element is added behind those there are.
LEMMA Pushes ==
    ASSUME NEW S, NEW s \in Seq(S), NEW m \in S, NEW t, t = Append(s, m)
    PROVE  /\ t \in Seq(S) /\ Len(s) \in Nat /\ Len(t) = Len(s) + 1
           /\ \A i \in 1..Len(s) : t[i] = s[i]
           /\ t[Len(s) + 1] = m
<1>1. t \in Seq(S) /\ Len(t) = Len(s) + 1
  BY AppendProperties
<1>2. \A i \in 1..Len(s) : t[i] = s[i]
  BY AppendProperties
<1>3. t[Len(s) + 1] = m
  BY AppendProperties
<1>. QED  BY <1>1, <1>2, <1>3, LenProperties

\* The first element is taken and the others move up.
LEMMA Pops ==
    ASSUME NEW S, NEW s \in Seq(S), s # <<>>, NEW t, t = Tail(s)
    PROVE  /\ t \in Seq(S) /\ Len(s) \in Nat /\ Len(s) >= 1 /\ Len(t) = Len(s) - 1
           /\ Head(s) = s[1] /\ Head(s) \in S
           /\ \A i \in 1..Len(t) : t[i] = s[i + 1]
<1>1. Len(s) \in Nat /\ Len(s) # 0
  BY LenProperties, EmptySeq
<1>2. t \in Seq(S) /\ Len(t) = Len(s) - 1
  BY HeadTailProperties
<1>3. Head(s) = s[1] /\ Head(s) \in S
  BY HeadTailProperties
<1>4. \A i \in 1..Len(t) : t[i] = s[i + 1]
  BY <1>2, HeadTailProperties
<1>. QED  BY <1>1, <1>2, <1>3, <1>4

LEMMA Commands ==
    ASSUME TypeOK, NEW a \in Agents, NEW i \in 1..Len(cmds[a])
    PROVE  cmds[a][i] \in Cmd /\ cmds[a][i].of \in Holders
<1>1. cmds[a] \in Seq(Cmd)
  BY DEF TypeOK
<1>2. cmds[a][i] \in Cmd
  BY <1>1, ElementOfSeq
<1>. QED  BY <1>2 DEF Cmd

\* What a relay does to its channel when it takes a command of a kind.
LEMMA TakesFirst ==
    ASSUME TypeOK, NEW a \in Agents, NEW kind, Take(a, kind)
    PROVE  /\ cmds' \in [Agents -> Seq(Cmd)]
           /\ Len(cmds[a]) \in Nat /\ Len(cmds[a]) >= 1 /\ Len(cmds'[a]) = Len(cmds[a]) - 1
           /\ Head(cmds[a]) = cmds[a][1] /\ cmds[a][1] \in Cmd /\ cmds[a][1].kind = kind
           /\ \A i \in 1..Len(cmds'[a]) : cmds'[a][i] = cmds[a][i + 1]
           /\ \A b \in Agents : b # a => cmds'[b] = cmds[b]
<1>1. cmds \in [Agents -> Seq(Cmd)] /\ cmds[a] \in Seq(Cmd) /\ cmds[a] # <<>>
  BY DEF TypeOK, Take
<1>2. cmds' = [cmds EXCEPT ![a] = Tail(cmds[a])] /\ Head(cmds[a]).kind = kind
  BY DEF Take
<1>3. PICK t : t = Tail(cmds[a])
  OBVIOUS
<1>4. cmds'[a] = t /\ \A b \in Agents : b # a => cmds'[b] = cmds[b]
  BY <1>1, <1>2, <1>3
<1>5. /\ t \in Seq(Cmd) /\ Len(cmds[a]) \in Nat /\ Len(cmds[a]) >= 1
      /\ Len(t) = Len(cmds[a]) - 1
      /\ Head(cmds[a]) = cmds[a][1] /\ Head(cmds[a]) \in Cmd
      /\ \A i \in 1..Len(t) : t[i] = cmds[a][i + 1]
  BY <1>1, <1>3, Pops
<1>6. cmds' \in [Agents -> Seq(Cmd)]
  BY <1>1, <1>2, <1>3, <1>5
<1>. QED  BY <1>2, <1>4, <1>5, <1>6

\* What a sender does to it.
LEMMA SendsLast ==
    ASSUME TypeOK, NEW a \in Agents, NEW m \in Cmd, cmds' = [cmds EXCEPT ![a] = Append(@, m)]
    PROVE  /\ cmds' \in [Agents -> Seq(Cmd)]
           /\ Len(cmds[a]) \in Nat /\ Len(cmds'[a]) = Len(cmds[a]) + 1
           /\ cmds'[a][Len(cmds[a]) + 1] = m
           /\ \A i \in 1..Len(cmds[a]) : cmds'[a][i] = cmds[a][i]
           /\ \A b \in Agents : b # a => cmds'[b] = cmds[b]
<1>1. cmds \in [Agents -> Seq(Cmd)] /\ cmds[a] \in Seq(Cmd)
  BY DEF TypeOK
<1>2. PICK t : t = Append(cmds[a], m)
  OBVIOUS
<1>3. cmds'[a] = t /\ \A b \in Agents : b # a => cmds'[b] = cmds[b]
  BY <1>1, <1>2
<1>4. /\ t \in Seq(Cmd) /\ Len(cmds[a]) \in Nat /\ Len(t) = Len(cmds[a]) + 1
      /\ \A i \in 1..Len(cmds[a]) : t[i] = cmds[a][i]
      /\ t[Len(cmds[a]) + 1] = m
  BY <1>1, <1>2, Pushes
<1>5. cmds' \in [Agents -> Seq(Cmd)]
  BY <1>1, <1>2, <1>4
<1>. QED  BY <1>3, <1>4, <1>5

\* The backlog, when the first connection is accepted or dropped.
LEMMA BacklogPops ==
    ASSUME TypeOK, NEW a \in Agents, backlog[a] # <<>>, backlog' = [backlog EXCEPT ![a] = Tail(@)]
    PROVE  /\ backlog' \in [Agents -> Seq(Holders)]
           /\ Len(backlog[a]) \in Nat /\ Len(backlog[a]) >= 1
           /\ Len(backlog'[a]) = Len(backlog[a]) - 1
           /\ Head(backlog[a]) = backlog[a][1] /\ backlog[a][1] \in Holders
           /\ \A i \in 1..Len(backlog'[a]) : backlog'[a][i] = backlog[a][i + 1]
           /\ \A b \in Agents : b # a => backlog'[b] = backlog[b]
<1>1. backlog \in [Agents -> Seq(Holders)] /\ backlog[a] \in Seq(Holders)
  BY DEF TypeOK
<1>2. PICK t : t = Tail(backlog[a])
  OBVIOUS
<1>3. backlog'[a] = t /\ \A b \in Agents : b # a => backlog'[b] = backlog[b]
  BY <1>1, <1>2
<1>4. /\ t \in Seq(Holders) /\ Len(backlog[a]) \in Nat /\ Len(backlog[a]) >= 1
      /\ Len(t) = Len(backlog[a]) - 1
      /\ Head(backlog[a]) = backlog[a][1] /\ Head(backlog[a]) \in Holders
      /\ \A i \in 1..Len(t) : t[i] = backlog[a][i + 1]
  BY <1>1, <1>2, Pops
<1>5. backlog' \in [Agents -> Seq(Holders)]
  BY <1>1, <1>2, <1>4
<1>. QED  BY <1>3, <1>4, <1>5

\* And when a peer connects.
LEMMA BacklogPushes ==
    ASSUME TypeOK, NEW a \in Agents, NEW h \in Holders,
           backlog' = [backlog EXCEPT ![a] = Append(@, h)]
    PROVE  /\ backlog' \in [Agents -> Seq(Holders)]
           /\ Len(backlog[a]) \in Nat /\ Len(backlog'[a]) = Len(backlog[a]) + 1
           /\ backlog'[a][Len(backlog[a]) + 1] = h
           /\ \A i \in 1..Len(backlog[a]) : backlog'[a][i] = backlog[a][i]
           /\ \A b \in Agents : b # a => backlog'[b] = backlog[b]
<1>1. backlog \in [Agents -> Seq(Holders)] /\ backlog[a] \in Seq(Holders)
  BY DEF TypeOK
<1>2. PICK t : t = Append(backlog[a], h)
  OBVIOUS
<1>3. backlog'[a] = t /\ \A b \in Agents : b # a => backlog'[b] = backlog[b]
  BY <1>1, <1>2
<1>4. /\ t \in Seq(Holders) /\ Len(backlog[a]) \in Nat /\ Len(t) = Len(backlog[a]) + 1
      /\ \A i \in 1..Len(backlog[a]) : t[i] = backlog[a][i]
      /\ t[Len(backlog[a]) + 1] = h
  BY <1>1, <1>2, Pushes
<1>5. backlog' \in [Agents -> Seq(Holders)]
  BY <1>1, <1>2, <1>4
<1>. QED  BY <1>3, <1>4, <1>5
-----------------------------------------------------------------------------
(* The types.                                                              *)

\* The lock is held by the handler that asks relays or kills.
LocksHeld == \A h \in Holders : mutex = h <=> handler[h] \in {"send", "await", "kill"}

\* What a handler asks is its verb's question, or the second of a list.
LEMMA Kinds ==
    ASSUME TypeOK, Asking, NEW h \in Holders, NEW a \in Agents, Ask(h, a)
    PROVE  /\ [kind |-> Question(h, a), of |-> h] \in Cmd
           /\ VerbOf(Question(h, a)) = verb[h]
           /\ ~IsStream([kind |-> Question(h, a), of |-> h])
           /\ verb[h] = "events" => Question(h, a) = "events"
<1>1. handler[h] = "send" /\ verb[h] \in {"attach", "detach", "list", "events"}
  BY DEF Ask, Asking, TypeOK, Verbs
<1>2. asked[h] = a => verb[h] = "list"
  BY <1>1, NamesAssumption DEF Asking
<1>. QED  BY <1>1, <1>2 DEF Question, VerbOf, Cmd, IsStream

\* The handlers' steps.
LEMMA HandlerTypes ==
    ASSUME IInv, NEW h \in Holders,
           \/ \E v \in Verbs, a \in Agents \cup {None} : Request(h, v, a)
           \/ HandlerStep(h) \/ StreamEnds(h)
    PROVE  TypeOK'
<1>0. TypeOK /\ Asking
  BY DEF IInv
<1>. USE <1>0, NamesAssumption DEF TypeOK, leaseVars, socketVars
<1>1. ASSUME NEW v \in Verbs, NEW a \in Agents \cup {None}, Request(h, v, a) PROVE TypeOK'
  BY <1>1 DEF Request
<1>2. CASE Resolve(h)
  <2>1. PICK w \in {"lock", "idle"} : handler' = [handler EXCEPT ![h] = w]
    BY <1>2 DEF Resolve, Goto, Return
  <2>2. verb' \in [Holders -> Verbs] /\ target' \in [Holders -> Agents \cup {None}]
    <3>1. CASE Goto(h, "lock")
      BY <3>1 DEF Goto
    <3>2. CASE Return(h)
      BY <3>2 DEF Return, Verbs
    <3>. QED  BY <1>2, <3>1, <3>2 DEF Resolve
  <2>3. LocksHeld'
    BY <1>2, <2>1 DEF Resolve, LocksHeld
  <2>. QED  BY <1>2, <2>1, <2>2, <2>3 DEF Resolve, LocksHeld
<1>3. CASE Lock(h)
  <2>1. CASE Return(h) /\ UNCHANGED <<pool, mutex, todo>>
    BY <1>3, <2>1 DEF Lock, Return, Verbs
  <2>2. CASE mutex' = h /\ verb[h] = "kill"
    <3>1. /\ handler' = [handler EXCEPT ![h] = "kill"] /\ pool' \in SUBSET Agents
          /\ UNCHANGED <<verb, target, todo>> /\ mutex = None
      BY <1>3, <2>2 DEF Lock, Goto
    <3>2. LocksHeld'
      BY <2>2, <3>1 DEF LocksHeld
    <3>. QED  BY <1>3, <2>2, <3>1, <3>2 DEF Lock, LocksHeld
  <2>3. CASE mutex' = h /\ verb[h] # "kill"
    <3>1. Lookup(h) \in SUBSET Agents
      BY DEF Lookup
    <3>2. /\ handler' = [handler EXCEPT ![h] = "send"] /\ todo' \in [Holders -> SUBSET Agents]
          /\ UNCHANGED <<verb, target, pool>> /\ mutex = None
      BY <1>3, <2>3, <3>1 DEF Lock, Goto
    <3>3. LocksHeld'
      BY <2>3, <3>2 DEF LocksHeld
    <3>. QED  BY <1>3, <2>3, <3>2, <3>3 DEF Lock, LocksHeld
  <2>. QED  BY <1>3, <2>1, <2>2, <2>3 DEF Lock
<1>4. CASE KillDone(h)
  <2>1. handler' = [handler EXCEPT ![h] = "persist"] /\ mutex' = None /\ handler[h] = "kill"
    BY <1>4 DEF KillDone, Unlock, Goto
  <2>2. LocksHeld'
    BY <2>1 DEF LocksHeld
  <2>3. alive' \in [Agents -> BOOLEAN]
    BY <1>4 DEF KillDone
  <2>4. handler' \in [Holders -> {"idle", "resolve", "lock", "send", "await", "kill", "persist",
                                  "stream"}]
    BY <2>1
  <2>. QED  BY <1>4, <2>1, <2>2, <2>3, <2>4 DEF KillDone, Goto, LocksHeld
<1>5. CASE Persist(h)
  <2>1. Return(h) /\ conn' \in [Holders -> {"none", "backlog", "sent", "leased", "refused"}]
    BY <1>5 DEF Persist, Refuse
  <2>2. backlog' \in [Agents -> Seq(Holders)]
    <3>1. <<>> \in Seq(Holders)
      BY EmptySeq
    <3>2. backlog' = backlog \/ backlog' = [backlog EXCEPT ![target[h]] = <<>>]
      BY <1>5 DEF Persist
    <3>3. PICK t \in Agents : t = target[h]
      BY <1>5 DEF Persist, Asking
    <3>4. CASE backlog' = [backlog EXCEPT ![t] = <<>>]
      BY <3>1, <3>4
    <3>. QED  BY <3>2, <3>3, <3>4
  <2>3. /\ handler' = [handler EXCEPT ![h] = "idle"] /\ verb' \in [Holders -> Verbs]
        /\ target' \in [Holders -> Agents \cup {None}] /\ mutex = None
    BY <1>5, <2>1 DEF Persist, Return, Verbs
  <2>4. LocksHeld'
    BY <1>5, <2>3 DEF Persist, LocksHeld
  <2>. QED  BY <1>5, <2>1, <2>2, <2>3, <2>4 DEF Persist, LocksHeld
<1>6. CASE Finish(h)
  BY <1>6 DEF Finish, Unlock, Return, Verbs
<1>7. ASSUME NEW a \in Agents, Ask(h, a) PROVE TypeOK'
  <2>1. [kind |-> Question(h, a), of |-> h] \in Cmd
    BY <1>7, Kinds
  <2>2. cmds' \in [Agents -> Seq(Cmd)]
    BY <1>7, <2>1, SendsLast DEF Ask
  <2>3. \/ handler' = [handler EXCEPT ![h] = "stream"] /\ mutex' = None
        \/ handler' = [handler EXCEPT ![h] = "await"] /\ mutex' = mutex
    BY <1>7 DEF Ask, Unlock, Goto
  <2>4. asked' \in [Holders -> Agents \cup {None}] /\ todo' \in [Holders -> SUBSET Agents]
    <3>1. /\ asked' = asked \/ asked' = [asked EXCEPT ![h] = a]
          /\ todo' = [todo EXCEPT ![h] = @ \ {a}]
      BY <1>7 DEF Ask
    <3>2. asked' \in [Holders -> Agents \cup {None}]
      BY <3>1
    <3>3. todo' \in [Holders -> SUBSET Agents]
      BY <3>1
    <3>. QED  BY <3>2, <3>3
  <2>5. LocksHeld' /\ mutex' \in Holders \cup {None}
    <3>1. mutex = h /\ \A g \in Holders : g # h => handler[g] \notin {"send", "await", "kill"}
      BY <1>7 DEF Ask
    <3>2. CASE handler' = [handler EXCEPT ![h] = "stream"] /\ mutex' = None
      BY <3>1, <3>2 DEF LocksHeld
    <3>3. CASE handler' = [handler EXCEPT ![h] = "await"] /\ mutex' = mutex
      BY <3>1, <3>3 DEF LocksHeld
    <3>. QED  BY <2>3, <3>2, <3>3
  <2>6. UNCHANGED <<verb, target>>
    BY <1>7 DEF Ask, Goto
  <2>7. handler' \in [Holders -> {"idle", "resolve", "lock", "send", "await", "kill", "persist",
                                  "stream"}]
    BY <2>3
  <2>. QED  BY <1>7, <2>2, <2>4, <2>5, <2>6, <2>7 DEF Ask, LocksHeld
<1>8. ASSUME NEW a \in Agents, AskFails(h, a) PROVE TypeOK'
  BY <1>8 DEF AskFails
<1>9. CASE StreamEnds(h)
  BY <1>9 DEF StreamEnds, Return, Verbs
<1>. QED  BY <1>1, <1>2, <1>3, <1>4, <1>5, <1>6, <1>7, <1>8, <1>9 DEF HandlerStep

\* The relay answers the handler that waits for it.
LEMMA Answers ==
    ASSUME IInv, NEW a \in Agents, NEW kind \in {"attach", "detach", "list", "count"},
           Take(a, kind)
    PROVE  LET h == cmds[a][1].of
           IN  /\ h \in Holders /\ handler[h] = "await" /\ asked[h] = a /\ verb[h] = VerbOf(kind)
               /\ Head(cmds[a]).of = h
               /\ \A i \in 1..Len(cmds'[a]) : ~IsQuestion(cmds'[a][i])
<1>1. TypeOK
  BY DEF IInv
<1>2. /\ Len(cmds[a]) \in Nat /\ Len(cmds[a]) >= 1 /\ Len(cmds'[a]) = Len(cmds[a]) - 1
      /\ Head(cmds[a]) = cmds[a][1] /\ cmds[a][1] \in Cmd /\ cmds[a][1].kind = kind
      /\ \A i \in 1..Len(cmds'[a]) : cmds'[a][i] = cmds[a][i + 1]
  BY <1>1, TakesFirst
<1>3. 1 \in 1..Len(cmds[a]) /\ IsQuestion(cmds[a][1])
  BY <1>2 DEF IsQuestion
<1>4. /\ handler[cmds[a][1].of] = "await" /\ asked[cmds[a][1].of] = a
      /\ verb[cmds[a][1].of] = VerbOf(kind)
      /\ \A j \in 1..Len(cmds[a]) : IsQuestion(cmds[a][j]) => j = 1
  BY <1>2, <1>3 DEF IInv, Questions
<1>5. ASSUME NEW i \in 1..Len(cmds'[a]) PROVE ~IsQuestion(cmds'[a][i])
  <2>1. i + 1 \in 1..Len(cmds[a]) /\ i + 1 # 1 /\ cmds'[a][i] = cmds[a][i + 1]
    BY <1>2
  <2>. QED  BY <1>4, <2>1
<1>. QED  BY <1>2, <1>4, <1>5 DEF Cmd

\* The relays' and the sockets' steps.
LEMMA RelayTypes ==
    ASSUME IInv, NEW a \in Agents, RelayStep(a) PROVE TypeOK'
<1>0. TypeOK
  BY DEF IInv
<1>. USE NamesAssumption DEF TypeOK, leaseVars, socketVars
<1>1. CASE Register(a)
  <2>1. cmds' \in [Agents -> Seq(Cmd)]
    BY <1>0, <1>1, TakesFirst DEF Register
  <2>2. PICK h \in Holders : handler[h] = "await" /\ Head(cmds[a]).of = h
    BY <1>1, Answers DEF Register
  <2>3. registered' = [registered EXCEPT ![a] = @ \cup {h}] /\ intended' = [intended EXCEPT ![a] = h]
    BY <1>1, <2>2 DEF Register
  <2>4. Tell({h}, todo)
    BY <1>1, <2>2 DEF Register
  <2>5. overlapped' \in [Agents -> BOOLEAN]
    BY <1>0, <1>1 DEF Register
  <2>. QED  BY <1>0, <1>1, <2>1, <2>2, <2>3, <2>4, <2>5 DEF Register, Tell, socketVars
<1>2. CASE Detach(a)
  <2>1. cmds' \in [Agents -> Seq(Cmd)]
    BY <1>0, <1>2, TakesFirst DEF Detach
  <2>2. PICK h \in Holders : handler[h] = "await" /\ Head(cmds[a]).of = h
    BY <1>2, Answers DEF Detach
  <2>3. PICK left \in [Holders -> SUBSET Agents] : Tell({h}, left)
    <3>1. todo \in [Holders -> SUBSET Agents] /\ [todo EXCEPT ![h] = {}] \in [Holders -> SUBSET Agents]
      BY <1>0
    <3>. QED  BY <1>2, <2>2, <3>1 DEF Detach
  <2>4. lease' \in [Agents -> Leased \cup {None}]
    BY <1>0, <1>2 DEF Detach
  <2>5. /\ handler' \in [Holders -> {"idle", "resolve", "lock", "send", "await", "kill", "persist",
                                      "stream"}]
        /\ asked' \in [Holders -> Agents \cup {None}] /\ todo' \in [Holders -> SUBSET Agents]
    BY <1>0, <2>3 DEF Tell
  <2>. QED  BY <1>0, <1>2, <2>1, <2>2, <2>3, <2>4, <2>5 DEF Detach, Tell, socketVars
<1>3. CASE SessionCount(a)
  <2>1. cmds' \in [Agents -> Seq(Cmd)]
    BY <1>0, <1>3, TakesFirst DEF SessionCount
  <2>2. PICK h \in Holders : handler[h] = "await" /\ Tell({h}, todo)
    BY <1>3, Answers DEF SessionCount
  <2>3. /\ handler' \in [Holders -> {"idle", "resolve", "lock", "send", "await", "kill", "persist",
                                      "stream"}]
        /\ asked' \in [Holders -> Agents \cup {None}] /\ todo' \in [Holders -> SUBSET Agents]
    BY <1>0, <2>2 DEF Tell
  <2>4. LocksHeld'
    BY <1>0, <1>3, <2>2 DEF SessionCount, Tell, LocksHeld
  <2>. QED  BY <1>0, <1>3, <2>1, <2>3, <2>4 DEF SessionCount, LocksHeld, socketVars, leaseVars
<1>8. CASE LeaseHolder(a)
  <2>1. cmds' \in [Agents -> Seq(Cmd)]
    BY <1>0, <1>8, TakesFirst DEF LeaseHolder
  <2>2. PICK h \in Holders :
            /\ handler[h] = "await" /\ handler' = [handler EXCEPT ![h] = "send"]
            /\ todo' = [todo EXCEPT ![h] = @ \cup {a}]
    BY <1>8, Answers DEF LeaseHolder
  <2>3. /\ handler' \in [Holders -> {"idle", "resolve", "lock", "send", "await", "kill", "persist",
                                      "stream"}]
        /\ todo' \in [Holders -> SUBSET Agents]
    BY <1>0, <2>2
  <2>4. LocksHeld'
    BY <1>0, <1>8, <2>2 DEF LeaseHolder, LocksHeld
  <2>. QED  BY <1>0, <1>8, <2>1, <2>3, <2>4 DEF LeaseHolder, LocksHeld, socketVars, leaseVars
<1>4. CASE Subscribe(a)
  <2>1. cmds' \in [Agents -> Seq(Cmd)]
    BY <1>0, <1>4, TakesFirst DEF Subscribe
  <2>. QED  BY <1>0, <1>4, <2>1 DEF Subscribe, handlerVars, socketVars, leaseVars
<1>5. CASE Attach(a)
  <2>1. cmds' \in [Agents -> Seq(Cmd)] /\ Head(cmds[a]) \in Cmd
    BY <1>0, <1>5, TakesFirst DEF Attach
  <2>2. PICK c \in Leased : c = [of |-> Head(cmds[a]).of, tag |-> intended[a]]
    BY <1>0, <2>1 DEF Leased, Cmd
  <2>3. intended' \in [Agents -> Holders \cup {None}]
    BY <1>0, <1>5 DEF Attach
  <2>4. CASE lease[a] = None
    <3>1. Grant(a, c) /\ UNCHANGED <<relay, candidate>>
      BY <1>5, <2>2, <2>4 DEF Attach
    <3>2. /\ lease' \in [Agents -> Leased \cup {None}]
          /\ acceptor' \in [Agents -> {"accept", "await", "returned"}]
          /\ conn' \in [Holders -> {"none", "backlog", "sent", "leased", "refused"}]
      BY <1>0, <3>1 DEF Grant, AcceptNext
    <3>. QED  BY <1>0, <1>5, <2>1, <2>3, <3>1, <3>2 DEF Attach, handlerVars
  <2>5. CASE lease[a] # None
    <3>1. /\ relay' = [relay EXCEPT ![a] = "steal"] /\ candidate' = [candidate EXCEPT ![a] = c]
          /\ UNCHANGED <<lease, conn, acceptor>>
      BY <1>5, <2>2, <2>5 DEF Attach
    <3>. QED  BY <1>0, <1>5, <2>1, <2>3, <3>1 DEF Attach, handlerVars
  <2>. QED  BY <2>4, <2>5
<1>6. CASE StealWaitEnds(a)
  <2>1. candidate[a] \in Leased
    BY <1>6 DEF IInv, OneStream, StealWaitEnds
  <2>2. /\ lease' \in [Agents -> Leased \cup {None}]
        /\ acceptor' \in [Agents -> {"accept", "await", "returned"}]
        /\ conn' \in [Holders -> {"none", "backlog", "sent", "leased", "refused"}]
    <3>1. CASE Grant(a, candidate[a])
      BY <1>0, <2>1, <3>1 DEF Grant, AcceptNext
    <3>2. CASE Refuse({candidate[a].of}) /\ AcceptNext(a) /\ UNCHANGED lease
      BY <1>0, <3>2 DEF Refuse, AcceptNext
    <3>. QED  BY <1>6, <3>1, <3>2 DEF StealWaitEnds
  <2>. QED  BY <1>0, <1>6, <2>2 DEF StealWaitEnds, handlerVars
<1>7. CASE EndRelay(a)
  <2>1. cmds' \in [Agents -> Seq(Cmd)]
    <3>1. <<>> \in Seq(Cmd)
      BY EmptySeq
    <3>. QED  BY <1>0, <1>7, <3>1 DEF EndRelay
  <2>2. conn' \in [Holders -> {"none", "backlog", "sent", "leased", "refused"}]
    BY <1>0, <1>7 DEF EndRelay, Refuse
  <2>3. Tell(Dropped(a), todo)
    BY <1>7 DEF EndRelay
  <2>. QED  BY <1>0, <1>7, <2>1, <2>2, <2>3 DEF EndRelay, Tell, Dropped
<1>. QED  BY <1>1, <1>2, <1>3, <1>4, <1>5, <1>6, <1>7, <1>8 DEF RelayStep

LEMMA SocketTypes ==
    ASSUME IInv, NEW a \in Agents,
           \/ \E h \in Holders : Connect(h)
           \/ AcceptLoop(a) \/ AcceptFails(a) \/ AgentDies(a)
    PROVE  TypeOK'
<1>0. TypeOK
  BY DEF IInv
<1>. USE NamesAssumption DEF TypeOK
<1>1. ASSUME NEW h \in Holders, Connect(h) PROVE TypeOK'
  <2>1. PICK b \in Agents : b = path[h]
    BY <1>0, <1>1 DEF Connect
  <2>2. backlog' \in [Agents -> Seq(Holders)]
    BY <1>0, <1>1, <2>1, BacklogPushes DEF Connect
  <2>. QED  BY <1>0, <1>1, <2>2 DEF Connect, leaseVars
<1>2. CASE Accept(a)
  <2>1. backlog' \in [Agents -> Seq(Holders)] /\ Head(backlog[a]) \in Holders
    BY <1>0, <1>2, BacklogPops DEF Accept
  <2>2. [kind |-> "stream", of |-> Head(backlog[a])] \in Cmd
    BY <2>1 DEF Cmd
  <2>3. cmds' \in [Agents -> Seq(Cmd)]
    BY <1>0, <1>2, <2>2, SendsLast DEF Accept
  <2>. QED  BY <1>0, <1>2, <2>1, <2>3 DEF Accept, handlerVars, leaseVars
<1>3. CASE AcceptLoopReturns(a) \/ AcceptFails(a)
  <2>0. PICK H : ReturnWith(a, H) /\ (H = {} \/ backlog[a] # <<>>)
    BY <1>3 DEF AcceptLoopReturns, AcceptFails, SeesRelayGone
  <2>1. backlog' \in [Agents -> Seq(Holders)]
    <3>1. <<>> \in Seq(Holders)
      BY EmptySeq
    <3>2. CASE ~Owned(a)
      BY <1>0, <2>0, <3>1, <3>2 DEF ReturnWith
    <3>3. CASE Owned(a) /\ H # {}
      <4>1. backlog[a] # <<>> /\ backlog' = [backlog EXCEPT ![a] = Tail(@)]
        BY <2>0, <3>3 DEF ReturnWith
      <4>. QED  BY <1>0, <4>1, BacklogPops
    <3>4. CASE Owned(a) /\ H = {}
      <4>1. backlog' = backlog
        BY <1>0, <2>0, <3>4 DEF ReturnWith
      <4>. QED  BY <1>0, <4>1
    <3>. QED  BY <3>2, <3>3, <3>4
  <2>2. conn' \in [Holders -> {"none", "backlog", "sent", "leased", "refused"}]
    BY <1>0, <2>0 DEF ReturnWith, Refuse
  <2>. QED  BY <1>0, <2>0, <2>1, <2>2 DEF ReturnWith, handlerVars, leaseVars
<1>4. CASE AgentDies(a)
  BY <1>0, <1>4 DEF AgentDies, handlerVars, leaseVars, socketVars
<1>. QED  BY <1>1, <1>2, <1>3, <1>4 DEF AcceptLoop
-----------------------------------------------------------------------------
(* Requests and their answers.                                             *)

\* What a handler asks for, while it keeps its relays waiting.
LEMMA AskingHandler ==
    ASSUME IInv, NEW h \in Holders,
           \/ \E v \in Verbs, a \in Agents \cup {None} : Request(h, v, a)
           \/ HandlerStep(h) \/ StreamEnds(h)
    PROVE  Asking'
<1>0. TypeOK /\ Asking
  BY DEF IInv
<1>. USE <1>0, NamesAssumption DEF TypeOK, Asking
<1>1. ASSUME NEW v \in Verbs, NEW a \in Agents \cup {None}, Request(h, v, a) PROVE Asking'
  <2>1. v \in {"attach", "kill", "events"} => a \in Agents
    BY <1>1 DEF Request, MayName
  <2>. QED  BY <1>1, <2>1 DEF Request
<1>2. CASE Resolve(h)
  <2>1. CASE Goto(h, "lock")
    BY <1>2, <2>1 DEF Resolve, Goto
  <2>2. CASE Return(h)
    BY <1>2, <2>2 DEF Resolve, Return
  <2>. QED  BY <1>2, <2>1, <2>2 DEF Resolve
<1>3. CASE Lock(h)
  <2>1. \A g \in Holders : handler[g] \notin {"send", "await", "kill"}
    BY <1>3 DEF Lock
  <2>2. CASE Return(h) /\ UNCHANGED <<pool, mutex, todo>>
    BY <1>3, <2>2 DEF Lock, Return
  <2>3. CASE verb[h] = "kill" /\ Goto(h, "kill") /\ UNCHANGED todo
    BY <1>3, <2>1, <2>3 DEF Lock, Goto
  <2>4. CASE /\ verb[h] # "kill" /\ Goto(h, "send") /\ UNCHANGED pool
             /\ todo' = [todo EXCEPT ![h] = Lookup(h)]
             /\ Lookup(h) # {} \/ verb[h] = "list"
    <3>1. verb[h] = "attach" => target[h] \in pool /\ Lookup(h) \subseteq {target[h]}
      BY <1>3, <2>4 DEF Lookup, Lock
    <3>. QED  BY <1>3, <2>1, <2>4, <3>1 DEF Lock, Goto
  <2>. QED  BY <1>3, <2>2, <2>3, <2>4 DEF Lock
<1>4. CASE KillDone(h)
  BY <1>4 DEF KillDone, Goto
<1>5. CASE Persist(h)
  BY <1>5 DEF Persist, Return
<1>6. CASE Finish(h)
  <2>1. asked[h] = None
    BY <1>6 DEF Finish, AllAsked
  <2>. QED  BY <1>6, <2>1 DEF Finish, Return
<1>7. ASSUME NEW a \in Agents, Ask(h, a) PROVE Asking'
  <2>1. CASE verb[h] = "events" /\ Goto(h, "stream") /\ UNCHANGED asked
    BY <1>7, <2>1 DEF Ask, Goto
  <2>2. CASE Goto(h, "await") /\ asked' = [asked EXCEPT ![h] = a]
    <3>1. /\ handler[h] = "send" /\ a \in todo[h] /\ todo' = [todo EXCEPT ![h] = @ \ {a}]
          /\ handler' = [handler EXCEPT ![h] = "await"] /\ UNCHANGED <<pool, verb, target>>
      BY <1>7, <2>2 DEF Ask, IsNext, Goto
    <3>. QED  BY <2>2, <3>1
  <2>. QED  BY <1>7, <2>1, <2>2 DEF Ask
<1>8. ASSUME NEW a \in Agents, AskFails(h, a) PROVE Asking'
  <2>1. /\ handler[h] = "send" /\ todo' = [todo EXCEPT ![h] = @ \ {a}]
        /\ asked' = [asked EXCEPT ![h] = None] /\ UNCHANGED <<pool, handler, verb, target>>
    BY <1>8 DEF AskFails
  <2>. QED  BY <2>1
<1>9. CASE StreamEnds(h)
  BY <1>9 DEF StreamEnds, Return
<1>. QED  BY <1>1, <1>2, <1>3, <1>4, <1>5, <1>6, <1>7, <1>8, <1>9 DEF HandlerStep

\* A handler that is told goes on with no more relays to ask than before.
LEMMA AskingTold ==
    ASSUME TypeOK, Asking, NEW H \in SUBSET Holders, NEW left \in [Holders -> SUBSET Agents],
           \A h \in Holders : left[h] \subseteq todo[h], \A h \in H : handler[h] = "await",
           Tell(H, left), UNCHANGED <<pool, verb, target>>
    PROVE  Asking'
  BY DEF TypeOK, Asking, Tell

LEMMA AskingStep == ASSUME IInv, [Next]_vars PROVE Asking'
<1>0. TypeOK /\ Asking
  BY DEF IInv
<1>1. ASSUME UNCHANGED <<pool, handlerVars>> PROVE Asking'
  BY <1>0, <1>1 DEF Asking, handlerVars
<1>2. ASSUME NEW h \in Holders, Connect(h) PROVE Asking'
  BY <1>0, <1>2 DEF Connect, Asking
<1>3. ASSUME NEW a \in Agents, RelayStep(a) PROVE Asking'
  <2>0. /\ todo \in [Holders -> SUBSET Agents]
        /\ \A h \in Holders : [todo EXCEPT ![h] = {}] \in [Holders -> SUBSET Agents]
    BY <1>0 DEF TypeOK
  <2>1. CASE Register(a)
    <3>1. PICK h \in Holders : handler[h] = "await" /\ Head(cmds[a]).of = h
      BY <2>1, Answers DEF Register
    <3>2. Tell({h}, todo) /\ UNCHANGED <<pool, verb, target>>
      BY <2>1, <3>1 DEF Register
    <3>. QED  BY <1>0, <2>0, <3>1, <3>2, AskingTold
  <2>2. CASE Detach(a)
    <3>1. PICK h \in Holders : handler[h] = "await" /\ Head(cmds[a]).of = h
      BY <2>2, Answers DEF Detach
    <3>2. /\ Tell({h}, todo) \/ Tell({h}, [todo EXCEPT ![h] = {}])
          /\ UNCHANGED <<pool, verb, target>>
      BY <2>2, <3>1 DEF Detach
    <3>3. PICK left \in [Holders -> SUBSET Agents] :
              Tell({h}, left) /\ \A g \in Holders : left[g] \subseteq todo[g]
      <4>1. \A g \in Holders : [todo EXCEPT ![h] = {}][g] \subseteq todo[g]
        BY <2>0
      <4>2. CASE Tell({h}, todo)
        BY <2>0, <4>2
      <4>3. CASE Tell({h}, [todo EXCEPT ![h] = {}])
        BY <2>0, <4>1, <4>3
      <4>. QED  BY <3>2, <4>2, <4>3
    <3>. QED  BY <1>0, <3>1, <3>2, <3>3, AskingTold
  <2>3. CASE SessionCount(a)
    <3>1. PICK h \in Holders : handler[h] = "await" /\ Head(cmds[a]).of = h
      BY <2>3, Answers DEF SessionCount
    <3>2. Tell({h}, todo) /\ UNCHANGED <<pool, verb, target>>
      BY <2>3, <3>1 DEF SessionCount
    <3>. QED  BY <1>0, <2>0, <3>1, <3>2, AskingTold
  <2>6. CASE LeaseHolder(a)
    <3>1. PICK h \in Holders : /\ handler[h] = "await" /\ asked[h] = a /\ verb[h] = "list"
                               /\ Head(cmds[a]).of = h
      BY <2>6, Answers DEF LeaseHolder, VerbOf
    <3>2. /\ handler' = [handler EXCEPT ![h] = "send"] /\ todo' = [todo EXCEPT ![h] = @ \cup {a}]
          /\ UNCHANGED <<pool, verb, target, asked>>
      BY <2>6, <3>1 DEF LeaseHolder
    <3>. QED  BY <1>0, <3>1, <3>2 DEF Asking, TypeOK
  <2>4. CASE EndRelay(a)
    <3>1. Tell(Dropped(a), todo) /\ UNCHANGED <<pool, verb, target>>
      BY <2>4 DEF EndRelay
    <3>2. Dropped(a) \in SUBSET Holders /\ \A h \in Dropped(a) : handler[h] = "await"
      BY DEF Dropped
    <3>. QED  BY <1>0, <2>0, <3>1, <3>2, AskingTold
  <2>5. CASE Subscribe(a) \/ Attach(a) \/ StealWaitEnds(a)
    BY <1>1, <2>5 DEF Subscribe, Attach, StealWaitEnds
  <2>. QED  BY <1>3, <2>1, <2>2, <2>3, <2>4, <2>5, <2>6 DEF RelayStep
<1>4. ASSUME NEW a \in Agents, AcceptLoop(a) \/ AcceptFails(a) \/ AgentDies(a) PROVE Asking'
  BY <1>1, <1>4 DEF AcceptLoop, Accept, AcceptLoopReturns, AcceptFails, ReturnWith, AgentDies
<1>. QED  BY <1>1, <1>2, <1>3, <1>4, AskingHandler DEF Next, vars

\* Questions stay where they are while nobody that waits does anything.
LEMMA QuestionsKept ==
    ASSUME TypeOK, Questions, cmds' = cmds,
           \A h \in Holders : handler[h] = "await" =>
               handler'[h] = "await" /\ asked'[h] = asked[h] /\ verb'[h] = verb[h]
    PROVE  Questions'
<1>1. ASSUME NEW a \in Agents, NEW i \in 1..Len(cmds[a]) PROVE cmds[a][i].of \in Holders
  <2>1. cmds[a] \in Seq(Cmd)
    BY DEF TypeOK
  <2>2. cmds[a][i] \in Cmd
    BY <2>1, ElementOfSeq
  <2>. QED  BY <2>2 DEF Cmd
<1>. QED  BY <1>1 DEF Questions

\* A command that is no question is taken.
LEMMA QuestionsMoveUp ==
    ASSUME TypeOK, Questions, NEW a \in Agents, NEW kind, Take(a, kind),
           UNCHANGED <<handler, asked, verb>>
    PROVE  Questions'
<1>1. /\ Len(cmds[a]) \in Nat /\ Len(cmds'[a]) = Len(cmds[a]) - 1
      /\ \A i \in 1..Len(cmds'[a]) : cmds'[a][i] = cmds[a][i + 1]
      /\ \A b \in Agents : b # a => cmds'[b] = cmds[b]
  BY TakesFirst
<1>2. \A i \in 1..Len(cmds'[a]) : i + 1 \in 1..Len(cmds[a])
  BY <1>1
<1>3. ASSUME NEW i \in 1..Len(cmds'[a]), IsQuestion(cmds'[a][i])
      PROVE  /\ handler'[cmds'[a][i].of] = "await" /\ asked'[cmds'[a][i].of] = a
             /\ verb'[cmds'[a][i].of] = VerbOf(cmds'[a][i].kind)
             /\ \A j \in 1..Len(cmds'[a]) : IsQuestion(cmds'[a][j]) => j = i
  <2>1. IsQuestion(cmds[a][i + 1]) /\ cmds'[a][i] = cmds[a][i + 1] /\ i + 1 \in 1..Len(cmds[a])
    BY <1>1, <1>2, <1>3
  <2>2. /\ handler[cmds[a][i + 1].of] = "await" /\ asked[cmds[a][i + 1].of] = a
        /\ verb[cmds[a][i + 1].of] = VerbOf(cmds[a][i + 1].kind)
        /\ \A j \in 1..Len(cmds[a]) : IsQuestion(cmds[a][j]) => j = i + 1
    BY <2>1 DEF Questions
  <2>3. ASSUME NEW j \in 1..Len(cmds'[a]), IsQuestion(cmds'[a][j]) PROVE j = i
    <3>1. j + 1 = i + 1
      BY <1>1, <1>2, <2>2, <2>3
    <3>. QED  BY <3>1
  <2>. QED  BY <2>1, <2>2, <2>3
<1>4. ASSUME NEW b \in Agents, b # a, NEW i \in 1..Len(cmds'[b]), IsQuestion(cmds'[b][i])
      PROVE  /\ handler'[cmds'[b][i].of] = "await" /\ asked'[cmds'[b][i].of] = b
             /\ verb'[cmds'[b][i].of] = VerbOf(cmds'[b][i].kind)
             /\ \A j \in 1..Len(cmds'[b]) : IsQuestion(cmds'[b][j]) => j = i
  BY <1>1, <1>4 DEF Questions
<1>. QED  BY <1>3, <1>4 DEF Questions

\* Before the handler with the lock asks, no channel holds a question.
LEMMA NoneAsked ==
    ASSUME TypeOK, Questions, NEW h \in Holders, mutex = h, handler[h] # "await"
    PROVE  \A a \in Agents : \A i \in 1..Len(cmds[a]) : ~IsQuestion(cmds[a][i])
<1>1. ASSUME NEW a \in Agents, NEW i \in 1..Len(cmds[a]), IsQuestion(cmds[a][i]) PROVE FALSE
  <2>1. cmds[a] \in Seq(Cmd)
    BY DEF TypeOK
  <2>2. cmds[a][i] \in Cmd
    BY <2>1, ElementOfSeq
  <2>3. cmds[a][i].of \in Holders /\ handler[cmds[a][i].of] = "await"
    BY <1>1, <2>2 DEF Questions, Cmd
  <2>. QED  BY <2>3 DEF TypeOK
<1>. QED  BY <1>1

\* The relay that takes a question leaves none in any channel.
LEMMA LastQuestion ==
    ASSUME IInv, NEW a \in Agents, NEW kind \in {"attach", "detach", "list", "count"},
           Take(a, kind)
    PROVE  Questions'
<1>0. TypeOK /\ Questions
  BY DEF IInv
<1>1. PICK h \in Holders : handler[h] = "await" /\ asked[h] = a
  BY Answers
<1>2. \A i \in 1..Len(cmds'[a]) : ~IsQuestion(cmds'[a][i])
  BY Answers
<1>3. ASSUME NEW b \in Agents, b # a, NEW i \in 1..Len(cmds[b]), IsQuestion(cmds[b][i])
      PROVE  FALSE
  <2>1. cmds[b] \in Seq(Cmd)
    BY <1>0 DEF TypeOK
  <2>2. cmds[b][i] \in Cmd
    BY <2>1, ElementOfSeq
  <2>3. PICK g \in Holders : g = cmds[b][i].of
    BY <2>2 DEF Cmd
  <2>4. handler[g] = "await" /\ asked[g] = b
    BY <1>0, <1>3, <2>3 DEF Questions
  <2>5. g = h
    BY <1>0, <1>1, <2>4 DEF TypeOK
  <2>. QED  BY <1>1, <1>3, <2>4, <2>5
<1>4. \A b \in Agents : b # a => cmds'[b] = cmds[b]
  BY <1>0, TakesFirst
<1>. QED  BY <1>2, <1>3, <1>4 DEF Questions

LEMMA QuestionsStep == ASSUME IInv, [Next]_vars PROVE Questions'
<1>0. TypeOK /\ Questions
  BY DEF IInv
<1>1. ASSUME NEW h \in Holders, NEW v \in Verbs, NEW a \in Agents \cup {None}, Request(h, v, a)
      PROVE  Questions'
  BY <1>0, <1>1, QuestionsKept DEF Request, TypeOK
<1>2. ASSUME NEW h \in Holders, Resolve(h) \/ Lock(h) \/ KillDone(h) PROVE Questions'
  <2>1. /\ handler[h] # "await" /\ cmds' = cmds /\ asked' = asked
        /\ \A g \in Holders : g # h => handler'[g] = handler[g] /\ verb'[g] = verb[g]
    BY <1>0, <1>2 DEF Resolve, Lock, KillDone, Goto, Return, TypeOK
  <2>. QED  BY <1>0, <2>1, QuestionsKept
<1>3. ASSUME NEW h \in Holders, Persist(h) \/ Finish(h) \/ StreamEnds(h) PROVE Questions'
  <2>1. /\ handler[h] # "await" /\ cmds' = cmds /\ asked' = asked
        /\ \A g \in Holders : g # h => handler'[g] = handler[g] /\ verb'[g] = verb[g]
    BY <1>0, <1>3 DEF Persist, Finish, StreamEnds, Return, TypeOK
  <2>. QED  BY <1>0, <2>1, QuestionsKept
<1>4. ASSUME NEW h \in Holders, NEW a \in Agents, AskFails(h, a) PROVE Questions'
  BY <1>0, <1>4, QuestionsKept DEF AskFails, TypeOK
<1>5. ASSUME NEW h \in Holders, NEW a \in Agents, Ask(h, a) PROVE Questions'
  <2>1. PICK m \in Cmd : /\ m.of = h /\ VerbOf(m.kind) = verb[h]
                         /\ verb[h] = "events" => m.kind = "events"
                         /\ cmds' = [cmds EXCEPT ![a] = Append(@, m)]
    <3>1. /\ [kind |-> Question(h, a), of |-> h] \in Cmd
          /\ VerbOf(Question(h, a)) = verb[h] /\ (verb[h] = "events" => Question(h, a) = "events")
      BY <1>5, Kinds DEF IInv
    <3>. QED  BY <1>5, <3>1 DEF Ask
  <2>2. /\ Len(cmds[a]) \in Nat /\ Len(cmds'[a]) = Len(cmds[a]) + 1
        /\ cmds'[a][Len(cmds[a]) + 1] = m
        /\ \A i \in 1..Len(cmds[a]) : cmds'[a][i] = cmds[a][i]
        /\ \A b \in Agents : b # a => cmds'[b] = cmds[b]
    BY <1>0, <2>1, SendsLast
  <2>3. \A b \in Agents : \A i \in 1..Len(cmds[b]) : ~IsQuestion(cmds[b][i])
    BY <1>0, <1>5, NoneAsked DEF Ask, TypeOK
  <2>4. \A i \in 1..Len(cmds'[a]) : IsQuestion(cmds'[a][i]) => i = Len(cmds[a]) + 1
    BY <2>2, <2>3
  <2>5. CASE verb[h] = "events"
    <3>1. ~IsQuestion(m)
      BY <2>1, <2>5 DEF IsQuestion
    <3>. QED  BY <2>2, <2>3, <2>4, <3>1 DEF Questions
  <2>6. CASE verb[h] # "events"
    <3>1. handler'[h] = "await" /\ asked'[h] = a /\ verb' = verb
      BY <1>0, <1>5, <2>6 DEF Ask, Goto, TypeOK
    <3>2. ASSUME NEW i \in 1..Len(cmds'[a]), IsQuestion(cmds'[a][i])
          PROVE  /\ handler'[cmds'[a][i].of] = "await" /\ asked'[cmds'[a][i].of] = a
                 /\ verb'[cmds'[a][i].of] = VerbOf(cmds'[a][i].kind)
                 /\ \A j \in 1..Len(cmds'[a]) : IsQuestion(cmds'[a][j]) => j = i
      BY <2>1, <2>2, <2>4, <3>1, <3>2
    <3>. QED  BY <2>2, <2>3, <3>2 DEF Questions
  <2>. QED  BY <2>5, <2>6
<1>6. ASSUME NEW h \in Holders, Connect(h) PROVE Questions'
  BY <1>0, <1>6, QuestionsKept DEF Connect
<1>7. ASSUME NEW a \in Agents, Register(a) \/ Detach(a) \/ LeaseHolder(a) \/ SessionCount(a)
      PROVE  Questions'
  BY <1>7, LastQuestion DEF Register, Detach, LeaseHolder, SessionCount
<1>8. ASSUME NEW a \in Agents, Subscribe(a) \/ Attach(a) PROVE Questions'
  BY <1>0, <1>8, QuestionsMoveUp DEF Subscribe, Attach, handlerVars
<1>9. ASSUME NEW a \in Agents,
             StealWaitEnds(a) \/ AgentDies(a) \/ AcceptLoopReturns(a) \/ AcceptFails(a)
      PROVE  Questions'
  BY <1>0, <1>9, QuestionsKept
     DEF StealWaitEnds, AgentDies, AcceptLoopReturns, AcceptFails, ReturnWith, handlerVars
<1>10. ASSUME NEW a \in Agents, EndRelay(a) PROVE Questions'
  <2>1. Len(cmds'[a]) = 0 /\ \A b \in Agents : b # a => cmds'[b] = cmds[b]
    BY <1>0, <1>10, EmptySeq DEF EndRelay, TypeOK
  <2>2. /\ verb' = verb
        /\ \A g \in Holders : g \notin Dropped(a) => handler'[g] = handler[g] /\ asked'[g] = asked[g]
    BY <1>0, <1>10 DEF EndRelay, Tell, TypeOK
  <2>3. ASSUME NEW b \in Agents, b # a, NEW i \in 1..Len(cmds[b]), IsQuestion(cmds[b][i])
        PROVE  cmds[b][i].of \in Holders \ Dropped(a)
    <3>1. cmds[b] \in Seq(Cmd)
      BY <1>0 DEF TypeOK
    <3>2. cmds[b][i] \in Cmd
      BY <3>1, ElementOfSeq
    <3>3. cmds[b][i].of \in Holders /\ asked[cmds[b][i].of] = b
      BY <1>0, <2>3, <3>2 DEF Questions, Cmd
    <3>. QED  BY <2>3, <3>3 DEF Dropped
  <2>. QED  BY <1>0, <2>1, <2>2, <2>3 DEF Questions
<1>11. ASSUME NEW a \in Agents, Accept(a) PROVE Questions'
  <2>1. PICK m \in Cmd : m.kind = "stream" /\ cmds' = [cmds EXCEPT ![a] = Append(@, m)]
    <3>1. Head(backlog[a]) \in Holders
      <4>1. backlog[a] \in Seq(Holders) /\ backlog[a] # <<>>
        BY <1>0, <1>11 DEF TypeOK, Accept
      <4>. QED  BY <4>1, Pops
    <3>. QED  BY <1>11, <3>1 DEF Accept, Cmd
  <2>2. /\ Len(cmds[a]) \in Nat /\ Len(cmds'[a]) = Len(cmds[a]) + 1
        /\ cmds'[a][Len(cmds[a]) + 1] = m
        /\ \A i \in 1..Len(cmds[a]) : cmds'[a][i] = cmds[a][i]
        /\ \A b \in Agents : b # a => cmds'[b] = cmds[b]
    BY <1>0, <2>1, SendsLast
  <2>3. ~IsQuestion(m) /\ UNCHANGED <<handler, asked, verb>>
    BY <1>11, <2>1 DEF IsQuestion, Accept, handlerVars
  <2>4. \A i \in 1..Len(cmds'[a]) : IsQuestion(cmds'[a][i]) => i \in 1..Len(cmds[a])
    BY <2>2, <2>3
  <2>5. \A i \in 1..Len(cmds'[a]) : IsQuestion(cmds'[a][i]) =>
           i \in 1..Len(cmds[a]) /\ cmds'[a][i] = cmds[a][i]
    BY <2>2, <2>4
  <2>6. \A b \in Agents : \A i \in 1..Len(cmds'[b]) : IsQuestion(cmds'[b][i]) =>
           i \in 1..Len(cmds[b]) /\ cmds'[b][i] = cmds[b][i]
    BY <2>2, <2>5
  <2>. QED  BY <1>0, <2>3, <2>6 DEF Questions
<1>12. CASE UNCHANGED vars
  BY <1>0, <1>12, QuestionsKept DEF vars, handlerVars
<1>. QED  BY <1>1, <1>2, <1>3, <1>4, <1>5, <1>6, <1>7, <1>8, <1>9, <1>10, <1>11, <1>12
          DEF Next, HandlerStep, RelayStep, AcceptLoop
-----------------------------------------------------------------------------
(* Where connections are.                                                  *)

\* Taking a command adds no stream.
LEMMA StreamsTaken ==
    ASSUME TypeOK, NEW a \in Agents, NEW kind, Take(a, kind), NEW b \in Agents, NEW h,
           InChannel(b, h)'
    PROVE  InChannel(b, h)
<1>1. /\ Len(cmds[a]) \in Nat /\ Len(cmds'[a]) = Len(cmds[a]) - 1
      /\ \A i \in 1..Len(cmds'[a]) : cmds'[a][i] = cmds[a][i + 1]
      /\ \A c \in Agents : c # a => cmds'[c] = cmds[c]
  BY TakesFirst
<1>2. CASE b # a
  BY <1>1, <1>2 DEF InChannel
<1>3. CASE b = a
  <2>1. PICK i \in 1..Len(cmds'[a]) : IsStream(cmds'[a][i]) /\ cmds'[a][i].of = h
    BY <1>3 DEF InChannel
  <2>2. i + 1 \in 1..Len(cmds[a]) /\ IsStream(cmds[a][i + 1]) /\ cmds[a][i + 1].of = h
    BY <1>1, <2>1
  <2>. QED  BY <1>3, <2>2 DEF InChannel
<1>. QED  BY <1>2, <1>3

\* Sending one adds that one.
LEMMA StreamsAdded ==
    ASSUME TypeOK, NEW a \in Agents, NEW m \in Cmd, cmds' = [cmds EXCEPT ![a] = Append(@, m)],
           NEW b \in Agents, NEW h, InChannel(b, h)'
    PROVE  InChannel(b, h) \/ (b = a /\ IsStream(m) /\ m.of = h)
<1>1. /\ Len(cmds[a]) \in Nat /\ Len(cmds'[a]) = Len(cmds[a]) + 1
      /\ cmds'[a][Len(cmds[a]) + 1] = m
      /\ \A i \in 1..Len(cmds[a]) : cmds'[a][i] = cmds[a][i]
      /\ \A c \in Agents : c # a => cmds'[c] = cmds[c]
  BY SendsLast
<1>2. CASE b # a
  BY <1>1, <1>2 DEF InChannel
<1>3. CASE b = a
  <2>1. PICK i \in 1..Len(cmds'[a]) : IsStream(cmds'[a][i]) /\ cmds'[a][i].of = h
    BY <1>3 DEF InChannel
  <2>2. i \in 1..Len(cmds[a]) \/ i = Len(cmds[a]) + 1
    BY <1>1
  <2>3. CASE i \in 1..Len(cmds[a])
    BY <1>1, <1>3, <2>1, <2>3 DEF InChannel
  <2>. QED  BY <1>1, <1>3, <2>1, <2>2, <2>3
<1>. QED  BY <1>2, <1>3

\* A relay that takes a stream has no other, and nor has one in a steal wait.
LEMMA LastStream ==
    ASSUME IInv, NEW a \in Agents, Attach(a) \/ StealWaitEnds(a), NEW h
    PROVE  ~InChannel(a, h)'
<1>0. TypeOK /\ OneStream
  BY DEF IInv
<1>1. CASE StealWaitEnds(a)
  <2>1. ~InChannel(a, h)
    BY <1>0, <1>1 DEF StealWaitEnds, OneStream, InChannel
  <2>. QED  BY <1>1, <2>1 DEF StealWaitEnds, InChannel
<1>2. CASE Attach(a)
  <2>1. /\ Len(cmds[a]) \in Nat /\ Len(cmds[a]) >= 1 /\ Len(cmds'[a]) = Len(cmds[a]) - 1
        /\ cmds[a][1].kind = "stream"
        /\ \A i \in 1..Len(cmds'[a]) : cmds'[a][i] = cmds[a][i + 1]
    BY <1>0, <1>2, TakesFirst DEF Attach
  <2>2. 1 \in 1..Len(cmds[a]) /\ IsStream(cmds[a][1])
    BY <2>1 DEF IsStream
  <2>3. \A j \in 1..Len(cmds[a]) : IsStream(cmds[a][j]) => j = 1
    BY <1>0, <2>2 DEF OneStream
  <2>4. ASSUME NEW i \in 1..Len(cmds'[a]), IsStream(cmds'[a][i]) PROVE FALSE
    <3>1. i + 1 \in 1..Len(cmds[a]) /\ i + 1 # 1 /\ cmds'[a][i] = cmds[a][i + 1]
      BY <2>1
    <3>. QED  BY <2>3, <2>4, <3>1
  <2>. QED  BY <2>4 DEF InChannel
<1>. QED  BY <1>1, <1>2

\* The connections H come to an end with the relay; nothing else moves.
LEMMA PlacesSettled ==
    ASSUME TypeOK, Places, NEW H \in SUBSET Holders,
           \A h \in H : conn[h] = "sent",
           \A h \in Holders : h \notin H => conn'[h] = conn[h],
           UNCHANGED <<path, backlog>>,
           \A a \in Agents, h \in Holders :
               Sent(a, h)' => Sent(a, h) /\ h \notin H /\ acceptor'[a] = acceptor[a]
    PROVE  Places'
<1>1. ASSUME NEW h \in Holders, path'[h] # None PROVE conn'[h] = "none"
  BY <1>1 DEF Places
<1>2. ASSUME NEW a \in Agents, NEW i \in 1..Len(backlog'[a])
      PROVE  /\ conn'[backlog'[a][i]] = "backlog"
             /\ \A b \in Agents : \A j \in 1..Len(backlog'[b]) :
                    backlog'[a][i] = backlog'[b][j] => a = b /\ i = j
  <2>1. backlog[a] \in Seq(Holders) /\ i \in 1..Len(backlog[a])
    BY DEF TypeOK
  <2>2. backlog[a][i] \in Holders /\ conn[backlog[a][i]] = "backlog"
    BY <2>1, ElementOfSeq DEF Places
  <2>. QED  BY <2>1, <2>2 DEF Places
<1>3. ASSUME NEW a \in Agents, NEW h \in Holders, Sent(a, h)'
      PROVE  /\ conn'[h] = "sent" /\ acceptor'[a] = "await"
             /\ \A b \in Agents : Sent(b, h)' => b = a
  <2>1. Sent(a, h) /\ h \notin H /\ acceptor'[a] = acceptor[a]
    BY <1>3
  <2>. QED  BY <2>1 DEF Places
<1>. QED  BY <1>1, <1>2, <1>3 DEF Places

\* The connections in the backlog of a are refused.
LEMMA PlacesDropped ==
    ASSUME TypeOK, Places, NEW a \in Agents,
           conn' = [h \in Holders |-> IF h \in ToSet(backlog[a]) THEN "refused" ELSE conn[h]],
           backlog' = [backlog EXCEPT ![a] = <<>>], path' = path,
           \A b \in Agents, h \in Holders :
               Sent(b, h)' => Sent(b, h) /\ acceptor'[b] = acceptor[b]
    PROVE  Places'
<1>0. \A h \in ToSet(backlog[a]) : conn[h] = "backlog"
  BY DEF Places, ToSet, TypeOK
<1>1. ASSUME NEW h \in Holders, path'[h] # None PROVE conn'[h] = "none"
  BY <1>0, <1>1 DEF Places
<1>2. Len(backlog'[a]) = 0 /\ \A b \in Agents : b # a => backlog'[b] = backlog[b]
  BY EmptySeq DEF TypeOK
<1>3. ASSUME NEW c \in Agents, NEW i \in 1..Len(backlog'[c])
      PROVE  /\ conn'[backlog'[c][i]] = "backlog"
             /\ \A b \in Agents : \A j \in 1..Len(backlog'[b]) :
                    backlog'[c][i] = backlog'[b][j] => c = b /\ i = j
  <2>1. c # a /\ backlog'[c] = backlog[c] /\ backlog[c] \in Seq(Holders) /\ backlog[a] \in Seq(Holders)
    BY <1>2 DEF TypeOK
  <2>2. backlog[c][i] \in Holders /\ conn[backlog[c][i]] = "backlog"
    BY <2>1, ElementOfSeq DEF Places
  <2>3. backlog[c][i] \notin ToSet(backlog[a])
    <3>1. \A j \in 1..Len(backlog[a]) : backlog[a][j] # backlog[c][i]
      BY <2>1 DEF Places
    <3>2. DOMAIN backlog[a] = 1..Len(backlog[a])
      BY <2>1, LenProperties
    <3>. QED  BY <3>1, <3>2 DEF ToSet
  <2>4. conn'[backlog'[c][i]] = "backlog"
    BY <2>1, <2>2, <2>3
  <2>5. ASSUME NEW b \in Agents, NEW j \in 1..Len(backlog'[b]), backlog'[c][i] = backlog'[b][j]
        PROVE  c = b /\ i = j
    <3>1. b # a /\ backlog'[b] = backlog[b]
      BY <1>2
    <3>. QED  BY <2>1, <2>5, <3>1 DEF Places
  <2>. QED  BY <2>4, <2>5
<1>4. ASSUME NEW b \in Agents, NEW h \in Holders, Sent(b, h)'
      PROVE  /\ conn'[h] = "sent" /\ acceptor'[b] = "await"
             /\ \A c \in Agents : Sent(c, h)' => c = b
  <2>1. Sent(b, h) /\ acceptor'[b] = acceptor[b]
    BY <1>4
  <2>2. conn[h] = "sent"
    BY <2>1 DEF Places
  <2>3. h \notin ToSet(backlog[a])
    BY <1>0, <2>2
  <2>. QED  BY <2>1, <2>2, <2>3 DEF Places
<1>. QED  BY <1>1, <1>3, <1>4 DEF Places

\* The connection at the head of the backlog of a is accepted or dropped.
LEMMA PlacesMoved ==
    ASSUME TypeOK, Places, NEW a \in Agents, backlog[a] # <<>>, NEW what \in {"sent", "refused"},
           conn' = [conn EXCEPT ![Head(backlog[a])] = what],
           backlog' = [backlog EXCEPT ![a] = Tail(@)], path' = path,
           \A b \in Agents, h \in Holders : Sent(b, h)' =>
               \/ Sent(b, h) /\ acceptor'[b] = acceptor[b]
               \/ what = "sent" /\ b = a /\ h = Head(backlog[a]) /\ acceptor'[b] = "await"
    PROVE  Places'
<1>0. /\ Len(backlog[a]) \in Nat /\ Len(backlog[a]) >= 1
      /\ Len(backlog'[a]) = Len(backlog[a]) - 1
      /\ Head(backlog[a]) = backlog[a][1] /\ backlog[a][1] \in Holders
      /\ \A i \in 1..Len(backlog'[a]) : backlog'[a][i] = backlog[a][i + 1]
      /\ \A b \in Agents : b # a => backlog'[b] = backlog[b]
  BY BacklogPops
<1>1. PICK g \in Holders : g = backlog[a][1]
  BY <1>0
<1>2. /\ 1 \in 1..Len(backlog[a]) /\ conn[g] = "backlog" /\ conn' = [conn EXCEPT ![g] = what]
      /\ \A b \in Agents : \A j \in 1..Len(backlog[b]) : backlog[b][j] = g => b = a /\ j = 1
  BY <1>0, <1>1 DEF Places
<1>3. ASSUME NEW h \in Holders, path'[h] # None PROVE conn'[h] = "none"
  BY <1>2, <1>3 DEF Places, TypeOK
<1>4. ASSUME NEW b \in Agents, NEW i \in 1..Len(backlog'[b])
      PROVE  \E k \in 1..Len(backlog[b]) :
                 /\ k = (IF b = a THEN i + 1 ELSE i) /\ backlog'[b][i] = backlog[b][k]
                 /\ backlog[b][k] \in Holders /\ backlog[b][k] # g
  <2>1. PICK k \in 1..Len(backlog[b]) :
            k = (IF b = a THEN i + 1 ELSE i) /\ backlog'[b][i] = backlog[b][k]
    BY <1>0
  <2>2. backlog[b] \in Seq(Holders)
    BY DEF TypeOK
  <2>3. backlog[b][k] \in Holders
    BY <2>2, ElementOfSeq
  <2>4. backlog[b][k] # g
    BY <1>2, <2>1
  <2>. QED  BY <2>1, <2>3, <2>4
<1>5. ASSUME NEW c \in Agents, NEW i \in 1..Len(backlog'[c])
      PROVE  /\ conn'[backlog'[c][i]] = "backlog"
             /\ \A b \in Agents : \A j \in 1..Len(backlog'[b]) :
                    backlog'[c][i] = backlog'[b][j] => c = b /\ i = j
  <2>1. PICK k \in 1..Len(backlog[c]) :
            /\ k = (IF c = a THEN i + 1 ELSE i) /\ backlog'[c][i] = backlog[c][k]
            /\ backlog[c][k] \in Holders /\ backlog[c][k] # g
    BY <1>4
  <2>2. conn'[backlog'[c][i]] = "backlog"
    BY <1>2, <2>1 DEF Places, TypeOK
  <2>3. ASSUME NEW b \in Agents, NEW j \in 1..Len(backlog'[b]), backlog'[c][i] = backlog'[b][j]
        PROVE  c = b /\ i = j
    <3>1. PICK l \in 1..Len(backlog[b]) :
              l = (IF b = a THEN j + 1 ELSE j) /\ backlog'[b][j] = backlog[b][l]
      BY <1>4
    <3>2. c = b /\ k = l
      BY <2>1, <2>3, <3>1 DEF Places
    <3>3. i \in Int /\ j \in Int
      OBVIOUS
    <3>. QED  BY <2>1, <3>1, <3>2, <3>3
  <2>. QED  BY <2>2, <2>3
<1>6. \A b \in Agents : ~Sent(b, g)
  BY <1>2 DEF Places
<1>7. ASSUME NEW b \in Agents, NEW h \in Holders, Sent(b, h)'
      PROVE  /\ conn'[h] = "sent" /\ acceptor'[b] = "await"
             /\ \A c \in Agents : Sent(c, h)' => c = b
  <2>1. CASE h = g
    <3>1. what = "sent" /\ b = a /\ acceptor'[b] = "await"
      BY <1>6, <1>7, <2>1
    <3>2. conn'[h] = "sent"
      BY <1>2, <2>1, <3>1 DEF TypeOK
    <3>. QED  BY <1>6, <2>1, <3>1, <3>2
  <2>2. CASE h # g
    <3>1. \A c \in Agents : Sent(c, h)' => Sent(c, h) /\ acceptor'[c] = acceptor[c]
      BY <1>0, <1>1, <2>2
    <3>2. conn'[h] = conn[h]
      BY <1>2, <2>2 DEF TypeOK
    <3>. QED  BY <1>7, <3>1, <3>2 DEF Places
  <2>. QED  BY <2>1, <2>2
<1>. QED  BY <1>3, <1>5, <1>7 DEF Places
\* Taking a command leaves one stream at most, and an ended relay takes none.
LEMMA OneStreamTaken ==
    ASSUME TypeOK, OneStream, NEW a \in Agents, NEW kind, Take(a, kind),
           \A b \in Agents : b # a => relay'[b] = relay[b] /\ candidate'[b] = candidate[b],
           relay'[a] # "ended", relay'[a] = "steal" => candidate'[a] \in Leased,
           relay'[a] = "steal" => \A h \in Holders : ~InChannel(a, h)'
    PROVE  OneStream'
<1>1. /\ cmds' \in [Agents -> Seq(Cmd)]
      /\ Len(cmds[a]) \in Nat /\ Len(cmds'[a]) = Len(cmds[a]) - 1
      /\ \A i \in 1..Len(cmds'[a]) : cmds'[a][i] = cmds[a][i + 1]
      /\ \A b \in Agents : b # a => cmds'[b] = cmds[b]
  BY TakesFirst
<1>2. \A i \in 1..Len(cmds'[a]) : i + 1 \in 1..Len(cmds[a])
  BY <1>1
<1>3. ASSUME NEW i \in 1..Len(cmds'[a]), IsStream(cmds'[a][i])
      PROVE  relay'[a] # "steal" /\ \A j \in 1..Len(cmds'[a]) : IsStream(cmds'[a][j]) => j = i
  <2>1. cmds'[a] \in Seq(Cmd)
    BY <1>1
  <2>2. cmds'[a][i] \in Cmd
    BY <2>1, ElementOfSeq
  <2>3. cmds'[a][i].of \in Holders
    BY <2>2 DEF Cmd
  <2>4. relay'[a] # "steal"
    BY <1>3, <2>3 DEF InChannel
  <2>5. IsStream(cmds[a][i + 1]) /\ i + 1 \in 1..Len(cmds[a])
    BY <1>1, <1>2, <1>3
  <2>6. ASSUME NEW j \in 1..Len(cmds'[a]), IsStream(cmds'[a][j]) PROVE j = i
    <3>1. IsStream(cmds[a][j + 1]) /\ j + 1 \in 1..Len(cmds[a])
      BY <1>1, <1>2, <2>6
    <3>2. j + 1 = i + 1
      BY <2>5, <3>1 DEF OneStream
    <3>. QED  BY <3>2
  <2>. QED  BY <2>4, <2>6
<1>4. ASSUME NEW b \in Agents, b # a
      PROVE  /\ relay'[b] = relay[b] /\ candidate'[b] = candidate[b] /\ cmds'[b] = cmds[b]
  BY <1>1, <1>4
<1>. QED  BY <1>3, <1>4 DEF OneStream

\* Sending adds one to none.
LEMMA OneStreamSent ==
    ASSUME TypeOK, OneStream, NEW a \in Agents, NEW m \in Cmd, cmds' = [cmds EXCEPT ![a] = Append(@, m)],
           UNCHANGED <<relay, candidate>>, relay[a] # "ended",
           IsStream(m) => relay[a] # "steal" /\ \A h \in Holders : ~InChannel(a, h)
    PROVE  OneStream'
<1>1. /\ Len(cmds[a]) \in Nat /\ Len(cmds'[a]) = Len(cmds[a]) + 1
      /\ cmds'[a][Len(cmds[a]) + 1] = m
      /\ \A i \in 1..Len(cmds[a]) : cmds'[a][i] = cmds[a][i]
      /\ \A b \in Agents : b # a => cmds'[b] = cmds[b]
  BY SendsLast
<1>2. IsStream(m) => \A i \in 1..Len(cmds[a]) : ~IsStream(cmds[a][i])
  BY Commands DEF InChannel
<1>3. \A i \in 1..Len(cmds'[a]) : i \in 1..Len(cmds[a]) \/ i = Len(cmds[a]) + 1
  BY <1>1
<1>4. ASSUME NEW i \in 1..Len(cmds'[a]), IsStream(cmds'[a][i])
      PROVE  relay'[a] # "steal" /\ \A j \in 1..Len(cmds'[a]) : IsStream(cmds'[a][j]) => j = i
  <2>1. CASE IsStream(m)
    BY <1>1, <1>2, <1>3, <1>4, <2>1
  <2>2. CASE ~IsStream(m)
    <3>1. i \in 1..Len(cmds[a]) /\ IsStream(cmds[a][i])
      BY <1>1, <1>3, <1>4, <2>2
    <3>2. ASSUME NEW j \in 1..Len(cmds'[a]), IsStream(cmds'[a][j]) PROVE j = i
      <4>1. j \in 1..Len(cmds[a]) /\ IsStream(cmds[a][j])
        BY <1>1, <1>3, <2>2, <3>2
      <4>. QED  BY <3>1, <4>1 DEF OneStream
    <3>. QED  BY <3>1, <3>2 DEF OneStream
  <2>. QED  BY <2>1, <2>2
<1>. QED  BY <1>1, <1>4 DEF OneStream

LEMMA OneStreamStep == ASSUME IInv, [Next]_vars PROVE OneStream'
<1>0. TypeOK /\ OneStream
  BY DEF IInv
<1>1. ASSUME UNCHANGED <<relay, candidate, cmds>> PROVE OneStream'
  BY <1>0, <1>1 DEF OneStream
<1>2. ASSUME NEW h \in Holders, NEW v \in Verbs, NEW a \in Agents \cup {None}, Request(h, v, a)
      PROVE  OneStream'
  BY <1>1, <1>2 DEF Request, leaseVars
<1>3. ASSUME NEW h \in Holders,
             \/ Resolve(h) \/ Lock(h) \/ KillDone(h) \/ Persist(h) \/ Finish(h) \/ StreamEnds(h)
             \/ Connect(h) \/ \E a \in Agents : AskFails(h, a)
      PROVE  OneStream'
  BY <1>1, <1>3
     DEF Resolve, Lock, KillDone, Persist, Finish, StreamEnds, Connect, AskFails, leaseVars
<1>4. ASSUME NEW h \in Holders, NEW a \in Agents, Ask(h, a) PROVE OneStream'
  <2>1. PICK m \in Cmd : ~IsStream(m) /\ cmds' = [cmds EXCEPT ![a] = Append(@, m)]
    BY <1>4, Kinds DEF Ask, IInv
  <2>. QED  BY <1>0, <1>4, <2>1, OneStreamSent DEF Ask, leaseVars
<1>5. ASSUME NEW a \in Agents,
             Register(a) \/ Detach(a) \/ LeaseHolder(a) \/ SessionCount(a) \/ Subscribe(a)
      PROVE  OneStream'
  <2>1. PICK kind : Take(a, kind)
    BY <1>5 DEF Register, Detach, LeaseHolder, SessionCount, Subscribe
  <2>2. UNCHANGED <<relay, candidate>> /\ relay[a] = "select"
    BY <1>5 DEF Register, Detach, LeaseHolder, SessionCount, Subscribe, Take, leaseVars
  <2>. QED  BY <1>0, <2>1, <2>2, OneStreamTaken
<1>6. ASSUME NEW a \in Agents, Attach(a) PROVE OneStream'
  <2>1. Head(cmds[a]) \in Cmd
    BY <1>0, <1>6, TakesFirst DEF Attach
  <2>2. PICK c \in Leased : c = [of |-> Head(cmds[a]).of, tag |-> intended[a]]
    BY <1>0, <2>1 DEF Leased, Cmd, TypeOK
  <2>3. \/ UNCHANGED <<relay, candidate>>
        \/ relay' = [relay EXCEPT ![a] = "steal"] /\ candidate' = [candidate EXCEPT ![a] = c]
    BY <1>6, <2>2 DEF Attach
  <2>4. relay[a] = "select" /\ Take(a, "stream")
    BY <1>6 DEF Attach, Take
  <2>5. /\ \A b \in Agents : b # a => relay'[b] = relay[b] /\ candidate'[b] = candidate[b]
        /\ relay'[a] # "ended"
        /\ relay'[a] = "steal" => candidate'[a] \in Leased
    BY <1>0, <2>3, <2>4 DEF TypeOK
  <2>6. \A h \in Holders : ~InChannel(a, h)'
    BY <1>6, LastStream
  <2>. QED  BY <1>0, <2>4, <2>5, <2>6, OneStreamTaken
<1>7. ASSUME NEW a \in Agents, StealWaitEnds(a) PROVE OneStream'
  <2>1. /\ relay[a] = "steal" /\ relay' = [relay EXCEPT ![a] = "select"] /\ cmds' = cmds
        /\ candidate' = [candidate EXCEPT ![a] = None]
    BY <1>7 DEF StealWaitEnds
  <2>. QED  BY <1>0, <2>1 DEF OneStream, TypeOK
<1>8. ASSUME NEW a \in Agents, EndRelay(a) PROVE OneStream'
  <2>1. /\ relay' = [relay EXCEPT ![a] = "ended"] /\ candidate' = candidate
        /\ cmds' = [cmds EXCEPT ![a] = <<>>]
    BY <1>8 DEF EndRelay
  <2>2. Len(cmds'[a]) = 0 /\ \A b \in Agents : b # a => cmds'[b] = cmds[b]
    BY <1>0, <2>1, EmptySeq DEF TypeOK
  <2>3. relay'[a] = "ended" /\ \A b \in Agents : b # a => relay'[b] = relay[b]
    BY <1>0, <2>1 DEF TypeOK
  <2>. QED  BY <1>0, <2>1, <2>2, <2>3 DEF OneStream
<1>9. ASSUME NEW a \in Agents, AgentDies(a) \/ AcceptLoopReturns(a) \/ AcceptFails(a)
      PROVE  OneStream'
  BY <1>1, <1>9 DEF AgentDies, AcceptLoopReturns, AcceptFails, ReturnWith, leaseVars
<1>10. ASSUME NEW a \in Agents, Accept(a) PROVE OneStream'
  <2>1. PICK m \in Cmd : cmds' = [cmds EXCEPT ![a] = Append(@, m)]
    <3>1. Head(backlog[a]) \in Holders
      <4>1. backlog[a] \in Seq(Holders) /\ backlog[a] # <<>>
        BY <1>0, <1>10 DEF TypeOK, Accept
      <4>. QED  BY <4>1, Pops
    <3>. QED  BY <1>10, <3>1 DEF Accept, Cmd
  <2>2. \A h \in Holders : ~Sent(a, h)
    BY <1>10 DEF IInv, Places, Accept
  <2>3. relay[a] # "steal"
    <3>1. relay[a] = "steal" => candidate[a].of \in Holders
      BY <1>0 DEF OneStream, Leased
    <3>. QED  BY <2>2, <3>1 DEF Sent
  <2>. QED  BY <1>0, <1>10, <2>1, <2>2, <2>3, OneStreamSent DEF Accept, leaseVars, Sent
<1>. QED  BY <1>1, <1>2, <1>3, <1>4, <1>5, <1>6, <1>7, <1>8, <1>9, <1>10
          DEF Next, HandlerStep, RelayStep, AcceptLoop, vars, leaseVars

LEMMA PlacesStep == ASSUME IInv, [Next]_vars PROVE Places'
<1>0. TypeOK /\ Places /\ OneStream
  BY DEF IInv
<1>1. ASSUME UNCHANGED <<path, conn, backlog, acceptor>>,
             \A a \in Agents, h \in Holders : Sent(a, h)' => Sent(a, h)
      PROVE  Places'
  <2>1. PICK H \in SUBSET Holders : H = {}
    OBVIOUS
  <2>. QED  BY <1>0, <1>1, <2>1, PlacesSettled
<1>2. ASSUME UNCHANGED <<cmds, relay, candidate>>
      PROVE  \A a \in Agents, h \in Holders : Sent(a, h)' => Sent(a, h)
  BY <1>2 DEF Sent, InChannel
<1>3. ASSUME NEW h \in Holders, NEW v \in Verbs, NEW a \in Agents \cup {None}, Request(h, v, a)
      PROVE  Places'
  BY <1>1, <1>2, <1>3 DEF Request, leaseVars, socketVars
<1>4. ASSUME NEW h \in Holders,
             \/ Resolve(h) \/ Lock(h) \/ KillDone(h) \/ StreamEnds(h)
             \/ \E a \in Agents : AskFails(h, a)
      PROVE  Places'
  BY <1>1, <1>2, <1>4
     DEF Resolve, Lock, KillDone, StreamEnds, AskFails, leaseVars, socketVars
<1>5. ASSUME NEW h \in Holders, Persist(h) PROVE Places'
  <2>0. UNCHANGED <<cmds, relay, candidate, path, acceptor>>
    BY <1>5 DEF Persist, leaseVars
  <2>1. CASE acceptor[target[h]] = "returned"
    <3>1. PICK t \in Agents : t = target[h]
      BY <1>5 DEF Persist, IInv, Asking
    <3>2. Refuse(ToSet(backlog[t])) /\ backlog' = [backlog EXCEPT ![t] = <<>>]
      BY <1>5, <2>1, <3>1 DEF Persist
    <3>. QED  BY <1>0, <1>2, <2>0, <3>2, PlacesDropped DEF Refuse
  <2>2. CASE acceptor[target[h]] # "returned"
    BY <1>1, <1>2, <1>5, <2>0, <2>2 DEF Persist
  <2>. QED  BY <2>1, <2>2
<1>6. ASSUME NEW h \in Holders, NEW a \in Agents, Ask(h, a) PROVE Places'
  <2>1. PICK m \in Cmd : ~IsStream(m) /\ cmds' = [cmds EXCEPT ![a] = Append(@, m)]
    BY <1>6, Kinds DEF Ask, IInv
  <2>2. UNCHANGED <<relay, candidate, path, conn, backlog, acceptor>>
    BY <1>6 DEF Ask, leaseVars, socketVars
  <2>3. \A b \in Agents, g \in Holders : InChannel(b, g)' => InChannel(b, g)
    BY <1>0, <2>1, StreamsAdded
  <2>. QED  BY <1>1, <2>2, <2>3 DEF Sent
<1>7. ASSUME NEW h \in Holders, Finish(h) PROVE Places'
  <2>1. UNCHANGED <<cmds, relay, candidate, conn, backlog, acceptor>>
    BY <1>7 DEF Finish, leaseVars, socketVars
  <2>2. \A g \in Holders : path'[g] # None => conn[g] = "none"
    BY <1>0, <1>7 DEF Finish, Places, TypeOK
  <2>. QED  BY <1>0, <1>2, <2>1, <2>2 DEF Places
<1>8. ASSUME NEW h \in Holders, Connect(h) PROVE Places'
  <2>1. PICK a \in Agents : path[h] = a
    BY <1>0, <1>8 DEF Connect, TypeOK
  <2>2. /\ conn[h] = "none" /\ conn' = [conn EXCEPT ![h] = "backlog"]
        /\ backlog' = [backlog EXCEPT ![a] = Append(@, h)]
        /\ path' = [path EXCEPT ![h] = None] /\ UNCHANGED <<cmds, relay, candidate, acceptor>>
    BY <1>8, <2>1 DEF Connect, leaseVars
  <2>3. /\ Len(backlog[a]) \in Nat /\ Len(backlog'[a]) = Len(backlog[a]) + 1
        /\ backlog'[a][Len(backlog[a]) + 1] = h
        /\ \A i \in 1..Len(backlog[a]) : backlog'[a][i] = backlog[a][i]
        /\ \A b \in Agents : b # a => backlog'[b] = backlog[b]
    BY <1>0, <2>2, BacklogPushes
  <2>4. ASSUME NEW g \in Holders, path'[g] # None PROVE conn'[g] = "none"
    BY <1>0, <2>2, <2>4 DEF Places, TypeOK
  <2>5. ASSUME NEW b \in Agents, NEW i \in 1..Len(backlog[b])
        PROVE  backlog[b][i] \in Holders /\ backlog[b][i] # h
    <3>1. backlog[b] \in Seq(Holders)
      BY <1>0 DEF TypeOK
    <3>2. backlog[b][i] \in Holders
      BY <3>1, ElementOfSeq
    <3>. QED  BY <1>0, <2>2, <3>2 DEF Places
  <2>6. ASSUME NEW b \in Agents, NEW i \in 1..Len(backlog'[b])
        PROVE  \/ i \in 1..Len(backlog[b]) /\ backlog'[b][i] = backlog[b][i]
               \/ b = a /\ i = Len(backlog[a]) + 1 /\ backlog'[b][i] = h
    BY <2>3
  <2>7. ASSUME NEW c \in Agents, NEW i \in 1..Len(backlog'[c])
        PROVE  /\ conn'[backlog'[c][i]] = "backlog"
               /\ \A b \in Agents : \A j \in 1..Len(backlog'[b]) :
                      backlog'[c][i] = backlog'[b][j] => c = b /\ i = j
    <3>1. conn'[backlog'[c][i]] = "backlog"
      BY <1>0, <2>2, <2>5, <2>6 DEF Places, TypeOK
    <3>2. ASSUME NEW b \in Agents, NEW j \in 1..Len(backlog'[b]), backlog'[c][i] = backlog'[b][j]
          PROVE  c = b /\ i = j
      <4>0. /\ \/ i \in 1..Len(backlog[c]) /\ backlog'[c][i] = backlog[c][i]
               \/ c = a /\ i = Len(backlog[a]) + 1 /\ backlog'[c][i] = h
            /\ \/ j \in 1..Len(backlog[b]) /\ backlog'[b][j] = backlog[b][j]
               \/ b = a /\ j = Len(backlog[a]) + 1 /\ backlog'[b][j] = h
        BY <2>6, <3>2
      <4>1. CASE backlog'[c][i] = h
        <5>1. c = a /\ i = Len(backlog[a]) + 1
          BY <2>5, <4>0, <4>1
        <5>2. b = a /\ j = Len(backlog[a]) + 1
          BY <2>5, <3>2, <4>0, <4>1
        <5>. QED  BY <5>1, <5>2
      <4>2. CASE backlog'[c][i] # h
        <5>1. /\ i \in 1..Len(backlog[c]) /\ backlog'[c][i] = backlog[c][i]
              /\ j \in 1..Len(backlog[b]) /\ backlog'[b][j] = backlog[b][j]
          BY <3>2, <4>0, <4>2
        <5>2. backlog[c][i] = backlog[b][j]
          BY <3>2, <5>1
        <5>. QED  BY <1>0, <5>1, <5>2 DEF Places
      <4>. QED  BY <4>1, <4>2
    <3>. QED  BY <3>1, <3>2
  <2>8. ASSUME NEW b \in Agents, NEW g \in Holders, Sent(b, g)'
        PROVE  /\ conn'[g] = "sent" /\ acceptor'[b] = "await"
               /\ \A c \in Agents : Sent(c, g)' => c = b
    <3>1. \A c \in Agents : Sent(c, g)' => Sent(c, g)
      BY <1>2, <2>2
    <3>2. conn[g] = "sent" /\ g # h
      BY <1>0, <2>2, <2>8, <3>1 DEF Places
    <3>. QED  BY <1>0, <2>2, <2>8, <3>1, <3>2 DEF Places, TypeOK
  <2>. QED  BY <2>4, <2>7, <2>8 DEF Places
<1>9. ASSUME NEW a \in Agents,
             Register(a) \/ Detach(a) \/ LeaseHolder(a) \/ SessionCount(a) \/ Subscribe(a)
      PROVE  Places'
  <2>1. PICK kind : Take(a, kind)
    BY <1>9 DEF Register, Detach, LeaseHolder, SessionCount, Subscribe
  <2>2. UNCHANGED <<relay, candidate, path, conn, backlog, acceptor>>
    BY <1>9
       DEF Register, Detach, LeaseHolder, SessionCount, Subscribe, leaseVars, socketVars, handlerVars
  <2>3. \A b \in Agents, g \in Holders : InChannel(b, g)' => InChannel(b, g)
    BY <1>0, <2>1, StreamsTaken
  <2>. QED  BY <1>1, <2>2, <2>3 DEF Sent
<1>10. ASSUME NEW a \in Agents, Attach(a) PROVE Places'
  <2>1. /\ Head(cmds[a]) \in Cmd /\ Head(cmds[a]) = cmds[a][1] /\ 1 \in 1..Len(cmds[a])
        /\ cmds[a][1].kind = "stream"
    BY <1>0, <1>10, TakesFirst DEF Attach
  <2>2. PICK g \in Holders : g = Head(cmds[a]).of
    BY <2>1 DEF Cmd
  <2>3. InChannel(a, g)
    BY <2>1, <2>2 DEF InChannel, IsStream
  <2>4. PICK c \in Leased : c = [of |-> g, tag |-> intended[a]] /\ c.of = g
    <3>1. [of |-> g, tag |-> intended[a]] \in Leased /\ [of |-> g, tag |-> intended[a]].of = g
      BY <1>0 DEF Leased, TypeOK
    <3>. QED  BY <3>1
  <2>5. UNCHANGED <<path, backlog>>
    BY <1>10 DEF Attach, handlerVars
  <2>6. \A h \in Holders : ~InChannel(a, h)'
    BY <1>10, LastStream
  <2>7. \A b \in Agents, h \in Holders : InChannel(b, h)' => InChannel(b, h) /\ b # a
    BY <1>0, <1>10, <2>6, StreamsTaken DEF Attach
  <2>8. CASE lease[a] = None
    <3>1. /\ conn' = [conn EXCEPT ![g] = "leased"] /\ UNCHANGED <<relay, candidate>>
          /\ acceptor' = [acceptor EXCEPT ![a] = "accept"]
      BY <1>10, <2>2, <2>4, <2>8 DEF Attach, Grant, AcceptNext
    <3>2. relay[a] = "select"
      BY <1>10 DEF Attach, Take
    <3>3. ASSUME NEW b \in Agents, NEW h \in Holders, Sent(b, h)'
          PROVE  Sent(b, h) /\ h \notin {g} /\ acceptor'[b] = acceptor[b]
      <4>1. Sent(b, h) /\ b # a
        BY <2>7, <3>1, <3>2, <3>3 DEF Sent
      <4>2. h # g
        BY <1>0, <2>3, <4>1 DEF Places, Sent
      <4>. QED  BY <1>0, <3>1, <4>1, <4>2 DEF TypeOK
    <3>4. conn[g] = "sent"
      BY <1>0, <2>3 DEF Places, Sent
    <3>5. \A h \in Holders : h \notin {g} => conn'[h] = conn[h]
      BY <1>0, <3>1 DEF TypeOK
    <3>. QED  BY <1>0, <2>5, <3>3, <3>4, <3>5, PlacesSettled
  <2>9. CASE lease[a] # None
    <3>1. /\ relay' = [relay EXCEPT ![a] = "steal"] /\ candidate' = [candidate EXCEPT ![a] = c]
          /\ UNCHANGED <<conn, acceptor>>
      BY <1>10, <2>2, <2>4, <2>9 DEF Attach
    <3>2. ASSUME NEW b \in Agents, NEW h \in Holders, Sent(b, h)' PROVE Sent(b, h)
      BY <1>0, <2>3, <2>4, <2>7, <3>1, <3>2 DEF Sent, TypeOK
    <3>. QED  BY <1>1, <2>5, <3>1, <3>2
  <2>. QED  BY <2>8, <2>9
<1>11. ASSUME NEW a \in Agents, StealWaitEnds(a) PROVE Places'
  <2>1. PICK g \in Holders : g = candidate[a].of
    BY <1>0, <1>11 DEF StealWaitEnds, OneStream, Leased
  <2>2. /\ relay[a] = "steal" /\ relay' = [relay EXCEPT ![a] = "select"]
        /\ candidate' = [candidate EXCEPT ![a] = None] /\ UNCHANGED <<cmds, path, backlog>>
        /\ acceptor' = [acceptor EXCEPT ![a] = "accept"]
    BY <1>11 DEF StealWaitEnds, Grant, AcceptNext, handlerVars
  <2>3. \A h \in Holders : h \notin {g} => conn'[h] = conn[h]
    BY <1>0, <1>11, <2>1 DEF StealWaitEnds, Grant, Refuse, TypeOK
  <2>4. Sent(a, g) /\ conn[g] = "sent"
    BY <1>0, <2>1, <2>2 DEF Sent, Places
  <2>5. ASSUME NEW b \in Agents, NEW h \in Holders, Sent(b, h)'
        PROVE  Sent(b, h) /\ h \notin {g} /\ acceptor'[b] = acceptor[b]
    <3>1. ~InChannel(a, h)'
      BY <1>11, LastStream
    <3>2. Sent(b, h) /\ b # a
      BY <1>0, <2>2, <2>5, <3>1 DEF Sent, InChannel, TypeOK
    <3>3. h # g
      BY <1>0, <2>4, <3>2 DEF Places
    <3>. QED  BY <1>0, <2>2, <3>2, <3>3 DEF TypeOK
  <2>. QED  BY <1>0, <2>2, <2>3, <2>4, <2>5, PlacesSettled
<1>12. ASSUME NEW a \in Agents, EndRelay(a) PROVE Places'
  <2>1. PICK H : H = {c.of : c \in {d \in ToSet(cmds[a]) : d.kind = "stream"}}
    OBVIOUS
  <2>2. cmds[a] \in Seq(Cmd) /\ DOMAIN cmds[a] = 1..Len(cmds[a])
    BY <1>0, LenProperties DEF TypeOK
  <2>3. \A h : h \in H <=> InChannel(a, h)
    BY <2>1, <2>2 DEF InChannel, ToSet, IsStream
  <2>4. H \in SUBSET Holders
    <3>1. \A i \in 1..Len(cmds[a]) : cmds[a][i].of \in Holders
      BY <1>0, Commands
    <3>. QED  BY <2>3, <3>1 DEF InChannel
  <2>5. /\ conn' = [h \in Holders |-> IF h \in H THEN "refused" ELSE conn[h]]
        /\ UNCHANGED <<path, backlog, acceptor, candidate>> /\ relay[a] = "select"
        /\ relay' = [relay EXCEPT ![a] = "ended"] /\ cmds' = [cmds EXCEPT ![a] = <<>>]
    BY <1>12, <2>1 DEF EndRelay, Refuse
  <2>6. \A h \in H : conn[h] = "sent"
    BY <1>0, <2>3, <2>4 DEF Places, Sent
  <2>7. Len(cmds'[a]) = 0 /\ \A b \in Agents : b # a => cmds'[b] = cmds[b]
    BY <1>0, <2>5, EmptySeq DEF TypeOK
  <2>8. ASSUME NEW b \in Agents, NEW h \in Holders, Sent(b, h)'
        PROVE  Sent(b, h) /\ h \notin H /\ acceptor'[b] = acceptor[b]
    <3>1. relay'[a] = "ended" /\ \A c \in Agents : c # a => relay'[c] = relay[c]
      BY <1>0, <2>5 DEF TypeOK
    <3>2. b # a
      BY <2>7, <2>8, <3>1 DEF Sent, InChannel
    <3>3. Sent(b, h)
      BY <2>5, <2>7, <2>8, <3>1, <3>2 DEF Sent, InChannel
    <3>4. h \notin H
      BY <1>0, <2>3, <3>2, <3>3 DEF Places, Sent
    <3>. QED  BY <2>5, <3>3, <3>4
  <2>. QED  BY <1>0, <2>4, <2>5, <2>6, <2>8, PlacesSettled
<1>13. ASSUME NEW a \in Agents, AgentDies(a) PROVE Places'
  BY <1>1, <1>2, <1>13 DEF AgentDies, leaseVars, socketVars, handlerVars
<1>14. ASSUME NEW a \in Agents, Accept(a) PROVE Places'
  <2>1. PICK g \in Holders : g = Head(backlog[a])
    <3>1. backlog[a] \in Seq(Holders) /\ backlog[a] # <<>>
      BY <1>0, <1>14 DEF TypeOK, Accept
    <3>. QED  BY <3>1, Pops
  <2>2. PICK m \in Cmd : m.of = g /\ cmds' = [cmds EXCEPT ![a] = Append(@, m)]
    <3>1. [kind |-> "stream", of |-> g] \in Cmd
      BY DEF Cmd
    <3>. QED  BY <1>14, <2>1, <3>1 DEF Accept
  <2>3. /\ backlog[a] # <<>> /\ conn' = [conn EXCEPT ![g] = "sent"]
        /\ backlog' = [backlog EXCEPT ![a] = Tail(@)]
        /\ acceptor' = [acceptor EXCEPT ![a] = "await"] /\ acceptor[a] = "accept"
        /\ UNCHANGED <<path, relay, candidate>>
    BY <1>14, <2>1 DEF Accept, handlerVars, leaseVars
  <2>4. ASSUME NEW b \in Agents, NEW h \in Holders, Sent(b, h)'
        PROVE  \/ Sent(b, h) /\ acceptor'[b] = acceptor[b]
               \/ b = a /\ h = g /\ acceptor'[b] = "await"
    <3>1. InChannel(b, h)' => InChannel(b, h) \/ (b = a /\ h = g)
      BY <1>0, <2>2, StreamsAdded
    <3>2. acceptor'[a] = "await" /\ \A c \in Agents : c # a => acceptor'[c] = acceptor[c]
      BY <1>0, <2>3 DEF TypeOK
    <3>3. CASE b = a /\ h = g
      BY <3>2, <3>3
    <3>4. CASE ~(b = a /\ h = g)
      <4>1. Sent(b, h)
        BY <2>3, <2>4, <3>1, <3>4 DEF Sent
      <4>2. b # a
        BY <1>0, <2>3, <4>1 DEF Places
      <4>. QED  BY <3>2, <4>1, <4>2
    <3>. QED  BY <3>3, <3>4
  <2>. QED  BY <1>0, <2>1, <2>3, <2>4, PlacesMoved
<1>15. ASSUME NEW a \in Agents, AcceptLoopReturns(a) \/ AcceptFails(a) PROVE Places'
  <2>0. PICK H : ReturnWith(a, H) /\ (H = {} \/ (backlog[a] # <<>> /\ H = {Head(backlog[a])}))
    BY <1>15 DEF AcceptLoopReturns, AcceptFails, SeesRelayGone
  <2>1. /\ UNCHANGED <<cmds, relay, candidate, path>>
        /\ relay[a] = "ended" \/ acceptor[a] = "accept"
        /\ acceptor' = [acceptor EXCEPT ![a] = "returned"]
    BY <1>15, <2>0 DEF ReturnWith, AcceptLoopReturns, AcceptFails, leaseVars, handlerVars
  <2>2. ASSUME NEW b \in Agents, NEW h \in Holders, Sent(b, h)'
        PROVE  Sent(b, h) /\ acceptor'[b] = acceptor[b]
    <3>1. Sent(b, h)
      BY <1>2, <2>1, <2>2
    <3>2. b # a
      <4>1. acceptor[b] = "await"
        BY <1>0, <3>1 DEF Places
      <4>2. relay[a] = "ended" => ~InChannel(a, h)
        BY <1>0 DEF OneStream, InChannel
      <4>. QED  BY <2>1, <3>1, <4>1, <4>2 DEF Sent
    <3>. QED  BY <1>0, <2>1, <3>1, <3>2 DEF TypeOK
  <2>3. CASE ~Owned(a)
    <3>1. Refuse(ToSet(backlog[a])) /\ backlog' = [backlog EXCEPT ![a] = <<>>]
      BY <2>0, <2>3 DEF ReturnWith
    <3>. QED  BY <1>0, <2>1, <2>2, <3>1, PlacesDropped DEF Refuse
  <2>4. CASE Owned(a) /\ H # {}
    <3>1. /\ Refuse({Head(backlog[a])}) /\ backlog' = [backlog EXCEPT ![a] = Tail(@)]
          /\ backlog[a] # <<>>
      BY <2>0, <2>4 DEF ReturnWith
    <3>2. conn' = [conn EXCEPT ![Head(backlog[a])] = "refused"]
      BY <1>0, <3>1 DEF Refuse, TypeOK
    <3>. QED  BY <1>0, <2>1, <2>2, <3>1, <3>2, PlacesMoved
  <2>5. CASE Owned(a) /\ H = {}
    <3>1. Refuse({}) /\ backlog' = backlog
      BY <1>0, <2>0, <2>5 DEF ReturnWith, TypeOK
    <3>2. conn' = conn
      BY <1>0, <3>1 DEF Refuse, TypeOK
    <3>. QED  BY <1>0, <2>1, <2>2, <3>1, <3>2, PlacesSettled
  <2>. QED  BY <2>3, <2>4, <2>5
<1>16. CASE UNCHANGED vars
  BY <1>1, <1>2, <1>16 DEF vars, leaseVars, socketVars, handlerVars
<1>. QED  BY <1>3, <1>4, <1>5, <1>6, <1>7, <1>8, <1>9, <1>10, <1>11, <1>12, <1>13, <1>14, <1>15,
             <1>16
          DEF Next, HandlerStep, RelayStep, AcceptLoop
-----------------------------------------------------------------------------
(* Whose tag a lease has.                                                  *)

\* What keeps the tags of a in order.
Keeps(a) ==
    /\ relay[a] # "ended" /\ ~overlapped[a]
    /\ \A h \in Holders : Bound(a, h) => h \in registered[a] /\ intended[a] = h

TagsRight(a) ==
    /\ relay[a] = "steal" => candidate[a].tag = candidate[a].of
    /\ lease[a] # None => lease[a].tag = lease[a].of

LEMMA TagsKept ==
    ASSUME Tags, NEW a \in Agents, relay'[a] # "ended" /\ ~overlapped'[a],
           relay[a] # "ended", overlapped'[a] = overlapped[a],
           intended'[a] = intended[a], registered'[a] = registered[a],
           \A h \in Holders : Bound(a, h)' => Bound(a, h),
           relay'[a] = "steal" => relay[a] = "steal" /\ candidate'[a] = candidate[a],
           \/ lease'[a] \in {lease[a], None}
           \/ relay[a] = "steal" /\ lease'[a] = candidate[a]
    PROVE  Keeps(a)' /\ TagsRight(a)'
  BY DEF Tags, Keeps, TagsRight

\* Nothing becomes bound when a handler that has yet to ask does a step, or
\* one that asked for something else is told.
LEMMA BoundKept ==
    ASSUME TypeOK, NEW a \in Agents, NEW h \in Holders,
           path'[h] = path[h] \/ path'[h] = None \/ Bound(a, h), a # None,
           conn'[h] = "none" => conn[h] = "none",
           \/ handler'[h] # "send" \/ verb'[h] # "attach" \/ target'[h] # a \/ todo'[h] # {}
           \/ UNCHANGED <<handler[h], verb[h], target[h], todo[h]>>,
           InBacklog(a, h)' => InBacklog(a, h) \/ path[h] = a,
           InChannel(a, h)' => InChannel(a, h) \/ InBacklog(a, h),
           Bound(a, h)'
    PROVE  Bound(a, h)
  BY DEF Bound

LEMMA NoneIsNoAgent == ASSUME NEW a \in Agents PROVE a # None
  BY NamesAssumption

\* The handlers' steps bind nobody whom the relay does not know.
LEMMA TagsHandler ==
    ASSUME IInv, NEW h \in Holders,
           \/ \E v \in Verbs, b \in Agents \cup {None} : Request(h, v, b)
           \/ HandlerStep(h) \/ StreamEnds(h),
           NEW a \in Agents, relay'[a] # "ended" /\ ~overlapped'[a]
    PROVE  Keeps(a)' /\ TagsRight(a)'
<1>0. TypeOK /\ Asking /\ Places /\ Tags
  BY DEF IInv
<1>1. UNCHANGED <<relay, leaseVars>>
  BY DEF Request, HandlerStep, Resolve, Lock, KillDone, Persist, Finish, Ask, AskFails, StreamEnds
<1>2. /\ relay[a] # "ended" /\ overlapped'[a] = overlapped[a] /\ intended'[a] = intended[a]
      /\ registered'[a] = registered[a] /\ candidate'[a] = candidate[a] /\ lease'[a] = lease[a]
      /\ relay'[a] = relay[a]
  BY <1>1 DEF leaseVars
<1>3. SUFFICES ASSUME NEW g \in Holders, Bound(a, g)' PROVE Bound(a, g)
  BY <1>0, <1>2, TagsKept
<1>4. InChannel(a, g)' => InChannel(a, g)
  <2>1. CASE UNCHANGED cmds
    BY <2>1 DEF InChannel
  <2>2. ASSUME NEW b \in Agents, Ask(h, b) PROVE InChannel(a, g)' => InChannel(a, g)
    <3>1. PICK m \in Cmd : ~IsStream(m) /\ cmds' = [cmds EXCEPT ![b] = Append(@, m)]
      BY <1>0, <2>2, Kinds DEF Ask
    <3>. QED  BY <1>0, <3>1, StreamsAdded
  <2>. QED
    BY <2>1, <2>2
       DEF Request, HandlerStep, Resolve, Lock, KillDone, Persist, Finish, AskFails, StreamEnds
<1>5. (InBacklog(a, g)' => InBacklog(a, g)) /\ (conn'[g] = "none" => conn[g] = "none")
  <2>1. CASE UNCHANGED <<backlog, conn>>
    BY <2>1 DEF InBacklog
  <2>2. CASE Persist(h) /\ acceptor[target[h]] = "returned"
    <3>1. PICK t \in Agents : t = target[h]
      BY <1>0, <2>2 DEF Persist, Asking
    <3>2. Refuse(ToSet(backlog[t])) /\ backlog' = [backlog EXCEPT ![t] = <<>>]
      BY <2>2, <3>1 DEF Persist
    <3>3. Len(backlog'[t]) = 0 /\ \A b \in Agents : b # t => backlog'[b] = backlog[b]
      BY <1>0, <3>2, EmptySeq DEF TypeOK
    <3>4. InBacklog(a, g)' => InBacklog(a, g)
      BY <3>3 DEF InBacklog
    <3>. QED  BY <3>2, <3>4 DEF Refuse
  <2>. QED
    BY <2>1, <2>2
       DEF Request, HandlerStep, Resolve, Lock, KillDone, Persist, Finish, Ask, AskFails, StreamEnds,
           socketVars
<1>6. ASSUME path' = path,
             \/ handler'[g] # "send" \/ verb'[g] # "attach" \/ target'[g] # a \/ todo'[g] # {}
             \/ UNCHANGED <<handler[g], verb[g], target[g], todo[g]>>
      PROVE  Bound(a, g)
  BY <1>0, <1>3, <1>4, <1>5, <1>6, BoundKept, NoneIsNoAgent
<1>7. ASSUME NEW v \in Verbs, NEW b \in Agents \cup {None}, Request(h, v, b) PROVE Bound(a, g)
  BY <1>0, <1>6, <1>7 DEF Request, TypeOK
<1>8. CASE Resolve(h)
  <2>1. path' = path /\ todo' = todo
    BY <1>8 DEF Resolve
  <2>2. handler'[h] # "send"
    BY <1>0, <1>8 DEF Resolve, Goto, Return, TypeOK
  <2>3. g # h => UNCHANGED <<handler[g], verb[g], target[g]>>
    BY <1>0, <1>8 DEF Resolve, Goto, Return, TypeOK
  <2>. QED  BY <1>6, <2>1, <2>2, <2>3
<1>9. CASE Lock(h)
  <2>1. path' = path
    BY <1>9 DEF Lock
  <2>2. g # h => UNCHANGED <<handler[g], verb[g], target[g], todo[g]>>
    BY <1>0, <1>9 DEF Lock, Goto, Return, TypeOK
  <2>3. handler'[h] = "send" /\ verb'[h] = "attach" => todo'[h] # {}
    BY <1>0, <1>9 DEF Lock, Goto, Return, TypeOK
  <2>. QED  BY <1>6, <2>1, <2>2, <2>3
<1>10. CASE KillDone(h)
  BY <1>0, <1>6, <1>10 DEF KillDone, Goto, TypeOK
<1>11. CASE Persist(h) \/ StreamEnds(h)
  BY <1>0, <1>6, <1>11 DEF Persist, StreamEnds, Return, TypeOK
<1>12. ASSUME NEW b \in Agents, Ask(h, b) PROVE Bound(a, g)
  <2>1. path' = path /\ handler'[h] # "send"
    BY <1>0, <1>12 DEF Ask, Goto, TypeOK
  <2>2. g # h => UNCHANGED <<handler[g], verb[g], target[g], todo[g]>>
    BY <1>0, <1>12 DEF Ask, Goto, TypeOK
  <2>. QED  BY <1>6, <2>1, <2>2
<1>13. ASSUME NEW b \in Agents, AskFails(h, b) PROVE Bound(a, g)
  <2>1. /\ path' = path /\ b \in todo[h] /\ relay[b] = "ended" /\ handler[h] = "send"
        /\ todo' = [todo EXCEPT ![h] = @ \ {b}] /\ UNCHANGED <<handler, verb, target>>
    BY <1>13 DEF AskFails, IsNext
  <2>2. g # h => todo'[g] = todo[g]
    BY <1>0, <2>1 DEF TypeOK
  <2>3. verb[h] = "attach" => target[h] = b
    BY <1>0, <2>1 DEF Asking
  <2>4. b # a
    BY <1>2, <2>1
  <2>. QED  BY <1>6, <2>1, <2>2, <2>3, <2>4
<1>14. CASE Finish(h)
  <2>1. /\ handler[h] = "send" /\ todo[h] = {} /\ todo' = [todo EXCEPT ![h] = {}]
        /\ handler' = [handler EXCEPT ![h] = "idle"]
        /\ verb' = [verb EXCEPT ![h] = "list"] /\ target' = [target EXCEPT ![h] = None]
    BY <1>14 DEF Finish, Return, AllAsked
  <2>2. \/ path' = path
        \/ verb[h] = "attach" /\ conn[h] = "none" /\ path' = [path EXCEPT ![h] = target[h]]
    BY <1>14 DEF Finish
  <2>3. \/ handler'[g] # "send"
        \/ UNCHANGED <<handler[g], verb[g], target[g], todo[g]>>
    BY <1>0, <2>1 DEF TypeOK
  <2>4. CASE path' = path
    BY <1>6, <2>3, <2>4
  <2>5. CASE verb[h] = "attach" /\ conn[h] = "none" /\ path' = [path EXCEPT ![h] = target[h]]
    <3>1. CASE g # h
      <4>1. path'[g] = path[g]
        BY <1>0, <2>5, <3>1 DEF TypeOK
      <4>. QED  BY <1>0, <1>3, <1>4, <1>5, <2>3, <4>1, BoundKept, NoneIsNoAgent
    <3>2. CASE g = h
      <4>1. path'[h] = target[h] /\ handler'[h] # "send"
        BY <1>0, <2>1, <2>5 DEF TypeOK
      <4>2. CASE target[h] = a
        BY <2>1, <2>5, <3>2, <4>2 DEF Bound
      <4>3. CASE target[h] # a
        BY <1>3, <1>4, <1>5, <3>2, <4>1, <4>3 DEF Bound
      <4>. QED  BY <4>2, <4>3
    <3>. QED  BY <3>1, <3>2
  <2>. QED  BY <2>2, <2>4, <2>5
<1>. QED  BY <1>7, <1>8, <1>9, <1>10, <1>11, <1>12, <1>13, <1>14 DEF HandlerStep
\* Whoever is bound for a relay that knows it has still to be leased.
LEMMA BoundIsExpected ==
    ASSUME TypeOK, Places, NEW a \in Agents, NEW h \in Holders, Bound(a, h), h \in registered[a]
    PROVE  h \in Expected(a)
<1>1. conn[h] \in {"none", "backlog", "sent"}
  BY NoneIsNoAgent DEF Bound, Places, InBacklog, Sent
<1>. QED  BY <1>1 DEF Expected

\* The handlers H, told by the relay of b, are bound for no other relay.
LEMMA BoundWhenTold ==
    ASSUME TypeOK, Asking, NEW b \in Agents, NEW H \in SUBSET Holders,
           \A h \in H : handler[h] = "await" /\ asked[h] = b,
           \A h \in Holders \ H : UNCHANGED <<handler[h], todo[h]>>,
           UNCHANGED <<verb, target, path, backlog>>,
           NEW a \in Agents, NEW g \in Holders,
           conn'[g] = "none" => conn[g] = "none",
           InChannel(a, g)' => InChannel(a, g),
           b # a \/ (g \in H => verb[g] # "attach"),
           Bound(a, g)'
    PROVE  Bound(a, g)
<1>1. InBacklog(a, g)' => InBacklog(a, g)
  BY DEF InBacklog
<1>2. CASE g \in H
  <2>1. verb'[g] # "attach" \/ target'[g] # a
    BY <1>2 DEF Asking
  <2>. QED  BY <1>1, <2>1, BoundKept, NoneIsNoAgent
<1>3. CASE g \notin H
  <2>1. UNCHANGED <<handler[g], verb[g], target[g], todo[g]>>
    BY <1>3
  <2>. QED  BY <1>1, <2>1, BoundKept, NoneIsNoAgent
<1>. QED  BY <1>2, <1>3

\* The relays' steps.
LEMMA TagsRelay ==
    ASSUME IInv, NEW b \in Agents, RelayStep(b),
           NEW a \in Agents, relay'[a] # "ended" /\ ~overlapped'[a]
    PROVE  Keeps(a)' /\ TagsRight(a)'
<1>0. TypeOK /\ Asking /\ Places /\ OneStream /\ Tags
  BY DEF IInv
<1>1. ASSUME NEW kind, Take(b, kind), NEW g \in Holders PROVE InChannel(a, g)' => InChannel(a, g)
  BY <1>0, <1>1, StreamsTaken
<1>2. CASE Register(b)
  <2>1. PICK h \in Holders : /\ handler[h] = "await" /\ asked[h] = b /\ verb[h] = "attach"
                             /\ Head(cmds[b]).of = h
    BY <1>2, Answers DEF Register, VerbOf
  <2>2. /\ intended' = [intended EXCEPT ![b] = h]
        /\ registered' = [registered EXCEPT ![b] = @ \cup {h}]
        /\ overlapped' = [overlapped EXCEPT ![b] = @ \/ Expected(b) \ {h} # {}]
        /\ \A g \in Holders \ {h} : UNCHANGED <<handler[g], todo[g]>>
        /\ UNCHANGED <<verb, target, path, relay, candidate, lease, socketVars>>
    BY <1>2, <2>1 DEF Register, Tell
  <2>3. CASE a # b
    <3>1. \A g \in Holders : Bound(a, g)' => Bound(a, g)
      <4>1. \A g \in Holders : InChannel(a, g)' => InChannel(a, g)
        BY <1>1, <1>2 DEF Register
      <4>2. \A g \in {h} : handler[g] = "await" /\ asked[g] = b
        BY <2>1
      <4>3. PICK H \in SUBSET Holders : H = {h}
        OBVIOUS
      <4>4. \A g \in Holders \ H : UNCHANGED <<handler[g], todo[g]>>
        BY <2>2, <4>3
      <4>5. \A g \in H : handler[g] = "await" /\ asked[g] = b
        BY <4>2, <4>3
      <4>6. UNCHANGED <<verb, target, path, backlog, conn>>
        BY <2>2 DEF socketVars
      <4>. QED  BY <1>0, <2>3, <4>1, <4>4, <4>5, <4>6, BoundWhenTold
    <3>2. /\ overlapped'[a] = overlapped[a] /\ intended'[a] = intended[a]
          /\ registered'[a] = registered[a]
      BY <1>0, <2>2, <2>3 DEF TypeOK
    <3>. QED  BY <1>0, <2>2, <3>1, <3>2, TagsKept
  <2>4. CASE a = b
    <3>1. /\ ~overlapped[a] /\ Expected(a) \ {h} = {} /\ relay[a] # "ended"
          /\ intended'[a] = h /\ registered'[a] = registered[a] \cup {h}
      BY <1>0, <2>2, <2>4 DEF TypeOK
    <3>2. ASSUME NEW g \in Holders, Bound(a, g)' PROVE g = h
      <4>1. SUFFICES ASSUME g # h PROVE FALSE
        OBVIOUS
      <4>2. Bound(a, g)
        BY <1>0, <1>1, <1>2, <2>1, <2>2, <3>2, <4>1, BoundWhenTold DEF Register, socketVars
      <4>3. g \in registered[a]
        BY <1>0, <3>1, <4>2 DEF Tags
      <4>. QED  BY <1>0, <3>1, <4>1, <4>2, <4>3, BoundIsExpected
    <3>3. Keeps(a)'
      BY <2>2, <3>1, <3>2 DEF Keeps
    <3>. QED  BY <1>0, <2>2, <3>1, <3>3 DEF Tags, TagsRight
  <2>. QED  BY <2>3, <2>4
<1>3. CASE Detach(b) \/ LeaseHolder(b) \/ SessionCount(b)
  <2>1. PICK h \in Holders : /\ handler[h] = "await" /\ asked[h] = b /\ verb[h] # "attach"
                             /\ Head(cmds[b]).of = h
    BY <1>3, Answers DEF Detach, LeaseHolder, SessionCount, VerbOf
  <2>2. \A g \in Holders \ {h} : UNCHANGED <<handler[g], todo[g]>>
    <3>1. CASE Detach(b) \/ SessionCount(b)
      BY <2>1, <3>1 DEF Detach, SessionCount, Tell
    <3>2. CASE LeaseHolder(b)
      BY <1>0, <2>1, <3>2 DEF LeaseHolder, TypeOK
    <3>. QED  BY <1>3, <3>1, <3>2
  <2>3. /\ UNCHANGED <<verb, target, path, relay, intended, candidate, registered, overlapped>>
        /\ UNCHANGED <<backlog, conn>> /\ \E kind : Take(b, kind)
    BY <1>3 DEF Detach, LeaseHolder, SessionCount, leaseVars, socketVars
  <2>4. lease'[a] \in {lease[a], None}
    BY <1>0, <1>3 DEF Detach, LeaseHolder, SessionCount, leaseVars, TypeOK
  <2>5. \A g \in Holders : Bound(a, g)' => Bound(a, g)
    <3>1. \A g \in Holders : InChannel(a, g)' => InChannel(a, g)
      BY <1>1, <2>3
    <3>2. PICK H \in SUBSET Holders : H = {h}
      OBVIOUS
    <3>3. \A g \in Holders \ H : UNCHANGED <<handler[g], todo[g]>>
      BY <2>2, <3>2
    <3>4. \A g \in H : handler[g] = "await" /\ asked[g] = b /\ verb[g] # "attach"
      BY <2>1, <3>2
    <3>. QED  BY <1>0, <2>3, <3>1, <3>3, <3>4, BoundWhenTold
  <2>. QED  BY <1>0, <2>3, <2>4, <2>5, TagsKept
<1>4. CASE Subscribe(b)
  <2>1. UNCHANGED <<handlerVars, relay, leaseVars, socketVars>> /\ Take(b, "events")
    BY <1>4 DEF Subscribe
  <2>2. \A g \in Holders : Bound(a, g)' => Bound(a, g)
    BY <1>1, <2>1 DEF Bound, InBacklog, handlerVars, socketVars
  <2>. QED  BY <1>0, <2>1, <2>2, TagsKept DEF leaseVars
<1>5. CASE Attach(b)
  <2>1. /\ Head(cmds[b]) = cmds[b][1] /\ 1 \in 1..Len(cmds[b]) /\ cmds[b][1].kind = "stream"
    BY <1>0, <1>5, TakesFirst DEF Attach
  <2>2. PICK g \in Holders : g = Head(cmds[b]).of
    BY <1>0, <2>1, Commands
  <2>3. InChannel(b, g) /\ conn[g] = "sent"
    BY <1>0, <2>1, <2>2 DEF InChannel, IsStream, Places, Sent
  <2>4. PICK c \in Leased : c = [of |-> g, tag |-> intended[b]] /\ c.of = g /\ c.tag = intended[b]
    <3>1. /\ [of |-> g, tag |-> intended[b]] \in Leased
          /\ [of |-> g, tag |-> intended[b]].of = g
          /\ [of |-> g, tag |-> intended[b]].tag = intended[b]
      BY <1>0 DEF Leased, TypeOK
    <3>. QED  BY <3>1
  <2>5. /\ UNCHANGED <<handlerVars, registered, overlapped, backlog>>
        /\ intended' = [intended EXCEPT ![b] = None] /\ relay[b] = "select"
        /\ \/ /\ lease' = [lease EXCEPT ![b] = c] /\ conn' = [conn EXCEPT ![g] = "leased"]
              /\ UNCHANGED <<relay, candidate>>
           \/ /\ relay' = [relay EXCEPT ![b] = "steal"]
              /\ candidate' = [candidate EXCEPT ![b] = c] /\ UNCHANGED <<lease, conn>>
    BY <1>5, <2>2, <2>4 DEF Attach, Take, Grant
  <2>6. \A h \in Holders : conn'[h] = "none" => conn[h] = "none"
    BY <1>0, <2>5 DEF TypeOK
  <2>7. \A h \in Holders : Bound(a, h)' => Bound(a, h)
    BY <1>1, <1>5, <2>5, <2>6 DEF Attach, Bound, InBacklog, handlerVars
  <2>8. CASE a # b
    <3>1. /\ intended'[a] = intended[a] /\ relay'[a] = relay[a] /\ candidate'[a] = candidate[a]
          /\ lease'[a] = lease[a]
      BY <1>0, <2>5, <2>8 DEF TypeOK
    <3>. QED  BY <1>0, <2>5, <2>7, <3>1, TagsKept
  <2>9. CASE a = b
    <3>1. relay[a] # "ended" /\ ~overlapped[a]
      BY <2>5, <2>9
    <3>2. intended[a] = g
      BY <1>0, <2>3, <2>9, <3>1 DEF Tags, Bound
    <3>3. ASSUME NEW h \in Holders, Bound(a, h)' PROVE FALSE
      <4>1. h = g
        BY <1>0, <2>7, <3>1, <3>2, <3>3 DEF Tags
      <4>2. ~InChannel(a, g)'
        BY <1>5, <2>9, LastStream
      <4>3. path[g] = None
        BY <1>0, <2>3 DEF Places
      <4>4. ~InBacklog(a, g)
        BY <1>0, <2>3 DEF Places, InBacklog
      <4>5. path'[g] # a /\ ~InBacklog(a, g)' /\ conn'[g] # "none"
        BY <1>0, <2>3, <2>5, <4>3, <4>4, NoneIsNoAgent DEF handlerVars, InBacklog, TypeOK
      <4>. QED  BY <3>3, <4>1, <4>2, <4>5 DEF Bound
    <3>4. Keeps(a)'
      BY <3>3 DEF Keeps
    <3>5. c.tag = c.of
      BY <2>4, <2>9, <3>2
    <3>6. TagsRight(a)'
      BY <1>0, <2>5, <2>9, <3>1, <3>5 DEF Tags, TagsRight, TypeOK
    <3>. QED  BY <3>4, <3>6
  <2>. QED  BY <2>8, <2>9
<1>6. CASE StealWaitEnds(b)
  <2>1. PICK g \in Holders : g = candidate[b].of
    BY <1>0, <1>6 DEF StealWaitEnds, OneStream, Leased
  <2>2. /\ relay[b] = "steal" /\ relay' = [relay EXCEPT ![b] = "select"]
        /\ candidate' = [candidate EXCEPT ![b] = None]
        /\ UNCHANGED <<handlerVars, cmds, intended, registered, overlapped, backlog>>
        /\ lease' = lease \/ lease' = [lease EXCEPT ![b] = candidate[b]]
    BY <1>6 DEF StealWaitEnds, Grant
  <2>3. \A h \in Holders : conn'[h] = "none" => conn[h] = "none"
    <3>1. CASE Grant(b, candidate[b])
      BY <1>0, <2>1, <3>1 DEF Grant, TypeOK
    <3>2. CASE Refuse({candidate[b].of})
      BY <3>2 DEF Refuse
    <3>. QED  BY <1>6, <3>1, <3>2 DEF StealWaitEnds
  <2>4. \A h \in Holders : Bound(a, h)' => Bound(a, h)
    BY <2>2, <2>3 DEF Bound, InBacklog, InChannel, handlerVars
  <2>5. /\ relay[a] # "ended" /\ (relay'[a] = "steal" => relay[a] = "steal" /\ a # b)
        /\ a # b => candidate'[a] = candidate[a]
        /\ lease'[a] = lease[a] \/ (a = b /\ lease'[a] = candidate[a])
    BY <1>0, <2>2 DEF TypeOK
  <2>. QED  BY <1>0, <2>2, <2>4, <2>5, TagsKept
<1>7. CASE EndRelay(b)
  <2>1. /\ relay' = [relay EXCEPT ![b] = "ended"] /\ Tell(Dropped(b), todo)
        /\ lease' = [lease EXCEPT ![b] = None] /\ cmds' = [cmds EXCEPT ![b] = <<>>]
        /\ UNCHANGED <<verb, target, path, intended, candidate, registered, overlapped, backlog>>
    BY <1>7 DEF EndRelay
  <2>2. a # b /\ relay'[a] = relay[a] /\ lease'[a] = lease[a] /\ cmds'[a] = cmds[a]
    BY <1>0, <2>1 DEF TypeOK
  <2>3. \A h \in Holders : conn'[h] = "none" => conn[h] = "none"
    BY <1>7 DEF EndRelay, Refuse
  <2>4. \A h \in Holders : InChannel(a, h)' => InChannel(a, h)
    BY <2>2 DEF InChannel
  <2>5. /\ Dropped(b) \in SUBSET Holders
        /\ \A h \in Dropped(b) : handler[h] = "await" /\ asked[h] = b
    BY DEF Dropped
  <2>6. \A h \in Holders \ Dropped(b) : UNCHANGED <<handler[h], todo[h]>>
    BY <2>1 DEF Tell
  <2>7. \A h \in Holders : Bound(a, h)' => Bound(a, h)
    BY <1>0, <2>1, <2>2, <2>3, <2>4, <2>5, <2>6, BoundWhenTold
  <2>. QED  BY <1>0, <2>1, <2>2, <2>7, TagsKept
<1>. QED  BY <1>2, <1>3, <1>4, <1>5, <1>6, <1>7 DEF RelayStep

\* The sockets' steps: a peer goes from its path to the backlog to the channel.
LEMMA TagsSocket ==
    ASSUME IInv, NEW b \in Agents,
           \/ \E h \in Holders : Connect(h)
           \/ AcceptLoop(b) \/ AcceptFails(b) \/ AgentDies(b),
           NEW a \in Agents, relay'[a] # "ended" /\ ~overlapped'[a]
    PROVE  Keeps(a)' /\ TagsRight(a)'
<1>0. TypeOK /\ Tags
  BY DEF IInv
<1>1. UNCHANGED <<relay, leaseVars, handler, verb, target, todo>>
  BY DEF Connect, AcceptLoop, Accept, AcceptLoopReturns, AcceptFails, ReturnWith, AgentDies,
         handlerVars
<1>2. SUFFICES ASSUME NEW g \in Holders, Bound(a, g)' PROVE Bound(a, g)
  BY <1>0, <1>1, TagsKept DEF leaseVars
<1>3. ASSUME NEW h \in Holders, Connect(h) PROVE Bound(a, g)
  <2>1. PICK d \in Agents : path[h] = d
    BY <1>0, <1>3 DEF Connect, TypeOK
  <2>2. /\ conn' = [conn EXCEPT ![h] = "backlog"] /\ backlog' = [backlog EXCEPT ![d] = Append(@, h)]
        /\ path' = [path EXCEPT ![h] = None] /\ UNCHANGED cmds
    BY <1>3, <2>1 DEF Connect
  <2>3. /\ Len(backlog[d]) \in Nat /\ Len(backlog'[d]) = Len(backlog[d]) + 1
        /\ backlog'[d][Len(backlog[d]) + 1] = h
        /\ \A i \in 1..Len(backlog[d]) : backlog'[d][i] = backlog[d][i]
        /\ \A c \in Agents : c # d => backlog'[c] = backlog[c]
    BY <1>0, <2>2, BacklogPushes
  <2>4. InBacklog(a, g)' => InBacklog(a, g) \/ path[g] = a
    <3>1. SUFFICES ASSUME NEW i \in 1..Len(backlog'[a]), backlog'[a][i] = g
                   PROVE  InBacklog(a, g) \/ path[g] = a
      BY DEF InBacklog
    <3>2. CASE a # d
      BY <2>3, <3>1, <3>2 DEF InBacklog
    <3>3. CASE a = d
      <4>1. i \in 1..Len(backlog[a]) \/ i = Len(backlog[a]) + 1
        BY <2>3, <3>3
      <4>. QED  BY <2>1, <2>3, <3>1, <3>3, <4>1 DEF InBacklog
    <3>. QED  BY <3>2, <3>3
  <2>5. (path'[g] = path[g] \/ path'[g] = None) /\ (conn'[g] = "none" => conn[g] = "none")
    BY <1>0, <2>2 DEF TypeOK
  <2>6. InChannel(a, g)' => InChannel(a, g)
    BY <2>2 DEF InChannel
  <2>. QED  BY <1>0, <1>1, <1>2, <2>4, <2>5, <2>6, BoundKept, NoneIsNoAgent
<1>4. CASE Accept(b)
  <2>1. /\ backlog[b] # <<>> /\ backlog' = [backlog EXCEPT ![b] = Tail(@)] /\ path' = path
        /\ cmds' = [cmds EXCEPT ![b] = Append(@, [kind |-> "stream", of |-> Head(backlog[b])])]
        /\ conn' = [conn EXCEPT ![Head(backlog[b])] = "sent"]
    BY <1>4 DEF Accept, handlerVars
  <2>2. /\ Len(backlog[b]) \in Nat /\ Len(backlog[b]) >= 1
        /\ Len(backlog'[b]) = Len(backlog[b]) - 1
        /\ Head(backlog[b]) = backlog[b][1] /\ backlog[b][1] \in Holders
        /\ \A i \in 1..Len(backlog'[b]) : backlog'[b][i] = backlog[b][i + 1]
        /\ \A c \in Agents : c # b => backlog'[c] = backlog[c]
    BY <1>0, <2>1, BacklogPops
  <2>3. PICK m \in Cmd : m.of = backlog[b][1] /\ cmds' = [cmds EXCEPT ![b] = Append(@, m)]
    <3>1. [kind |-> "stream", of |-> backlog[b][1]] \in Cmd
      BY <2>2 DEF Cmd
    <3>. QED  BY <2>1, <2>2, <3>1
  <2>4. InChannel(a, g)' => InChannel(a, g) \/ InBacklog(a, g)
    <3>1. 1 \in 1..Len(backlog[b])
      BY <2>2
    <3>2. b = a /\ m.of = g => InBacklog(a, g)
      BY <2>3, <3>1 DEF InBacklog
    <3>. QED  BY <1>0, <2>3, <3>2, StreamsAdded
  <2>5. InBacklog(a, g)' => InBacklog(a, g)
    <3>1. \A i \in 1..Len(backlog'[b]) : i + 1 \in 1..Len(backlog[b])
      BY <2>2
    <3>2. CASE a = b
      BY <2>2, <3>1, <3>2 DEF InBacklog
    <3>3. CASE a # b
      BY <2>2, <3>3 DEF InBacklog
    <3>. QED  BY <3>2, <3>3
  <2>6. conn'[g] = "none" => conn[g] = "none"
    BY <1>0, <2>1, <2>2 DEF TypeOK
  <2>. QED  BY <1>0, <1>1, <1>2, <2>1, <2>4, <2>5, <2>6, BoundKept, NoneIsNoAgent
<1>5. CASE AcceptLoopReturns(b) \/ AcceptFails(b)
  <2>0. PICK H : ReturnWith(b, H) /\ (H = {} \/ relay[b] = "ended")
    BY <1>5 DEF AcceptLoopReturns, AcceptFails
  <2>1. path' = path /\ cmds' = cmds /\ (conn'[g] = "none" => conn[g] = "none")
    BY <2>0 DEF ReturnWith, Refuse, handlerVars
  <2>2. InBacklog(a, g)' => InBacklog(a, g)
    <3>1. CASE backlog'[a] = backlog[a]
      BY <3>1 DEF InBacklog
    <3>2. CASE a = b /\ backlog'[a] = <<>>
      <4>1. Len(backlog'[a]) = 0
        BY <3>2, EmptySeq
      <4>. QED  BY <4>1 DEF InBacklog
    <3>3. a # b => backlog'[a] = backlog[a]
      BY <1>0, <2>0 DEF ReturnWith, TypeOK
    <3>4. a = b => H = {}
      BY <1>1, <2>0
    <3>5. a = b => backlog'[a] \in {backlog[a], <<>>}
      BY <1>0, <2>0, <3>4 DEF ReturnWith, TypeOK
    <3>. QED  BY <3>1, <3>2, <3>3, <3>5
  <2>. QED  BY <1>1, <1>2, <2>1, <2>2 DEF Bound, InChannel
<1>6. CASE AgentDies(b)
  BY <1>1, <1>2, <1>6 DEF AgentDies, Bound, InBacklog, InChannel, handlerVars, socketVars
<1>. QED  BY <1>3, <1>4, <1>5, <1>6 DEF AcceptLoop

LEMMA TagsStep == ASSUME IInv, [Next]_vars PROVE Tags'
<1>1. SUFFICES ASSUME NEW a \in Agents, relay'[a] # "ended" /\ ~overlapped'[a]
               PROVE  Keeps(a)' /\ TagsRight(a)'
  BY DEF Tags, Keeps, TagsRight
<1>2. CASE UNCHANGED vars
  <2>1. \A h \in Holders : Bound(a, h)' => Bound(a, h)
    BY <1>2 DEF vars, handlerVars, socketVars, Bound, InBacklog, InChannel
  <2>. QED  BY <1>1, <1>2, <2>1, TagsKept DEF vars, leaseVars, IInv
<1>. QED  BY <1>1, <1>2, TagsHandler, TagsRelay, TagsSocket DEF Next

LEMMA EndedStep == ASSUME IInv, [Next]_vars PROVE Ended'
<1>0. TypeOK /\ Ended
  BY DEF IInv
<1>1. ASSUME UNCHANGED <<relay, lease>> PROVE Ended'
  BY <1>0, <1>1 DEF Ended
<1>2. ASSUME NEW a \in Agents, RelayStep(a) PROVE Ended'
  <2>1. CASE Register(a) \/ LeaseHolder(a) \/ SessionCount(a) \/ Subscribe(a)
    BY <1>1, <2>1 DEF Register, LeaseHolder, SessionCount, Subscribe, leaseVars
  <2>2. CASE Detach(a)
    BY <1>0, <2>2 DEF Detach, Ended, TypeOK
  <2>3. CASE Attach(a)
    <3>1. relay[a] = "select" /\ (UNCHANGED relay \/ relay' = [relay EXCEPT ![a] = "steal"])
      BY <2>3 DEF Attach, Take
    <3>2. \A b \in Agents : b # a => lease'[b] = lease[b]
      BY <1>0, <2>3 DEF Attach, Grant, TypeOK
    <3>. QED  BY <1>0, <3>1, <3>2 DEF Ended, TypeOK
  <2>4. CASE StealWaitEnds(a)
    <3>1. relay' = [relay EXCEPT ![a] = "select"]
      BY <2>4 DEF StealWaitEnds
    <3>2. \A b \in Agents : b # a => lease'[b] = lease[b]
      BY <1>0, <2>4 DEF StealWaitEnds, Grant, TypeOK
    <3>. QED  BY <1>0, <3>1, <3>2 DEF Ended, TypeOK
  <2>5. CASE EndRelay(a)
    BY <1>0, <2>5 DEF EndRelay, Ended, TypeOK
  <2>. QED  BY <1>2, <2>1, <2>2, <2>3, <2>4, <2>5 DEF RelayStep
<1>3. ASSUME NEW h \in Holders,
             \/ \E v \in Verbs, a \in Agents \cup {None} : Request(h, v, a)
             \/ HandlerStep(h) \/ StreamEnds(h) \/ Connect(h)
      PROVE  Ended'
  BY <1>1, <1>3
     DEF Request, HandlerStep, Resolve, Lock, KillDone, Persist, Finish, Ask, AskFails, StreamEnds,
         Connect, leaseVars
<1>4. ASSUME NEW a \in Agents, AcceptLoop(a) \/ AcceptFails(a) \/ AgentDies(a) PROVE Ended'
  BY <1>1, <1>4
     DEF AcceptLoop, Accept, AcceptLoopReturns, AcceptFails, ReturnWith, AgentDies, leaseVars
<1>. QED  BY <1>1, <1>2, <1>3, <1>4 DEF Next, vars, leaseVars

-----------------------------------------------------------------------------
(* The theorems.                                                           *)

LEMMA InitIInv == ASSUME Init PROVE IInv
<1>. USE NamesAssumption DEF Init
<1>0. \A a \in Agents : cmds[a] = <<>> /\ backlog[a] = <<>> /\ Len(cmds[a]) = 0 /\ Len(backlog[a]) = 0
  BY EmptySeq
<1>1. TypeOK
  <2>1. cmds \in [Agents -> Seq(Cmd)]
    BY EmptySeq
  <2>2. backlog \in [Agents -> Seq(Holders)]
    BY EmptySeq
  <2>. QED  BY <2>1, <2>2 DEF TypeOK, Verbs
<1>2. Asking
  BY DEF Asking
<1>3. Questions
  BY <1>0 DEF Questions
<1>4. Places
  BY <1>0 DEF Places, Sent, InChannel
<1>5. OneStream
  BY <1>0 DEF OneStream
<1>6. Tags
  BY <1>0 DEF Tags, Bound, InBacklog, InChannel
<1>7. Ended
  BY DEF Ended
<1>. QED  BY <1>1, <1>2, <1>3, <1>4, <1>5, <1>6, <1>7 DEF IInv

LEMMA TypeStep == ASSUME IInv, [Next]_vars PROVE TypeOK'
<1>1. CASE UNCHANGED vars
  BY <1>1 DEF IInv, TypeOK, vars, handlerVars, leaseVars, socketVars
<1>2. ASSUME NEW h \in Holders,
             \/ \E v \in Verbs, a \in Agents \cup {None} : Request(h, v, a)
             \/ HandlerStep(h) \/ StreamEnds(h)
      PROVE  TypeOK'
  BY <1>2, HandlerTypes
<1>3. ASSUME NEW h \in Holders, Connect(h) PROVE TypeOK'
  <2>1. path[h] \in Agents
    BY <1>3 DEF Connect, IInv, TypeOK
  <2>. QED  BY <1>3, <2>1, SocketTypes
<1>4. ASSUME NEW a \in Agents, RelayStep(a) \/ AcceptLoop(a) \/ AcceptFails(a) \/ AgentDies(a)
      PROVE  TypeOK'
  BY <1>4, RelayTypes, SocketTypes
<1>. QED  BY <1>1, <1>2, <1>3, <1>4 DEF Next

LEMMA Inductive == Spec => []IInv
<1>1. ASSUME IInv, [Next]_vars PROVE IInv'
  BY <1>1, TypeStep, AskingStep, QuestionsStep, PlacesStep, OneStreamStep, TagsStep, EndedStep
     DEF IInv
<1>. QED  BY <1>1, InitIInv, PTL DEF Spec

\* The supervisor, its handlers and the relays' channels keep to their types,
\* and the lock is with the handler that asks or kills and with no other.
THEOREM ControlTypeCorrect == Spec => []TypeOK
<1>1. IInv => TypeOK
  BY DEF IInv
<1>. QED  BY <1>1, Inductive, PTL

\* The lease is tagged with the orchestrator that connected
\* (supervisor.rs:418-423), for any number of agents and orchestrators and
\* whatever detaches, steals and deaths there are, unless two of them were
\* between attach and lease at the same time.
THEOREM LeasesAreTagged == Spec => []TaggedUnlessOverlapped
<1>1. IInv => TaggedUnlessOverlapped
  BY DEF IInv, Tags, Ended, TaggedUnlessOverlapped
<1>. QED  BY <1>1, Inductive, PTL

\* The path an attach is answered with is that of an agent in the pool: the
\* lock is held from the lookup to the answer (supervisor.rs:414-417).
THEOREM PathsArePooled == Spec => PathOfPooled
<1>1. ASSUME IInv, [Next]_vars, NEW h \in Holders, path'[h] \notin {path[h], None}
      PROVE  path'[h] \in pool
  <2>0. TypeOK /\ Asking
    BY <1>1 DEF IInv
  <2>1. ASSUME NEW g \in Holders, Finish(g) PROVE path'[h] \in pool
    <3>1. verb[g] = "attach" /\ path' = [path EXCEPT ![g] = target[g]] /\ handler[g] = "send"
      BY <1>1, <2>1 DEF Finish
    <3>2. target[g] \in pool /\ h = g
      BY <1>1, <2>0, <3>1 DEF Asking, TypeOK
    <3>. QED  BY <2>0, <3>1, <3>2 DEF TypeOK
  <2>2. ASSUME NEW g \in Holders, Connect(g) PROVE FALSE
    BY <1>1, <2>0, <2>2 DEF Connect, TypeOK
  <2>3. CASE UNCHANGED path
    BY <1>1, <2>3
  <2>4. CASE Next
    <3>1. ASSUME NEW g \in Holders,
                 \/ \E v \in Verbs, a \in Agents \cup {None} : Request(g, v, a)
                 \/ HandlerStep(g) \/ StreamEnds(g)
          PROVE  Finish(g) \/ UNCHANGED path
      BY <3>1 DEF Request, HandlerStep, Resolve, Lock, KillDone, Persist, Ask, AskFails, StreamEnds
    <3>2. ASSUME NEW a \in Agents, RelayStep(a) \/ AcceptLoop(a) \/ AcceptFails(a) \/ AgentDies(a)
          PROVE  UNCHANGED path
      BY <3>2 DEF RelayStep, Register, Detach, LeaseHolder, SessionCount, Subscribe, Attach,
                  StealWaitEnds, EndRelay, AcceptLoop, Accept, AcceptLoopReturns, AcceptFails,
                  ReturnWith, AgentDies, handlerVars
    <3>. QED  BY <2>1, <2>2, <2>3, <2>4, <3>1, <3>2 DEF Next
  <2>. QED  BY <1>1, <2>3, <2>4 DEF vars, handlerVars
<1>2. ASSUME IInv, [Next]_vars
      PROVE  [\A h \in Holders : path'[h] \notin {path[h], None} => path'[h] \in pool]_vars
  BY <1>1, <1>2
<1>. QED  BY <1>2, Inductive, PTL DEF Spec, PathOfPooled
=============================================================================

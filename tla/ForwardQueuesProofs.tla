------------------------ MODULE ForwardQueuesProofs ------------------------
(* What ForwardQueues guarantees for every set of sessions, every number of *)
(* leases and all bounds.                                                   *)
EXTENDS ForwardQueues, SequenceTheorems, FiniteSetTheorems, TLAPS

(***************************************************************************)
(* The inductive invariant                                                 *)
(***************************************************************************)

\* The drain is a critical section of the forwarder that holds the mutex: a
\* drain is not begun after a tear, no tear falls into one, and what it still
\* has to visit is in drain_order.
Section ==
    /\ \A c \in Clients : mutex = c <=> forwarder[c] = "drain"
    /\ mutex = None => lapLeft = 0
    /\ mutex # None => ~torn
    /\ lapLeft <= Len(order)

\* A forwarder writes only what it has.
Writing == \A c \in Clients : forwarder[c] = "write" => batch[c] # <<>>

\* An open prompt is registered under its session unless its id has crossed
\* another's, and crossed are all that are open under one id; only they stray.
Registered ==
    /\ \A p \in Prompts : turn[p] = "open" => p \in crossed \/ openTurns[IdOf[p]] = SessionOf[p]
    /\ \A p \in Prompts : \A q \in Prompts \ {p} :
           turn[p] = "open" /\ turn[q] = "open" /\ IdOf[p] = IdOf[q] => p \in crossed
    /\ InOwnLane

Control == Section /\ Writing /\ Registered

\* How many frames have left the lane of a session: those before its first.
Gone(k) == sent[k] - Len(queue[k])

\* A lane holds the last frames its session has sent, without a gap.
LaneIsTail ==
    \A k \in Keys : \A i \in 1..Len(queue[k]) :
        queue[k][i].sid = k /\ queue[k][i].n = Gone(k) + i

Left(f) == f.n <= Gone(f.sid)

\* A frame that has left its lane was given or dropped, not both, and only one
\* that has.
LeftOnce ==
    /\ \A f \in Frame : Left(f) <=> Given(f) \/ f \in reported
    /\ \A f \in reported : ~Given(f)

\* No frame was given twice.
GivenOnce ==
    \A c, d \in Clients : \A i \in 1..Len(Handed(c)), j \in 1..Len(Handed(d)) :
        Handed(c)[i] = Handed(d)[j] => c = d /\ i = j

DropsTear == reported # {} => torn

Traffic == LaneIsTail /\ LeftOnce /\ GivenOnce /\ InOrder /\ NeverSpliced /\ DropsTear

IInv == TypeOK /\ Control /\ Traffic

(***************************************************************************)
(* Sequences                                                               *)
(***************************************************************************)

\* What is moved from the front of a batch to the end of a stream.
LEMMA MoveHead ==
    ASSUME NEW S, NEW g \in Seq(S), NEW b \in Seq(S), b # <<>>
    PROVE  Append(g, Head(b)) \o Tail(b) = g \o b
<1>1. /\ Head(b) \in S
      /\ Tail(b) \in Seq(S)
      /\ Len(Tail(b)) = Len(b) - 1
      /\ \A i \in 1..Len(Tail(b)) : Tail(b)[i] = b[i + 1]
      /\ Head(b) = b[1]
  BY HeadTailProperties
<1>. DEFINE h == Append(g, Head(b))
<1>2. /\ h \in Seq(S)
      /\ Len(h) = Len(g) + 1
      /\ \A i \in 1..Len(g) : h[i] = g[i]
      /\ h[Len(g) + 1] = b[1]
  BY <1>1, AppendProperties
<1>. HIDE DEF h
<1>3. /\ Len(g) \in Nat /\ Len(b) \in Nat /\ Len(b) > 0
  BY LenProperties, EmptySeq
<1>4. /\ h \o Tail(b) \in Seq(S)
      /\ Len(h \o Tail(b)) = Len(g) + Len(b)
      /\ \A i \in 1..Len(h) + Len(Tail(b)) :
             (h \o Tail(b))[i] = IF i <= Len(h) THEN h[i] ELSE Tail(b)[i - Len(h)]
  <2>1. h \in Seq(S) /\ Tail(b) \in Seq(S)
    BY <1>1, <1>2
  <2>2. Len(h \o Tail(b)) = Len(h) + Len(Tail(b))
    BY <2>1, ConcatProperties
  <2>3. /\ h \o Tail(b) \in Seq(S)
        /\ \A i \in 1..Len(h) + Len(Tail(b)) :
               (h \o Tail(b))[i] = IF i <= Len(h) THEN h[i] ELSE Tail(b)[i - Len(h)]
    BY <2>1, ConcatProperties
  <2>. QED  BY <1>1, <1>2, <1>3, <2>2, <2>3
<1>5. /\ g \o b \in Seq(S)
      /\ Len(g \o b) = Len(g) + Len(b)
      /\ \A i \in 1..Len(g) + Len(b) : (g \o b)[i] = IF i <= Len(g) THEN g[i] ELSE b[i - Len(g)]
  BY ConcatProperties
<1>6. ASSUME NEW i \in 1..Len(g) + Len(b) PROVE (h \o Tail(b))[i] = (g \o b)[i]
  BY <1>1, <1>2, <1>3, <1>4, <1>5
<1>7. h \o Tail(b) = g \o b
  BY <1>4, <1>5, <1>6, SeqEqual
<1>. QED  BY <1>7 DEF h

\* What joins a batch joins the stream that ends in the batch.
LEMMA AppendBehind ==
    ASSUME NEW S, NEW g \in Seq(S), NEW b \in Seq(S), NEW x \in S
    PROVE  g \o Append(b, x) = Append(g \o b, x)
<1>1. Append(b, x) = b \o <<x>> /\ <<x>> \in Seq(S)
  BY AppendIsConcat
<1>2. g \o b \in Seq(S) /\ Append(g \o b, x) = (g \o b) \o <<x>>
  BY ConcatProperties, AppendIsConcat
<1>. QED  BY <1>1, <1>2, ConcatAssociative

\* A sequence without duplicates, put in another order by moving its head to
\* its end, or prolonged by what it does not hold.
LEMMA RequeuedInjective ==
    ASSUME NEW S, NEW o \in Seq(S), o # <<>>, IsInjective(o)
    PROVE  /\ Requeued(o) \in Seq(S)
           /\ Len(Requeued(o)) = Len(o)
           /\ IsInjective(Requeued(o))
<1>1. /\ Head(o) \in S
      /\ Tail(o) \in Seq(S)
      /\ Len(Tail(o)) = Len(o) - 1
      /\ \A i \in 1..Len(Tail(o)) : Tail(o)[i] = o[i + 1]
      /\ Head(o) = o[1]
      /\ Len(o) \in Nat /\ Len(o) > 0 /\ DOMAIN o = 1..Len(o)
  BY HeadTailProperties, EmptySeq, LenProperties
<1>2. /\ Requeued(o) \in Seq(S)
      /\ Len(Requeued(o)) = Len(o)
      /\ \A i \in 1..Len(o) - 1 : Requeued(o)[i] = o[i + 1]
      /\ Requeued(o)[Len(o)] = o[1]
  <2>1. /\ Append(Tail(o), Head(o)) \in Seq(S)
        /\ Len(Append(Tail(o), Head(o))) = Len(Tail(o)) + 1
        /\ \A i \in 1..Len(Tail(o)) : Append(Tail(o), Head(o))[i] = Tail(o)[i]
        /\ Append(Tail(o), Head(o))[Len(Tail(o)) + 1] = Head(o)
    BY <1>1, AppendProperties
  <2>. QED  BY <1>1, <2>1 DEF Requeued
<1>3. \A i, j \in 1..Len(o) : o[i] = o[j] => i = j
  BY <1>1 DEF IsInjective
<1>4. DOMAIN Requeued(o) = 1..Len(o)
  BY <1>2, LenProperties
<1>5. ASSUME NEW i \in 1..Len(o), NEW j \in 1..Len(o), Requeued(o)[i] = Requeued(o)[j]
      PROVE  i = j
  BY <1>1, <1>2, <1>3, <1>5
<1>. QED  BY <1>2, <1>4, <1>5 DEF IsInjective

LEMMA ProlongedInjective ==
    ASSUME NEW S, NEW o \in Seq(S), IsInjective(o),
           NEW M \in SUBSET S, IsFiniteSet(M), M \cap ToSet(o) = {},
           NEW new \in SetToSeqs(M)
    PROVE  /\ o \o new \in Seq(S)
           /\ IsInjective(o \o new)
           /\ ToSet(o \o new) = ToSet(o) \cup ToSet(new)
<1>1. Cardinality(M) \in Nat
  BY FS_CardinalityType
<1>2. /\ new \in [1..Cardinality(M) -> M]
      /\ \A i, j \in 1..Cardinality(M) : i # j => new[i] # new[j]
  BY DEF SetToSeqs
<1>3. /\ new \in Seq(S) /\ Len(new) = Cardinality(M)
      /\ \A i \in 1..Len(new) : new[i] \in M
  BY <1>1, <1>2, SeqDef
<1>4. /\ o \o new \in Seq(S)
      /\ Len(o \o new) = Len(o) + Len(new)
      /\ \A i \in 1..Len(o) + Len(new) :
             (o \o new)[i] = IF i <= Len(o) THEN o[i] ELSE new[i - Len(o)]
  BY <1>3, ConcatProperties
<1>5. /\ Len(o) \in Nat /\ DOMAIN o = 1..Len(o) /\ Len(new) \in Nat /\ DOMAIN new = 1..Len(new)
      /\ DOMAIN (o \o new) = 1..Len(o) + Len(new)
  BY <1>3, <1>4, LenProperties
<1>6. ASSUME NEW i \in 1..Len(o), NEW j \in 1..Len(new) PROVE o[i] # new[j]
  BY <1>3, <1>5 DEF ToSet
<1>7. ASSUME NEW i \in 1..Len(o) + Len(new), NEW j \in 1..Len(o) + Len(new),
             (o \o new)[i] = (o \o new)[j]
      PROVE  i = j
  <2>1. CASE i <= Len(o) /\ j <= Len(o)
    BY <1>4, <1>5, <1>7, <2>1 DEF IsInjective
  <2>2. CASE i > Len(o) /\ j > Len(o)
    <3>1. new[i - Len(o)] = new[j - Len(o)]
      BY <1>4, <1>5, <1>7, <2>2
    <3>2. i - Len(o) \in 1..Len(new) /\ j - Len(o) \in 1..Len(new)
      BY <1>5, <2>2
    <3>3. i - Len(o) = j - Len(o)
      BY <1>2, <1>3, <3>1, <3>2
    <3>. QED  BY <1>5, <3>3
  <2>3. CASE i <= Len(o) /\ j > Len(o)
    <3>1. o[i] = new[j - Len(o)] /\ i \in 1..Len(o) /\ j - Len(o) \in 1..Len(new)
      BY <1>4, <1>5, <1>7, <2>3
    <3>. QED  BY <1>6, <3>1
  <2>4. CASE i > Len(o) /\ j <= Len(o)
    <3>1. o[j] = new[i - Len(o)] /\ j \in 1..Len(o) /\ i - Len(o) \in 1..Len(new)
      BY <1>4, <1>5, <1>7, <2>4
    <3>. QED  BY <1>6, <3>1
  <2>. QED  BY <1>5, <2>1, <2>2, <2>3, <2>4
<1>8. IsInjective(o \o new)
  BY <1>5, <1>7 DEF IsInjective
<1>9. ToSet(o \o new) \subseteq ToSet(o) \cup ToSet(new)
  BY <1>4, <1>5 DEF ToSet
<1>10. ToSet(o) \subseteq ToSet(o \o new)
  BY <1>4, <1>5 DEF ToSet
<1>11. ToSet(new) \subseteq ToSet(o \o new)
  <2>1. ASSUME NEW j \in 1..Len(new) PROVE new[j] \in ToSet(o \o new)
    <3>1. /\ j + Len(o) \in 1..Len(o) + Len(new) /\ j + Len(o) > Len(o)
          /\ (j + Len(o)) - Len(o) = j
      BY <1>5
    <3>2. (o \o new)[j + Len(o)] = new[j]
      BY <1>4, <1>5, <3>1
    <3>. QED  BY <1>5, <3>1, <3>2 DEF ToSet
  <2>. QED  BY <1>5, <2>1 DEF ToSet
<1>. QED  BY <1>4, <1>8, <1>9, <1>10, <1>11

(***************************************************************************)
(* Types                                                                   *)
(***************************************************************************)

LEMMA KeysFinite == IsFiniteSet(Keys)
BY SessionAssumption, FS_AddElement DEF Keys

USE BoundsAssumption, SharedAssumption

LEMMA InitTyped == Init => TypeOK /\ Control
<1>. SUFFICES ASSUME Init PROVE TypeOK /\ Control
  OBVIOUS
<1>1. /\ queue \in [Keys -> Seq(Frame)]
      /\ batch \in [Clients -> Seq(Frame)]
      /\ got \in [Clients -> Seq(Frame)]
      /\ order \in Seq(Keys) /\ IsInjective(order) /\ Len(order) = 0
  BY EmptySeq DEF Init, IsInjective
<1>2. \A s \in Keys : sent[s] \in 0..FrameBound[s]
  BY DEF Init, Keys
<1>3. TypeOK
  BY <1>1, <1>2 DEF Init, TypeOK
<1>4. Control
  BY <1>1 DEF Init, Control, Section, Writing, Registered, InOwnLane, Clients
<1>. QED  BY <1>3, <1>4

\* The next frame of a session is one it may send.
LEMMA NextFrame ==
    ASSUME TypeOK, NEW s \in Keys, sent[s] < FrameBound[s]
    PROVE  [sid |-> s, n |-> sent[s] + 1] \in Frame
<1>1. sent[s] + 1 \in 1..FrameBound[s]
  BY DEF TypeOK, Keys
<1>. QED  BY <1>1 DEF Frame

TurnsTyped ==
    /\ openTurns \in [Ids -> Sessions \cup {None}]
    /\ turn \in [Prompts -> {"unsent", "open", "closed"}]
    /\ crossed \subseteq Prompts
    /\ astray \subseteq Prompts

\* What the demultiplexer does to the queue of the key.
LEMMA RouteTyped ==
    ASSUME TypeOK, Control, NEW k \in Keys, Route(k), TurnsTyped'
    PROVE  TypeOK'
<1>. DEFINE q == Push(queue[k], [sid |-> k, n |-> sent[k] + 1])
<1>1. /\ sent[k] < FrameBound[k]
      /\ mutex = None
      /\ sent' = [sent EXCEPT ![k] = @ + 1]
      /\ queue' = [queue EXCEPT ![k] = IF Fits(k, q) THEN q ELSE <<>>]
      /\ pressured' = [pressured EXCEPT ![k] = @ \/ Len(q) >= SoftBound]
      /\ torn' = Torn(k, q)
      /\ reported' = IF Fits(k, q) THEN reported ELSE reported \cup ToSet(q)
      /\ UNCHANGED <<order, agentDead, drainVars, leaseVars, taskVars, alive, got>>
  BY DEF Route
<1>2. q \in Seq(Frame)
  <2>1. [sid |-> k, n |-> sent[k] + 1] \in Frame
    BY <1>1, NextFrame
  <2>2. queue[k] \in Seq(Frame)
    BY DEF TypeOK
  <2>. QED  BY <2>1, <2>2, AppendProperties DEF Push
<1>. HIDE DEF q
<1>3. queue' \in [Keys -> Seq(Frame)]
  BY <1>1, <1>2, EmptySeq DEF TypeOK
<1>4. ToSet(q) \subseteq Frame
  BY <1>2, LenProperties, ElementOfSeq DEF ToSet
<1>5. reported' \subseteq Frame
  BY <1>1, <1>4 DEF TypeOK
<1>6. DOMAIN sent' = Keys /\ \A t \in Keys : sent'[t] \in 0..FrameBound[t]
  <2>0. FrameBound[k] \in Nat /\ sent[k] \in 0..FrameBound[k]
    BY DEF TypeOK, Keys
  <2>1. FrameBound[k] \in Nat /\ sent[k] \in Nat
    BY <2>0
  <2>2. sent'[k] \in 0..FrameBound[k]
    <3>1. sent'[k] = sent[k] + 1
      BY <1>1 DEF TypeOK
    <3>. QED  BY <1>1, <2>1, <3>1
  <2>. QED  BY <1>1, <2>2 DEF TypeOK
<1>7. pressured' \in [Keys -> BOOLEAN] /\ torn' \in BOOLEAN
  BY <1>1 DEF TypeOK, Torn, Fits
<1>. QED
  BY <1>1, <1>3, <1>5, <1>6, <1>7 DEF TypeOK, TurnsTyped, drainVars, leaseVars, taskVars

LEMMA KeyOfTyped ==
    ASSUME TypeOK, NEW i \in Ids
    PROVE  KeyOf(i) \in Keys
BY DEF TypeOK, KeyOf, Keys

\* Where the reply to a prompt goes.
LEMMA ReplyRouted ==
    ASSUME TypeOK, Control, NEW p \in Prompts, NEW kind \in ReplyKinds, DemuxReply(p, kind)
    PROVE  /\ KeyOf(IdOf[p]) \in Keys /\ Route(KeyOf(IdOf[p]))
           /\ TurnsTyped' /\ Registered'
           /\ crossed' = crossed
           /\ astray' = astray \/ (p \in crossed /\ astray' = astray \cup {p})
<1>1. KeyOf(IdOf[p]) \in Keys /\ Route(KeyOf(IdOf[p]))
  BY PromptAssumption, KeyOfTyped DEF DemuxReply
<1>2. p \notin crossed => KeyOf(IdOf[p]) = SessionOf[p]
  <2>1. turn[p] = "open"
    BY DEF DemuxReply
  <2>2. p \notin crossed => openTurns[IdOf[p]] = SessionOf[p]
    BY <2>1 DEF Control, Registered
  <2>3. SessionOf[p] # None
    BY PromptAssumption
  <2>. QED  BY <2>2, <2>3 DEF KeyOf
<1>3. TurnsTyped'
  BY DEF DemuxReply, TypeOK, TurnsTyped
<1>4. ASSUME NEW q \in Prompts, turn'[q] = "open"
      PROVE  q \in crossed \/ openTurns'[IdOf[q]] = SessionOf[q]
  <2>1. turn[q] = "open" /\ q # p
    BY <1>4 DEF DemuxReply, TypeOK
  <2>2. CASE IdOf[q] = IdOf[p]
    BY <2>1, <2>2 DEF DemuxReply, Control, Registered
  <2>3. CASE IdOf[q] # IdOf[p]
    BY <2>1, <2>3 DEF DemuxReply, Control, Registered, TypeOK
  <2>. QED  BY <2>2, <2>3
<1>5. \A q \in Prompts : turn'[q] = "open" => turn[q] = "open"
  BY DEF DemuxReply, TypeOK
<1>6. /\ crossed' = crossed
      /\ astray' = astray \/ (p \in crossed /\ astray' = astray \cup {p})
  BY <1>2 DEF DemuxReply
<1>7. InOwnLane'
  BY <1>6 DEF Control, Registered, InOwnLane
<1>8. Registered'
  BY <1>4, <1>5, <1>6, <1>7 DEF Control, Registered
<1>. QED  BY <1>1, <1>3, <1>6, <1>8

\* A prompt that finds its id open crosses, and so do those it finds there.
LEMMA PromptRegistered ==
    ASSUME TypeOK, Control, NEW p \in Prompts, Prompt(p)
    PROVE  TurnsTyped' /\ Registered' /\ crossed \subseteq crossed' /\ astray' = astray
<1>0. IdOf \in [Prompts -> Ids] /\ SessionOf \in [Prompts -> Sessions]
  BY PromptAssumption
<1>1. /\ turn' = [turn EXCEPT ![p] = "open"]
      /\ openTurns' = [openTurns EXCEPT ![IdOf[p]] = SessionOf[p]]
      /\ crossed' = IF Twins(p) = {} THEN crossed ELSE crossed \cup {p} \cup Twins(p)
      /\ astray' = astray
  BY DEF Prompt
<1>2. TurnsTyped' /\ crossed \subseteq crossed'
  BY <1>0, <1>1 DEF TypeOK, TurnsTyped, Twins
<1>3. ASSUME NEW q \in Prompts, q # p, turn[q] = "open", IdOf[q] = IdOf[p]
      PROVE  p \in crossed' /\ q \in crossed'
  BY <1>1, <1>3 DEF Twins
<1>4. ASSUME NEW q \in Prompts, turn'[q] = "open"
      PROVE  q \in crossed' \/ openTurns'[IdOf[q]] = SessionOf[q]
  <2>1. CASE q = p
    BY <1>0, <1>1, <2>1 DEF TypeOK
  <2>2. CASE q # p
    <3>1. turn[q] = "open"
      BY <1>1, <1>4, <2>2 DEF TypeOK
    <3>2. CASE IdOf[q] = IdOf[p]
      BY <1>3, <2>2, <3>1, <3>2
    <3>3. CASE IdOf[q] # IdOf[p]
      <4>1. openTurns'[IdOf[q]] = openTurns[IdOf[q]]
        BY <1>0, <1>1, <3>3 DEF TypeOK
      <4>. QED  BY <1>2, <3>1, <4>1 DEF Control, Registered
    <3>. QED  BY <3>2, <3>3
  <2>. QED  BY <2>1, <2>2
<1>5. ASSUME NEW q \in Prompts, NEW t \in Prompts \ {q},
             turn'[q] = "open", turn'[t] = "open", IdOf[q] = IdOf[t]
      PROVE  q \in crossed'
  <2>1. CASE q # p /\ t # p
    <3>1. turn[q] = "open" /\ turn[t] = "open"
      BY <1>1, <1>5, <2>1 DEF TypeOK
    <3>. QED  BY <1>2, <1>5, <3>1 DEF Control, Registered
  <2>2. CASE q = p
    <3>1. t # p /\ turn[t] = "open"
      BY <1>1, <1>5, <2>2 DEF TypeOK
    <3>. QED  BY <1>3, <1>5, <2>2, <3>1
  <2>3. CASE t = p
    <3>1. q # p /\ turn[q] = "open"
      BY <1>1, <1>5, <2>3 DEF TypeOK
    <3>. QED  BY <1>3, <1>5, <2>3, <3>1
  <2>. QED  BY <2>1, <2>2, <2>3
<1>6. InOwnLane'
  BY <1>1, <1>2 DEF Control, Registered, InOwnLane
<1>. QED  BY <1>1, <1>2, <1>4, <1>5, <1>6 DEF Registered

LEMMA AgentTyped ==
    ASSUME TypeOK, Control,
           \/ \E s \in Keys : DemuxFrame(s)
           \/ \E p \in Prompts, kind \in ReplyKinds : DemuxReply(p, kind)
    PROVE  TypeOK'
<1>1. ASSUME NEW s \in Keys, DemuxFrame(s) PROVE TypeOK'
  <2>1. Route(s) /\ TurnsTyped'
    BY <1>1 DEF DemuxFrame, turnVars, TypeOK, TurnsTyped
  <2>. QED  BY <2>1, RouteTyped
<1>2. ASSUME NEW p \in Prompts, NEW kind \in ReplyKinds, DemuxReply(p, kind) PROVE TypeOK'
  BY <1>2, ReplyRouted, RouteTyped
<1>. QED  BY <1>1, <1>2

LEMMA StartDrainTyped ==
    ASSUME TypeOK, Control, NEW c \in Clients, StartDrain(c)
    PROVE  TypeOK' /\ Section'
<1>1. PICK new \in SetToSeqs(MissingKeys) : order' = order \o new
  BY DEF StartDrain
<1>2. MissingKeys \in SUBSET Keys /\ MissingKeys \cap ToSet(order) = {}
  BY LenProperties, ElementOfSeq DEF MissingKeys, Known, ToSet, TypeOK
<1>3. IsFiniteSet(MissingKeys)
  BY <1>2, KeysFinite, FS_Subset
<1>4. order' \in Seq(Keys) /\ IsInjective(order')
  BY <1>1, <1>2, <1>3, ProlongedInjective DEF TypeOK
<1>5. Len(order') \in Nat
  BY <1>4, LenProperties
<1>6. TypeOK'
  BY <1>4, <1>5 DEF StartDrain, TypeOK, turnVars, leaseVars, worldVars
<1>7. c # None /\ ~torn' /\ mutex' = c /\ lapLeft' <= Len(order')
  BY <1>5 DEF StartDrain, TearSeen, Clients
<1>8. \A d \in Clients : mutex' = d <=> forwarder'[d] = "drain"
  BY DEF StartDrain, Control, Section, TypeOK, Clients
<1>. QED  BY <1>6, <1>7, <1>8 DEF Section

LEMMA VisitTyped ==
    ASSUME TypeOK, Control, NEW c \in Clients, Visit(c)
    PROVE  /\ order # <<>> /\ Head(order) \in Keys
           /\ TypeOK' /\ Control'
<1>1. /\ order # <<>> /\ Head(order) \in Keys
      /\ order' \in Seq(Keys) /\ IsInjective(order') /\ Len(order') = Len(order)
      /\ Len(order) \in Nat
  <2>1. order # <<>>
    BY EmptySeq DEF Visit, TypeOK, Control, Section
  <2>. QED
    BY <2>1, HeadTailProperties, RequeuedInjective, LenProperties DEF Visit, TypeOK
<1>2. lapLeft' \in Nat /\ lapLeft' <= Len(order')
  BY <1>1 DEF Visit, TypeOK, Control, Section
<1>3. CASE queue[Head(order)] # <<>> /\ ~pressured[Head(order)]
  <2>. DEFINE s == Head(order)
  <2>1. /\ batch' = [batch EXCEPT ![c] = Append(@, Head(queue[s]))]
        /\ queue' = [queue EXCEPT ![s] = Tail(@)]
        /\ lapPops' = lapPops + 1
    BY <1>3 DEF Visit, Popped
  <2>2. Head(queue[s]) \in Frame /\ Tail(queue[s]) \in Seq(Frame)
    BY <1>1, <1>3, HeadTailProperties DEF TypeOK
  <2>3. Append(batch[c], Head(queue[s])) \in Seq(Frame) /\ Append(batch[c], Head(queue[s])) # <<>>
    <3>1. batch[c] \in Seq(Frame)
      BY DEF TypeOK
    <3>. QED  BY <2>2, <3>1, AppendProperties
  <2>4. batch' \in [Clients -> Seq(Frame)] /\ queue' \in [Keys -> Seq(Frame)] /\ lapPops' \in Nat
    <3>1. /\ batch \in [Clients -> Seq(Frame)] /\ queue \in [Keys -> Seq(Frame)] /\ lapPops \in Nat
      BY DEF TypeOK
    <3>2. batch' \in [Clients -> Seq(Frame)]
      BY <2>1, <2>3, <3>1
    <3>3. queue' \in [Keys -> Seq(Frame)]
      BY <2>1, <2>2, <3>1
    <3>. QED  BY <2>1, <3>1, <3>2, <3>3
  <2>5. TypeOK'
    BY <1>1, <1>2, <2>4 DEF Visit, TypeOK, turnVars, leaseVars, worldVars
  <2>6. Control'
    BY <1>1, <1>2, <2>1, <2>3 DEF Visit, TypeOK, Control, Section, Writing, Registered, InOwnLane, turnVars,
                                  leaseVars, worldVars, Clients
  <2>. QED  BY <1>1, <2>5, <2>6
<1>4. CASE UNCHANGED <<batch, queue, lapPops>>
  <2>1. TypeOK'
    BY <1>1, <1>2, <1>4 DEF Visit, TypeOK, turnVars, leaseVars, worldVars
  <2>2. Control'
    BY <1>1, <1>2, <1>4 DEF Visit, TypeOK, Control, Section, Writing, Registered, InOwnLane, turnVars,
                            leaseVars, worldVars, Clients
  <2>. QED  BY <1>1, <2>1, <2>2
<1>. QED  BY <1>3, <1>4 DEF Visit

LEMMA WriteTyped ==
    ASSUME TypeOK, Control, NEW c \in Clients, Write(c)
    PROVE  batch[c] # <<>> /\ TypeOK' /\ Control'
<1>1. /\ batch[c] # <<>>
      /\ batch[c] \in Seq(Frame) /\ got[c] \in Seq(Frame)
  BY DEF Write, Control, Writing, TypeOK
<1>2. /\ Head(batch[c]) \in Frame /\ Tail(batch[c]) \in Seq(Frame)
      /\ Len(Tail(batch[c])) = Len(batch[c]) - 1
      /\ Append(got[c], Head(batch[c])) \in Seq(Frame)
  BY <1>1, HeadTailProperties, AppendProperties
<1>3. Len(batch[c]) # 1 => Tail(batch[c]) # <<>>
  <2>1. Len(batch[c]) \in Nat
    BY <1>1, LenProperties
  <2>2. Tail(batch[c]) = <<>> => Len(Tail(batch[c])) = 0
    BY EmptySeq
  <2>. QED  BY <1>2, <2>1, <2>2
<1>4. TypeOK'
  BY <1>2 DEF Write, TypeOK, turnVars, stateVars, drainVars, leaseVars
<1>5. Control'
  BY <1>3 DEF Write, Control, Section, Writing, Registered, InOwnLane, TypeOK, turnVars, stateVars,
              drainVars, leaseVars
<1>. QED  BY <1>1, <1>4, <1>5

LEMMA ForwardTyped ==
    ASSUME TypeOK, Control, NEW c \in Clients, Forward(c)
    PROVE  TypeOK' /\ Control'
<1>. USE DEF Control, Section, Writing, Registered, InOwnLane, TypeOK, turnVars, stateVars, drainVars,
             leaseVars, taskVars, worldVars, Clients
<1>0. Len(order) \in Nat
  BY LenProperties DEF TypeOK
<1>1. CASE Top(c)
  BY <1>1 DEF Top
<1>2. CASE LeaveTorn(c)
  BY <1>2 DEF LeaveTorn
<1>3. CASE StartDrain(c)
  <2>1. TypeOK' /\ Section'
    BY <1>3, StartDrainTyped DEF Control, Section, Writing, Registered
  <2>2. Writing' /\ Registered'
    BY <1>3 DEF StartDrain
  <2>. QED  BY <2>1, <2>2
<1>4. CASE Visit(c)
  BY <1>4, VisitTyped
<1>5. CASE NextLap(c)
  <2>0. /\ UNCHANGED <<turnVars, stateVars, mutex, leaseVars, taskVars, worldVars>>
        /\ lapLeft' \in Nat /\ lapPops' \in Nat /\ lapLeft' <= Len(order) /\ mutex # None
    BY <1>0, <1>5 DEF NextLap
  <2>1. TypeOK'
    BY <2>0
  <2>2. Control'
    BY <2>0
  <2>. QED  BY <2>1, <2>2
<1>6. CASE EndDrain(c)
  <2>1. Section'
    <3>1. mutex' = None /\ lapLeft' = 0 /\ order' = order /\ torn' = torn
      BY <1>6 DEF EndDrain
    <3>2. AfterDrain(c) # "drain"
      BY DEF AfterDrain
    <3>3. ASSUME NEW d \in Clients PROVE forwarder'[d] # "drain"
      BY <1>6, <3>2 DEF EndDrain
    <3>4. lapLeft' <= Len(order')
      BY <1>0, <3>1
    <3>5. ASSUME NEW d \in Clients PROVE mutex' # d
      BY <3>1
    <3>. QED  BY <3>1, <3>3, <3>4, <3>5
  <2>2. Writing' /\ Registered'
    BY <1>6 DEF EndDrain, AfterDrain
  <2>3. TypeOK'
    BY <1>6 DEF EndDrain, AfterDrain
  <2>. QED  BY <2>1, <2>2, <2>3
<1>7. CASE Write(c)
  BY <1>7, WriteTyped
<1>8. CASE WriteFails(c)
  BY <1>8 DEF WriteFails
<1>. QED  BY <1>1, <1>2, <1>3, <1>4, <1>5, <1>6, <1>7, <1>8 DEF Forward

\* No tear falls into a drain, and the entry of a turn goes after the turn.
LEMMA AgentControl ==
    ASSUME TypeOK, Control,
           \/ \E s \in Keys : DemuxFrame(s)
           \/ \E p \in Prompts, kind \in ReplyKinds : DemuxReply(p, kind)
    PROVE  Control'
<1>1. /\ mutex = None
      /\ UNCHANGED <<order, drainVars, taskVars>>
  BY DEF DemuxFrame, DemuxReply, Route
<1>2. Registered'
  <2>1. ASSUME NEW s \in Keys, DemuxFrame(s) PROVE Registered'
    BY <2>1 DEF DemuxFrame, Control, Registered, InOwnLane, turnVars
  <2>. QED  BY <2>1, ReplyRouted
<1>. QED  BY <1>1, <1>2 DEF Control, Section, Writing, drainVars, taskVars

LEMMA StepTyped == TypeOK /\ Control /\ [Next]_vars => TypeOK' /\ Control'
<1>. SUFFICES ASSUME TypeOK, Control, [Next]_vars PROVE TypeOK' /\ Control'
  OBVIOUS
<1>1. CASE \/ \E s \in Keys : DemuxFrame(s)
           \/ \E p \in Prompts, kind \in ReplyKinds : DemuxReply(p, kind)
  BY <1>1, AgentTyped, AgentControl
<1>2. ASSUME NEW p \in Prompts, Prompt(p) PROVE TypeOK' /\ Control'
  <2>1. TurnsTyped' /\ Registered'
    BY <1>2, PromptRegistered
  <2>2. UNCHANGED <<stateVars, drainVars, leaseVars, taskVars, sent, alive, got, reported>>
    BY <1>2 DEF Prompt
  <2>3. TypeOK'
    BY <2>1, <2>2 DEF TurnsTyped, TypeOK, stateVars, drainVars, leaseVars, taskVars
  <2>4. Section' /\ Writing'
    BY <2>2 DEF Control, Section, Writing, stateVars, drainVars, taskVars
  <2>. QED  BY <2>1, <2>3, <2>4 DEF Control
<1>3. CASE AgentDies
  BY <1>3 DEF AgentDies, Control, Section, Writing, Registered, InOwnLane, TypeOK, turnVars, drainVars,
              leaseVars, taskVars, worldVars
<1>4. CASE Detach
  BY <1>4 DEF Detach, StopsHolder, Control, Section, Writing, Registered, InOwnLane, TypeOK, turnVars,
              stateVars, drainVars, taskVars, worldVars
<1>5. ASSUME NEW c \in Clients, Attach(c) PROVE TypeOK' /\ Control'
  BY <1>5 DEF Attach, StopsHolder, Control, Section, Writing, Registered, InOwnLane, TypeOK, turnVars,
              stateVars, drainVars, worldVars
<1>6. ASSUME NEW c \in Clients, HangUp(c) PROVE TypeOK' /\ Control'
  BY <1>6 DEF HangUp, Control, Section, Writing, Registered, InOwnLane, TypeOK, turnVars,
              stateVars, drainVars, leaseVars, taskVars
<1>7. ASSUME NEW c \in Clients, Forward(c) PROVE TypeOK' /\ Control'
  BY <1>7, ForwardTyped
<1>8. CASE UNCHANGED vars
  BY <1>8 DEF vars, Control, Section, Writing, Registered, InOwnLane, TypeOK, turnVars, stateVars, drainVars,
              leaseVars, taskVars, worldVars
<1>. QED  BY <1>1, <1>2, <1>3, <1>4, <1>5, <1>6, <1>7, <1>8 DEF Next

\* Whatever the sessions, the leases and the bounds, the variables of
\* RelayState and of the forwarders have the values the code gives them, and no
\* session is twice in drain_order (relay.rs:779-784).
THEOREM QueuesTypeCorrect == Spec => []TypeOK
<1>1. Spec => [](TypeOK /\ Control)
  BY InitTyped, StepTyped, PTL DEF Spec
<1>. QED  BY <1>1, PTL

(***************************************************************************)
(* What a step may do to the frames                                        *)
(***************************************************************************)

NextOf(k) == [sid |-> k, n |-> sent[k] + 1]

Same == UNCHANGED <<sent, queue, torn, reported>> /\ \A c \in Clients : Handed(c)' = Handed(c)

Joins(k) ==
    /\ sent[k] < FrameBound[k]
    /\ sent' = [sent EXCEPT ![k] = @ + 1]
    /\ queue' = [queue EXCEPT ![k] = Append(@, NextOf(k))]
    /\ UNCHANGED <<torn, reported>>
    /\ \A c \in Clients : Handed(c)' = Handed(c)

Tears(k) ==
    /\ sent[k] < FrameBound[k]
    /\ sent' = [sent EXCEPT ![k] = @ + 1]
    /\ queue' = [queue EXCEPT ![k] = <<>>]
    /\ torn' = TRUE
    /\ reported' = reported \cup ToSet(Append(queue[k], NextOf(k)))
    /\ \A c \in Clients : Handed(c)' = Handed(c)

Gives(k, c) ==
    /\ ~torn
    /\ queue[k] # <<>>
    /\ queue' = [queue EXCEPT ![k] = Tail(@)]
    /\ UNCHANGED <<sent, torn, reported>>
    /\ \A d \in Clients :
           Handed(d)' = IF d = c THEN Append(Handed(c), Head(queue[k])) ELSE Handed(d)

LEMMA HandedTyped == ASSUME TypeOK, NEW c \in Clients PROVE Handed(c) \in Seq(Frame)
BY ConcatProperties DEF TypeOK, Handed

LEMMA RouteKinds ==
    ASSUME TypeOK, NEW k \in Keys, Route(k)
    PROVE  Joins(k) \/ Tears(k)
<1>1. Push(queue[k], [sid |-> k, n |-> sent[k] + 1]) = Append(queue[k], NextOf(k))
  BY DEF Push, NextOf
<1>2. \A c \in Clients : Handed(c)' = Handed(c)
  BY DEF Route, Handed, taskVars
<1>3. CASE Fits(k, Append(queue[k], NextOf(k)))
  <2>1. torn' = torn
    BY <1>1, <1>3 DEF Route, Torn, TypeOK
  <2>2. queue' = [queue EXCEPT ![k] = Append(@, NextOf(k))]
    BY <1>1, <1>3 DEF Route, TypeOK
  <2>. QED  BY <1>1, <1>2, <1>3, <2>1, <2>2 DEF Route, Joins
<1>4. CASE ~Fits(k, Append(queue[k], NextOf(k)))
  <2>1. torn' = TRUE
    BY <1>1, <1>4 DEF Route, Torn, TypeOK
  <2>. QED  BY <1>1, <1>2, <1>4, <2>1 DEF Route, Tears
<1>. QED  BY <1>3, <1>4

LEMMA VisitKinds ==
    ASSUME TypeOK, Control, NEW c \in Clients, Visit(c)
    PROVE  Same \/ \E k \in Keys : Gives(k, c)
<1>. DEFINE k == Head(order)
<1>1. k \in Keys
  BY VisitTyped
<1>2. ~torn
  BY DEF Visit, Control, Section, Clients
<1>3. CASE UNCHANGED <<batch, queue>>
  BY <1>3 DEF Visit, Same, Handed, worldVars
<1>4. CASE /\ queue[k] # <<>>
           /\ batch' = [batch EXCEPT ![c] = Append(@, Head(queue[k]))]
           /\ queue' = [queue EXCEPT ![k] = Popped(@)]
  <2>1. /\ got' = got /\ sent' = sent /\ torn' = torn /\ reported' = reported
        /\ queue' = [queue EXCEPT ![k] = Tail(@)]
    BY <1>4 DEF Visit, worldVars, Popped
  <2>2. /\ Head(queue[k]) \in Frame
        /\ got[c] \in Seq(Frame) /\ batch[c] \in Seq(Frame)
    BY <1>1, <1>4, HeadTailProperties DEF TypeOK
  <2>3. Handed(c)' = Append(Handed(c), Head(queue[k]))
    <3>1. Handed(c)' = got[c] \o Append(batch[c], Head(queue[k]))
      BY <1>4, <2>1 DEF Handed, TypeOK
    <3>2. got[c] \o Append(batch[c], Head(queue[k])) = Append(got[c] \o batch[c], Head(queue[k]))
      <4>. DEFINE x == Head(queue[k])
                  g == got[c]
                  b == batch[c]
      <4>1. x \in Frame /\ g \in Seq(Frame) /\ b \in Seq(Frame)
        BY <2>2
      <4>. HIDE DEF x, g, b
      <4>2. g \o Append(b, x) = Append(g \o b, x)
        BY <4>1, AppendBehind
      <4>. QED  BY <4>2 DEF x, g, b
    <3>. QED  BY <3>1, <3>2 DEF Handed
  <2>4. \A d \in Clients \ {c} : Handed(d)' = Handed(d)
    BY <1>4, <2>1 DEF Handed, TypeOK
  <2>5. Gives(k, c)
    BY <1>2, <1>4, <2>1, <2>3, <2>4 DEF Gives
  <2>. QED  BY <1>1, <2>5
<1>. QED  BY <1>3, <1>4 DEF Visit

LEMMA WriteSame ==
    ASSUME TypeOK, Control, NEW c \in Clients, Write(c)
    PROVE  Same
<1>1. /\ batch[c] # <<>> /\ got[c] \in Seq(Frame) /\ batch[c] \in Seq(Frame)
      /\ got' = [got EXCEPT ![c] = Append(@, Head(batch[c]))]
      /\ batch' = [batch EXCEPT ![c] = Tail(@)]
  BY WriteTyped DEF Write, TypeOK
<1>2. Handed(c)' = Handed(c)
  <2>1. Handed(c)' = Append(got[c], Head(batch[c])) \o Tail(batch[c])
    BY <1>1 DEF Handed, TypeOK
  <2>. QED  BY <1>1, <2>1, MoveHead DEF Handed
<1>3. \A d \in Clients \ {c} : Handed(d)' = Handed(d)
  BY <1>1 DEF Handed, TypeOK
<1>. QED  BY <1>2, <1>3 DEF Same, Write, stateVars

\* A step leaves the frames where they are, or the agent's next frame joins its
\* lane or tears it, or the first of a lane is given to a client.
LEMMA StepKinds ==
    ASSUME TypeOK, Control, [Next]_vars
    PROVE  \/ Same
           \/ \E k \in Keys : Joins(k) \/ Tears(k) \/ \E c \in Clients : Gives(k, c)
<1>. DEFINE Kinds == \/ Same
                     \/ \E k \in Keys : Joins(k) \/ Tears(k) \/ \E c \in Clients : Gives(k, c)
<1>1. ASSUME NEW s \in Keys, DemuxFrame(s) PROVE Kinds
  BY <1>1, RouteKinds DEF DemuxFrame
<1>2. ASSUME NEW p \in Prompts, NEW kind \in ReplyKinds, DemuxReply(p, kind) PROVE Kinds
  BY <1>2, ReplyRouted, RouteKinds
<1>3. ASSUME NEW p \in Prompts, Prompt(p) PROVE Kinds
  BY <1>3 DEF Prompt, Same, Handed, stateVars, taskVars
<1>4. CASE AgentDies
  BY <1>4 DEF AgentDies, Same, Handed, worldVars, taskVars
<1>5. CASE Detach
  BY <1>5 DEF Detach, Same, Handed, worldVars, taskVars, stateVars
<1>6. ASSUME NEW c \in Clients, Attach(c) \/ HangUp(c) PROVE Kinds
  BY <1>6 DEF Attach, HangUp, Same, Handed, worldVars, taskVars, stateVars
<1>7. ASSUME NEW c \in Clients, Forward(c) PROVE Kinds
  <2>1. CASE Top(c) \/ LeaveTorn(c) \/ StartDrain(c) \/ NextLap(c) \/ EndDrain(c) \/ WriteFails(c)
    BY <2>1 DEF Top, LeaveTorn, StartDrain, NextLap, EndDrain, WriteFails, Same, Handed, worldVars,
                taskVars, stateVars
  <2>2. CASE Visit(c)
    BY <2>2, VisitKinds
  <2>3. CASE Write(c)
    BY <2>3, WriteSame
  <2>. QED  BY <1>7, <2>1, <2>2, <2>3 DEF Forward
<1>8. CASE UNCHANGED vars
  BY <1>8 DEF vars, Same, Handed, worldVars, taskVars, stateVars
<1>. QED  BY <1>1, <1>2, <1>3, <1>4, <1>5, <1>6, <1>7, <1>8 DEF Next

(***************************************************************************)
(* The lanes                                                               *)
(***************************************************************************)

LEMMA LanesInitially == Init => Lanes!LanesInit
<1>. SUFFICES ASSUME Init PROVE Lanes!LanesInit
  OBVIOUS
<1>1. \A c \in Clients : Handed(c) = <<>>
  <2>1. <<>> \o <<>> = <<>>
    BY EmptySeq, ConcatEmptySeq
  <2>. QED  BY <2>1 DEF Init, Handed
<1>. QED  BY <1>1 DEF Init, Lanes!LanesInit

\* What a step does to the prompts that cross and stray.
LEMMA TurnKinds ==
    ASSUME TypeOK, Control, [Next]_vars
    PROVE  \/ UNCHANGED <<crossed, astray>>
           \/ \E p \in Prompts : /\ Prompt(p) /\ Same
                                 /\ crossed \subseteq crossed' /\ crossed' \subseteq Prompts
                                 /\ astray' = astray
           \/ \E p \in crossed : /\ astray' = astray \cup {p} /\ crossed' = crossed
                                 /\ \E k \in Keys : Joins(k) \/ Tears(k)
<1>1. ASSUME NEW p \in Prompts, NEW kind \in ReplyKinds, DemuxReply(p, kind)
      PROVE  \/ UNCHANGED <<crossed, astray>>
             \/ \E q \in crossed : /\ astray' = astray \cup {q} /\ crossed' = crossed
                                   /\ \E k \in Keys : Joins(k) \/ Tears(k)
  <2>1. \E k \in Keys : Joins(k) \/ Tears(k)
    BY <1>1, ReplyRouted, RouteKinds
  <2>. QED  BY <1>1, <2>1, ReplyRouted
<1>2. ASSUME NEW p \in Prompts, Prompt(p)
      PROVE  /\ Prompt(p) /\ Same
             /\ crossed \subseteq crossed' /\ crossed' \subseteq Prompts
             /\ astray' = astray
  <2>1. Same
    BY <1>2 DEF Prompt, Same, Handed, stateVars, taskVars
  <2>. QED  BY <1>2, <2>1, PromptRegistered DEF TurnsTyped
<1>3. CASE \/ \E s \in Keys : DemuxFrame(s)
           \/ AgentDies \/ Detach
           \/ \E c \in Clients : Attach(c) \/ HangUp(c) \/ Forward(c)
           \/ UNCHANGED vars
  BY <1>3 DEF DemuxFrame, AgentDies, Detach, Attach, HangUp, Forward, Top, LeaveTorn, StartDrain,
              Visit, NextLap, EndDrain, Write, WriteFails, turnVars, vars
<1>. QED  BY <1>1, <1>2, <1>3 DEF Next

LEMMA LanesStep ==
    ASSUME TypeOK, Control, [Next]_vars
    PROVE  [Lanes!LanesNext]_(Lanes!laneVars)
<1>1. CASE UNCHANGED <<crossed, astray>>
  <2>1. CASE Same
    BY <1>1, <2>1 DEF Same, Lanes!laneVars
  <2>2. ASSUME NEW k \in Keys, Joins(k) PROVE Lanes!LanesNext
    <3>1. Lanes!Queue(k)
      BY <1>1, <2>2 DEF Joins, NextOf, Lanes!Queue, Lanes!Sends
    <3>. QED  BY <3>1 DEF Lanes!LanesNext
  <2>3. ASSUME NEW k \in Keys, Tears(k) PROVE Lanes!LanesNext
    <3>1. Lanes!Cut(k)
      BY <1>1, <2>3 DEF Tears, Lanes!Cut, Lanes!Sends
    <3>. QED  BY <3>1 DEF Lanes!LanesNext
  <2>4. ASSUME NEW k \in Keys, NEW c \in Clients, Gives(k, c) PROVE Lanes!LanesNext
    <3>1. Lanes!Hand(k, c)
      BY <1>1, <2>4 DEF Gives, Lanes!Hand
    <3>. QED  BY <3>1 DEF Lanes!LanesNext
  <2>. QED  BY StepKinds, <2>1, <2>2, <2>3, <2>4
<1>2. ASSUME Same, crossed \subseteq crossed', crossed' \subseteq Prompts, astray' = astray
      PROVE  Lanes!LanesNext
  <2>1. Lanes!Cross
    BY <1>2 DEF Same, Lanes!Cross
  <2>. QED  BY <2>1 DEF Lanes!LanesNext
<1>3. ASSUME NEW p \in crossed, astray' = astray \cup {p}, crossed' = crossed,
             NEW k \in Keys, Joins(k) \/ Tears(k)
      PROVE  Lanes!LanesNext
  <2>1. CASE Joins(k)
    <3>1. Lanes!Queue(k)
      BY <1>3, <2>1 DEF Joins, NextOf, Lanes!Queue, Lanes!Sends
    <3>. QED  BY <3>1 DEF Lanes!LanesNext
  <2>2. CASE Tears(k)
    <3>1. Lanes!Cut(k)
      BY <1>3, <2>2 DEF Tears, Lanes!Cut, Lanes!Sends
    <3>. QED  BY <3>1 DEF Lanes!LanesNext
  <2>. QED  BY <1>3, <2>1, <2>2
<1>. QED  BY TurnKinds, <1>1, <1>2, <1>3

\* The queues, the bounds and the forwarders implement one lane per session,
\* cut for good when it outgrows its bound, however many forwarders drain and
\* whatever ids the prompts have: a reply joins another session's lane only if
\* its prompt was open together with one of the same id (relay.rs:533-557).
THEOREM QueuesImplementLanes == Spec => LanesSpec
<1>1. Spec => [](TypeOK /\ Control)
  BY InitTyped, StepTyped, PTL DEF Spec
<1>. QED
  BY <1>1, LanesInitially, LanesStep, PTL DEF Spec, LanesSpec, Lanes!LanesSpec

(***************************************************************************)
(* The frames                                                              *)
(***************************************************************************)

\* What the lemmas below say of one frame or one lane.
LEMMA Numbers ==
    ASSUME TypeOK
    PROVE  /\ \A f \in Frame : f.sid \in Keys /\ f.n \in Nat \ {0}
           /\ \A k \in Keys : Len(queue[k]) \in Nat /\ sent[k] \in Nat /\ Gone(k) \in Int
<1>1. \A k \in Keys : Len(queue[k]) \in Nat /\ sent[k] \in Nat
  BY LenProperties DEF TypeOK, Keys
<1>2. \A k \in Keys : FrameBound[k] \in Nat
  BY DEF Keys
<1>. QED  BY <1>1, <1>2 DEF Frame, Gone

LEMMA FrameEqual ==
    ASSUME NEW f \in Frame, NEW g \in Frame, f.sid = g.sid, f.n = g.n
    PROVE  f = g
BY DEF Frame

\* The lane of a session holds the frames it has sent that have not left it.
LEMMA LaneMembers ==
    ASSUME TypeOK, LaneIsTail, NEW f \in Frame
    PROVE  Queued(f) <=> ~Left(f) /\ f.n <= sent[f.sid]
<1>. DEFINE k == f.sid
<1>1. /\ k \in Keys /\ f.n \in Nat \ {0} /\ Len(queue[k]) \in Nat /\ sent[k] \in Nat
      /\ Gone(k) \in Int /\ sent[k] = Gone(k) + Len(queue[k])
  BY Numbers DEF Gone
<1>2. ASSUME NEW l \in Keys, NEW i \in 1..Len(queue[l]), queue[l][i] = f
      PROVE  ~Left(f) /\ f.n <= sent[f.sid]
  <2>1. l = k /\ f.n = Gone(k) + i
    BY <1>2 DEF LaneIsTail
  <2>. QED  BY <1>1, <2>1 DEF Left
<1>3. ASSUME ~Left(f), f.n <= sent[k] PROVE Queued(f)
  <2>. DEFINE i == f.n - Gone(k)
  <2>1. i \in 1..Len(queue[k]) /\ f.n = Gone(k) + i
    BY <1>1, <1>3 DEF Left
  <2>2. queue[k][i].sid = k /\ queue[k][i].n = f.n
    BY <1>1, <2>1 DEF LaneIsTail
  <2>3. queue[k][i] \in Frame
    BY <1>1, <2>1, ElementOfSeq DEF TypeOK
  <2>4. queue[k][i] = f
    BY <2>2, <2>3, FrameEqual
  <2>. QED  BY <1>1, <2>1, <2>4 DEF Queued
<1>. QED  BY <1>2, <1>3 DEF Queued

LEMMA TrafficInit == Init => Traffic
<1>. SUFFICES ASSUME Init PROVE Traffic
  OBVIOUS
<1>1. TypeOK
  BY InitTyped
<1>2. \A c \in Clients : Len(Handed(c)) = 0
  <2>1. <<>> \o <<>> = <<>> /\ Len(<<>>) = 0
    BY EmptySeq, ConcatEmptySeq
  <2>. QED  BY <2>1 DEF Init, Handed
<1>3. \A k \in Keys : Len(queue[k]) = 0 /\ sent[k] = 0
  BY EmptySeq DEF Init
<1>4. \A f \in Frame : ~Left(f)
  <2>1. \A k \in Keys : Gone(k) = 0
    BY <1>3 DEF Gone
  <2>. QED  BY <1>1, <2>1, Numbers DEF Left
<1>5. \A f : ~Given(f)
  BY <1>2 DEF Given
<1>6. reported = {}
  BY DEF Init
<1>. QED
  BY <1>2, <1>3, <1>4, <1>5, <1>6
  DEF Traffic, LaneIsTail, LeftOnce, GivenOnce, InOrder, NeverSpliced, DropsTear

\* What is given to the clients is read off Handed.
LEMMA SameHanded ==
    ASSUME \A c \in Clients : Handed(c)' = Handed(c)
    PROVE  /\ \A f : Given(f)' <=> Given(f)
           /\ GivenOnce => GivenOnce'
           /\ InOrder => InOrder'
           /\ NeverSpliced /\ reported' = reported => NeverSpliced'
<1>1. \A f : Given(f)' <=> Given(f)
  BY DEF Given
<1>2. GivenOnce => GivenOnce'
  BY DEF GivenOnce
<1>3. InOrder => InOrder'
  BY DEF InOrder
<1>4. NeverSpliced /\ reported' = reported => NeverSpliced'
  BY DEF NeverSpliced
<1>. QED  BY <1>1, <1>2, <1>3, <1>4

LEMMA JoinsTraffic ==
    ASSUME TypeOK, TypeOK', Traffic, NEW k \in Keys, Joins(k)
    PROVE  Traffic'
<1>. DEFINE x == NextOf(k)
<1>1. /\ x.sid = k /\ x.n = sent[k] + 1
      /\ x \in Frame
      /\ queue[k] \in Seq(Frame)
      /\ queue'[k] = Append(queue[k], x)
      /\ \A l \in Keys \ {k} : sent'[l] = sent[l] /\ queue'[l] = queue[l]
      /\ sent'[k] = sent[k] + 1
  BY NextFrame DEF Joins, NextOf, TypeOK
<1>. HIDE DEF x
<1>2. /\ Len(queue'[k]) = Len(queue[k]) + 1
      /\ \A i \in 1..Len(queue[k]) : queue'[k][i] = queue[k][i]
      /\ queue'[k][Len(queue[k]) + 1] = x
  BY <1>1, AppendProperties
<1>3. /\ Gone(k)' = Gone(k)
      /\ \A l \in Keys \ {k} : Gone(l)' = Gone(l)
      /\ Gone(k) + (Len(queue[k]) + 1) = x.n
      /\ Gone(k) \in Int /\ Len(queue[k]) \in Nat
  <2>1. \A l \in Keys : Len(queue[l]) \in Nat /\ sent[l] \in Nat /\ Gone(l) \in Int
    BY Numbers
  <2>2. \A l \in Keys : Gone(l)' = sent'[l] - Len(queue'[l])
    BY DEF Gone
  <2>3. \A l \in Keys \ {k} : Gone(l)' = Gone(l)
    BY <1>1, <2>2 DEF Gone
  <2>4. Gone(k)' = Gone(k) /\ Gone(k) + (Len(queue[k]) + 1) = x.n
    <3>1. Gone(k) = sent[k] - Len(queue[k])
      BY DEF Gone
    <3>2. Gone(k)' = (sent[k] + 1) - (Len(queue[k]) + 1)
      BY <1>1, <1>2, <2>2
    <3>. QED  BY <1>1, <2>1, <3>1, <3>2
  <2>. QED  BY <2>1, <2>3, <2>4
<1>4. LaneIsTail'
  <2>1. ASSUME NEW i \in 1..Len(queue'[k])
        PROVE  queue'[k][i].sid = k /\ queue'[k][i].n = Gone(k) + i
    <3>1. CASE i \in 1..Len(queue[k])
      BY <1>2, <3>1 DEF Traffic, LaneIsTail
    <3>2. CASE i = Len(queue[k]) + 1
      BY <1>1, <1>2, <1>3, <3>2
    <3>. QED  BY <1>2, <1>3, <3>1, <3>2
  <2>2. ASSUME NEW l \in Keys \ {k}, NEW i \in 1..Len(queue'[l])
        PROVE  queue'[l][i].sid = l /\ queue'[l][i].n = Gone(l)' + i
    BY <1>1, <1>3 DEF Traffic, LaneIsTail
  <2>. QED  BY <1>3, <2>1, <2>2 DEF LaneIsTail
<1>5. \A f \in Frame : Left(f)' <=> Left(f)
  BY <1>3, Numbers DEF Left
<1>. QED
  BY <1>4, <1>5, SameHanded DEF Joins, Traffic, LeftOnce, DropsTear

LEMMA TearsTraffic ==
    ASSUME TypeOK, TypeOK', Traffic, NEW k \in Keys, Tears(k)
    PROVE  Traffic'
<1>. DEFINE x == NextOf(k)
            q == Append(queue[k], x)
<1>1. /\ x.sid = k /\ x.n = sent[k] + 1
      /\ x \in Frame
      /\ queue[k] \in Seq(Frame)
      /\ queue'[k] = <<>> /\ Len(queue'[k]) = 0
      /\ \A l \in Keys \ {k} : sent'[l] = sent[l] /\ queue'[l] = queue[l]
      /\ sent'[k] = sent[k] + 1
      /\ reported' = reported \cup ToSet(q)
  BY EmptySeq, NextFrame DEF Tears, NextOf, TypeOK
<1>2. /\ Gone(k)' = x.n /\ sent[k] \in Nat
      /\ \A l \in Keys \ {k} : Gone(l)' = Gone(l)
      /\ Gone(k) < x.n /\ Gone(k) \in Int
  BY <1>1, Numbers DEF Gone
<1>3. \A f : f \in ToSet(q) <=> f = x \/ \E i \in 1..Len(queue[k]) : queue[k][i] = f
  <2>1. /\ DOMAIN q = 1..(Len(queue[k]) + 1)
        /\ \A i \in 1..Len(queue[k]) : q[i] = queue[k][i]
        /\ q[Len(queue[k]) + 1] = x
        /\ Len(queue[k]) \in Nat
    BY <1>1, AppendProperties, LenProperties
  <2>. QED  BY <2>1 DEF ToSet
<1>. HIDE DEF q, x
<1>4. \A f \in Frame : f \in ToSet(q) => f.sid = k /\ ~Left(f)
  <2>1. x.sid = k /\ ~Left(x)
    BY <1>1, <1>2 DEF Left
  <2>2. ASSUME NEW f \in Frame, NEW i \in 1..Len(queue[k]), queue[k][i] = f
        PROVE  f.sid = k /\ ~Left(f)
    BY <2>2, LaneMembers DEF Traffic, LaneIsTail, Queued
  <2>. QED  BY <1>3, <2>1, <2>2
<1>5. \A f \in Frame : Left(f)' <=> Left(f) \/ f \in ToSet(q)
  <2>1. ASSUME NEW f \in Frame, f.sid = k PROVE Left(f)' <=> Left(f) \/ f \in ToSet(q)
    <3>1. f.n \in Nat \ {0} /\ (Left(f)' <=> f.n <= x.n) /\ (Left(f) <=> f.n <= Gone(k))
      BY <1>1, <1>2, <2>1, Numbers DEF Left
    <3>2. CASE f.n = x.n
      BY <1>1, <1>2, <1>3, <2>1, <3>1, <3>2, FrameEqual
    <3>3. CASE f.n # x.n
      <4>1. f \in ToSet(q) <=> Queued(f)
        BY <1>3, <2>1, <3>3 DEF Queued, Traffic, LaneIsTail
      <4>2. f.n <= x.n <=> f.n <= sent[k]
        BY <1>1, <1>2, <3>1, <3>3
      <4>3. Left(f) => f.n <= sent[k]
        BY <1>1, <1>2, <3>1, <3>3
      <4>. QED  BY <2>1, <3>1, <4>1, <4>2, <4>3, LaneMembers DEF Traffic
    <3>. QED  BY <3>2, <3>3
  <2>2. ASSUME NEW f \in Frame, f.sid # k PROVE Left(f)' <=> Left(f)
    BY <1>2, <2>2, Numbers DEF Left
  <2>. QED  BY <1>4, <2>1, <2>2
<1>6. LaneIsTail'
  <2>1. ASSUME NEW l \in Keys \ {k}, NEW i \in 1..Len(queue'[l])
        PROVE  queue'[l][i].sid = l /\ queue'[l][i].n = Gone(l)' + i
    BY <1>1, <1>2 DEF Traffic, LaneIsTail
  <2>. QED  BY <1>1, <2>1 DEF LaneIsTail
<1>7. /\ \A f : Given(f)' <=> Given(f)
      /\ GivenOnce' /\ InOrder'
      /\ \A c \in Clients : Handed(c)' = Handed(c)
  BY SameHanded DEF Traffic, Tears
<1>8. LeftOnce'
  <2>1. \A f \in Frame : f \in ToSet(q) => ~Given(f)
    BY <1>4 DEF Traffic, LeftOnce
  <2>2. reported' \subseteq Frame
    BY DEF TypeOK
  <2>. QED  BY <1>1, <1>5, <1>7, <2>1, <2>2 DEF Traffic, LeftOnce
<1>9. NeverSpliced'
  <2>1. ASSUME NEW c \in Clients, NEW i \in 1..Len(Handed(c)), NEW f \in ToSet(q),
               f.sid = Handed(c)[i].sid, f.n < Handed(c)[i].n
        PROVE  FALSE
    <3>. DEFINE g == Handed(c)[i]
    <3>1. g \in Frame
      BY HandedTyped, ElementOfSeq
    <3>2. f \in Frame
      BY <1>1 DEF TypeOK
    <3>3. Left(g)
      BY <3>1 DEF Given, Traffic, LeftOnce
    <3>4. f.sid = k /\ ~Left(f)
      BY <1>4, <3>2
    <3>. HIDE DEF g
    <3>5. f.sid = g.sid /\ f.n < g.n
      BY <2>1 DEF g
    <3>. QED  BY <1>2, <3>1, <3>2, <3>3, <3>4, <3>5, Numbers DEF Left
  <2>. QED  BY <1>1, <1>7, <2>1 DEF Traffic, NeverSpliced
<1>. QED
  BY <1>6, <1>7, <1>8, <1>9 DEF Tears, Traffic, DropsTear

LEMMA GivesTraffic ==
    ASSUME TypeOK, TypeOK', Traffic, NEW k \in Keys, NEW c \in Clients, Gives(k, c)
    PROVE  Traffic'
<1>. DEFINE x == Head(queue[k])
<1>1. /\ x = queue[k][1] /\ x \in Frame
      /\ Len(queue[k]) \in Nat \ {0}
      /\ Len(queue'[k]) = Len(queue[k]) - 1
      /\ \A i \in 1..Len(queue'[k]) : queue'[k][i] = queue[k][i + 1]
      /\ \A l \in Keys \ {k} : queue'[l] = queue[l]
  <2>1. queue[k] \in Seq(Frame) /\ queue[k] # <<>> /\ queue'[k] = Tail(queue[k])
    BY DEF Gives, TypeOK
  <2>2. \A l \in Keys \ {k} : queue'[l] = queue[l]
    BY DEF Gives, TypeOK
  <2>. QED  BY <2>1, <2>2, HeadTailProperties, EmptySeq
<1>. HIDE DEF x
<1>2. /\ x.sid = k /\ x.n = Gone(k) + 1
      /\ Gone(k) \in Int
  <2>1. 1 \in 1..Len(queue[k]) /\ Gone(k) \in Int
    BY <1>1, Numbers
  <2>2. queue[k][1].sid = k /\ queue[k][1].n = Gone(k) + 1
    BY <2>1 DEF Traffic, LaneIsTail
  <2>. QED  BY <1>1, <2>1, <2>2
<1>3. /\ Gone(k)' = x.n
      /\ \A l \in Keys \ {k} : Gone(l)' = Gone(l)
  <2>1. /\ sent' = sent /\ sent[k] \in Nat
    BY Numbers DEF Gives
  <2>2. Gone(k)' = sent[k] - (Len(queue[k]) - 1) /\ Gone(k) = sent[k] - Len(queue[k])
    BY <1>1, <2>1 DEF Gone
  <2>3. Gone(k)' = x.n
    BY <1>1, <1>2, <2>1, <2>2
  <2>4. \A l \in Keys \ {k} : Gone(l)' = Gone(l)
    BY <1>1, <2>1 DEF Gone
  <2>. QED  BY <2>3, <2>4
<1>4. LaneIsTail'
  <2>1. ASSUME NEW i \in 1..Len(queue'[k])
        PROVE  queue'[k][i].sid = k /\ queue'[k][i].n = x.n + i
    <3>1. i + 1 \in 1..Len(queue[k]) /\ queue'[k][i] = queue[k][i + 1]
      BY <1>1
    <3>2. queue[k][i + 1].sid = k /\ queue[k][i + 1].n = Gone(k) + (i + 1)
      BY <3>1 DEF Traffic, LaneIsTail
    <3>. QED  BY <1>2, <3>1, <3>2
  <2>2. ASSUME NEW l \in Keys \ {k}, NEW i \in 1..Len(queue'[l])
        PROVE  queue'[l][i].sid = l /\ queue'[l][i].n = Gone(l)' + i
    BY <1>1, <1>3 DEF Traffic, LaneIsTail
  <2>. QED  BY <1>3, <2>1, <2>2 DEF LaneIsTail
<1>5. /\ ~Left(x)
      /\ \A f \in Frame : Left(f)' <=> Left(f) \/ f = x
  <2>1. ~Left(x)
    BY <1>2 DEF Left
  <2>2. ASSUME NEW f \in Frame, f.sid = k PROVE Left(f)' <=> Left(f) \/ f = x
    <3>1. f.n \in Nat /\ (Left(f)' <=> f.n <= x.n) /\ (Left(f) <=> f.n <= Gone(k))
      BY <1>3, <2>2, Numbers DEF Left
    <3>2. f.n = x.n => f = x
      BY <1>1, <1>2, <2>2, FrameEqual
    <3>. QED  BY <1>2, <3>1, <3>2
  <2>3. ASSUME NEW f \in Frame, f.sid # k PROVE (Left(f)' <=> Left(f)) /\ f # x
    BY <1>2, <1>3, <2>3, Numbers DEF Left
  <2>. QED  BY <2>1, <2>2, <2>3
<1>6. /\ Len(Handed(c)) \in Nat
      /\ Len(Handed(c)') = Len(Handed(c)) + 1
      /\ \A i \in 1..Len(Handed(c)) : Handed(c)'[i] = Handed(c)[i]
      /\ Handed(c)'[Len(Handed(c)) + 1] = x
      /\ \A d \in Clients \ {c} : Handed(d)' = Handed(d)
  <2>1. Handed(c)' = Append(Handed(c), x) /\ \A d \in Clients \ {c} : Handed(d)' = Handed(d)
    BY DEF Gives, x
  <2>2. Handed(c) \in Seq(Frame)
    BY HandedTyped
  <2>. QED  BY <1>1, <2>1, <2>2, AppendProperties, LenProperties
<1>7. \A d \in Clients : \A i \in 1..Len(Handed(d)') :
          \/ d = c /\ i = Len(Handed(c)) + 1 /\ Handed(d)'[i] = x
          \/ i \in 1..Len(Handed(d)) /\ Handed(d)'[i] = Handed(d)[i]
  BY <1>6
<1>8. \A d \in Clients : \A i \in 1..Len(Handed(d)) :
          /\ Handed(d)[i] \in Frame /\ Left(Handed(d)[i]) /\ Handed(d)[i] # x
          /\ i \in 1..Len(Handed(d)') /\ Handed(d)'[i] = Handed(d)[i]
  <2>1. ASSUME NEW d \in Clients, NEW i \in 1..Len(Handed(d))
        PROVE  Handed(d)[i] \in Frame /\ Left(Handed(d)[i])
    <3>1. Handed(d)[i] \in Frame
      BY HandedTyped, ElementOfSeq
    <3>. QED  BY <3>1 DEF Given, Traffic, LeftOnce
  <2>. QED  BY <1>5, <1>6, <2>1
<1>9. \A f \in Frame : Given(f)' <=> Given(f) \/ f = x
  <2>1. ASSUME NEW f \in Frame, Given(f)' PROVE Given(f) \/ f = x
    BY <1>7, <2>1 DEF Given
  <2>2. ASSUME NEW f \in Frame, Given(f) PROVE Given(f)'
    BY <1>8, <2>2 DEF Given
  <2>3. ASSUME NEW f \in Frame, f = x PROVE Given(f)'
    <3>1. Len(Handed(c)) + 1 \in 1..Len(Handed(c)')
      BY <1>6
    <3>. QED  BY <1>6, <2>3, <3>1 DEF Given
  <2>. QED  BY <2>1, <2>2, <2>3
<1>10. reported' = {} /\ torn' = torn
  BY DEF Gives, Traffic, DropsTear
<1>11. LeftOnce'
  <2>1. \A f \in Frame : Left(f)' <=> Given(f)'
    BY <1>5, <1>9, <1>10 DEF Gives, Traffic, LeftOnce
  <2>. QED  BY <1>10, <2>1 DEF LeftOnce
<1>12. GivenOnce'
  <2>1. ASSUME NEW d \in Clients, NEW e \in Clients, NEW i \in 1..Len(Handed(d)'),
               NEW j \in 1..Len(Handed(e)'), Handed(d)'[i] = Handed(e)'[j]
        PROVE  d = e /\ i = j
    <3>1. CASE i \in 1..Len(Handed(d)) /\ j \in 1..Len(Handed(e))
      <4>1. Handed(d)[i] = Handed(e)[j]
        BY <1>8, <2>1, <3>1
      <4>. QED  BY <3>1, <4>1 DEF Traffic, GivenOnce
    <3>2. CASE i \notin 1..Len(Handed(d))
      <4>1. d = c /\ i = Len(Handed(c)) + 1 /\ Handed(d)'[i] = x
        BY <1>7, <3>2
      <4>. QED  BY <1>7, <1>8, <2>1, <4>1
    <3>3. CASE j \notin 1..Len(Handed(e))
      <4>1. e = c /\ j = Len(Handed(c)) + 1 /\ Handed(e)'[j] = x
        BY <1>7, <3>3
      <4>. QED  BY <1>7, <1>8, <2>1, <4>1
    <3>. QED  BY <3>1, <3>2, <3>3
  <2>. QED  BY <2>1 DEF GivenOnce
<1>13. InOrder'
  <2>1. ASSUME NEW d \in Clients, NEW i \in 1..Len(Handed(d)'), NEW j \in 1..Len(Handed(d)'),
               i < j, Handed(d)'[i].sid = Handed(d)'[j].sid
        PROVE  Handed(d)'[i].n < Handed(d)'[j].n
    <3>1. CASE i \in 1..Len(Handed(d)) /\ j \in 1..Len(Handed(d))
      BY <1>8, <2>1, <3>1 DEF Traffic, InOrder
    <3>2. CASE d = c /\ j = Len(Handed(c)) + 1
      <4>1. i \in 1..Len(Handed(c))
        BY <1>6, <2>1, <3>2
      <4>2. Handed(d)'[j] = x /\ Handed(d)'[i] = Handed(c)[i]
        BY <1>6, <3>2, <4>1
      <4>. DEFINE g == Handed(c)[i]
      <4>3. g \in Frame /\ Left(g)
        BY <1>8, <4>1
      <4>4. g.sid = k
        BY <1>2, <2>1, <4>2
      <4>. HIDE DEF g
      <4>5. g.n \in Nat /\ g.n <= Gone(k)
        BY <4>3, <4>4, Numbers DEF Left
      <4>6. g.n < x.n
        BY <1>2, <4>5
      <4>. QED  BY <4>2, <4>6 DEF g
    <3>. QED  BY <1>6, <1>7, <2>1, <3>1, <3>2
  <2>. QED  BY <2>1 DEF InOrder
<1>14. NeverSpliced'
  BY <1>10 DEF NeverSpliced
<1>. QED
  BY <1>4, <1>10, <1>11, <1>12, <1>13, <1>14 DEF Traffic, DropsTear

LEMMA IInvStep == IInv /\ [Next]_vars => IInv'
<1>. SUFFICES ASSUME IInv, [Next]_vars PROVE IInv'
  OBVIOUS
<1>1. TypeOK /\ Control /\ Traffic /\ TypeOK' /\ Control'
  BY StepTyped DEF IInv
<1>2. CASE Same
  <2>1. \A k \in Keys : Gone(k)' = Gone(k)
    BY <1>2 DEF Same, Gone
  <2>2. \A f \in Frame : Left(f)' <=> Left(f)
    BY <1>1, <2>1, Numbers DEF Left
  <2>3. LaneIsTail'
    BY <1>1, <1>2, <2>1 DEF Same, Traffic, LaneIsTail
  <2>. QED
    BY <1>1, <1>2, <2>2, <2>3, SameHanded DEF Same, IInv, Traffic, LeftOnce, DropsTear
<1>3. ASSUME NEW k \in Keys, Joins(k) \/ Tears(k) PROVE IInv'
  BY <1>1, <1>3, JoinsTraffic, TearsTraffic DEF IInv
<1>4. ASSUME NEW k \in Keys, NEW c \in Clients, Gives(k, c) PROVE IInv'
  BY <1>1, <1>4, GivesTraffic DEF IInv
<1>. QED  BY <1>1, <1>2, <1>3, <1>4, StepKinds

LEMMA IInvImpliesIntact == IInv => FramesIntact
<1>. SUFFICES ASSUME IInv PROVE OncePerFrame
  BY DEF IInv, Control, Registered, Traffic, FramesIntact
<1>. USE DEF IInv, Traffic
<1>1. \A f \in Frame : Queued(f) <=> ~Left(f) /\ f.n <= sent[f.sid]
  BY LaneMembers
<1>2. \A f \in Frame : Left(f) => f.n <= sent[f.sid]
  <2>1. ASSUME NEW f \in Frame PROVE Left(f) => f.n <= sent[f.sid]
    <3>1. /\ f.sid \in Keys /\ f.n \in Nat
          /\ Len(queue[f.sid]) \in Nat /\ sent[f.sid] \in Nat
      BY Numbers
    <3>. QED  BY <3>1 DEF Left, Gone
  <2>. QED  BY <2>1
<1>3. \A k, l \in Keys : \A i \in 1..Len(queue[k]), j \in 1..Len(queue[l]) :
          queue[k][i] = queue[l][j] => k = l /\ i = j
  <2>1. ASSUME NEW k \in Keys, NEW l \in Keys, NEW i \in 1..Len(queue[k]), NEW j \in 1..Len(queue[l]),
               queue[k][i] = queue[l][j]
        PROVE  k = l /\ i = j
    <3>1. /\ queue[k][i].sid = k /\ queue[k][i].n = Gone(k) + i
          /\ queue[l][j].sid = l /\ queue[l][j].n = Gone(l) + j
      BY DEF LaneIsTail
    <3>2. Gone(k) \in Int
      BY Numbers
    <3>3. k = l /\ Gone(k) + i = Gone(k) + j
      BY <2>1, <3>1
    <3>. QED  BY <3>2, <3>3
  <2>. QED  BY <2>1
<1>. QED  BY <1>1, <1>2, <1>3 DEF OncePerFrame, LeftOnce, GivenOnce

\* Every frame the agent has sent is in one lane, or given to one client, or was
\* reported as dropped; each client is given the frames of a lane in order, and
\* none that follows one that was dropped; and the reply to a prompt joins the
\* lane of its session unless its id was that of another open prompt - for any
\* number of sessions, prompts and forwarders that overlap (relay.rs:533-551,
\* 606-616, 680-687, 727-761).
THEOREM FramesStayIntact == Spec => []FramesIntact
<1>1. Init => IInv
  BY InitTyped, TrafficInit DEF IInv
<1>. QED  BY <1>1, IInvStep, IInvImpliesIntact, PTL DEF Spec

(***************************************************************************)
(* Fair drains                                                             *)
(***************************************************************************)

Share(c, s) == Cardinality({i \in 1..Len(batch[c]) : batch[c][i].sid = s})

Eligible(s) == queue[s] # <<>> /\ ~pressured[s]

\* The sessions behind the first lapLeft in drain_order had their turn in this
\* lap.
Visited(s) == \E i \in 1..Len(order) : lapLeft < i /\ order[i] = s

\* After n laps, a session has n frames in the batch at most, and one more if it
\* had its turn in this lap; one that is still eligible has that many.
AfterLaps(c, n) ==
    \A s \in Keys :
        /\ Share(c, s) <= IF Visited(s) THEN n + 1 ELSE n
        /\ Eligible(s) => Share(c, s) >= IF Visited(s) THEN n + 1 ELSE n

\* What a drain has to look at is in drain_order.
Ordered == \A k \in Keys : queue[k] # <<>> => \E i \in 1..Len(order) : order[i] = k

DrainIsFair == \A c \in Clients : mutex = c => Ordered /\ \E n \in Nat : AfterLaps(c, n)

\* A drain begins with an empty batch.
BatchIsFresh == \A c \in Clients : forwarder[c] \in {"off", "top", "lock"} => batch[c] = <<>>

FInv == IInv /\ DrainIsFair /\ BatchIsFresh

LEMMA ShareOfEmpty ==
    ASSUME NEW c \in Clients, batch[c] = <<>>, NEW s PROVE Share(c, s) = 0
<1>1. {i \in 1..Len(batch[c]) : batch[c][i].sid = s} = {}
  BY EmptySeq
<1>. QED  BY <1>1, FS_EmptySet DEF Share

LEMMA ShareTyped ==
    ASSUME TypeOK, NEW c \in Clients, NEW s PROVE Share(c, s) \in Nat
<1>1. Len(batch[c]) \in Nat
  BY LenProperties DEF TypeOK
<1>2. IsFiniteSet(1..Len(batch[c]))
  BY <1>1, FS_Interval
<1>3. IsFiniteSet({i \in 1..Len(batch[c]) : batch[c][i].sid = s})
  BY <1>2, FS_Subset
<1>. QED  BY <1>3, FS_CardinalityType DEF Share

LEMMA ShareOfAppend ==
    ASSUME TypeOK, NEW c \in Clients, NEW x \in Frame, batch'[c] = Append(batch[c], x), NEW s
    PROVE  Share(c, s)' = IF x.sid = s THEN Share(c, s) + 1 ELSE Share(c, s)
<1>. DEFINE n == Len(batch[c])
            T == {i \in 1..n : batch[c][i].sid = s}
            U == {i \in 1..Len(batch'[c]) : batch'[c][i].sid = s}
<1>1. /\ n \in Nat
      /\ Len(batch'[c]) = n + 1
      /\ \A i \in 1..n : batch'[c][i] = batch[c][i]
      /\ batch'[c][n + 1] = x
  <2>1. batch[c] \in Seq(Frame)
    BY DEF TypeOK
  <2>. QED  BY <2>1, AppendProperties, LenProperties
<1>2. IsFiniteSet(T) /\ n + 1 \notin T
  <2>. HIDE DEF n
  <2>0. 1 \in Int /\ n \in Int
    BY <1>1
  <2>1. IsFiniteSet(1..n) /\ T \in SUBSET (1..n)
    BY <2>0, FS_Interval
  <2>2. IsFiniteSet(T)
    BY <2>1, FS_Subset
  <2>3. n + 1 \notin T
    BY <1>1
  <2>. QED  BY <2>2, <2>3
<1>3. U = IF x.sid = s THEN T \cup {n + 1} ELSE T
  BY <1>1
<1>4. Cardinality(U) = IF x.sid = s THEN Cardinality(T) + 1 ELSE Cardinality(T)
  BY <1>2, <1>3, FS_AddElement
<1>. QED  BY <1>4 DEF Share

\* The steps that neither pop nor move on in drain_order.
LEMMA FairUnchanged ==
    ASSUME DrainIsFair, UNCHANGED <<queue, pressured, order, lapLeft>>,
           \A c \in Clients : mutex' = c => mutex = c /\ batch'[c] = batch[c]
    PROVE  DrainIsFair'
<1>. SUFFICES ASSUME NEW c \in Clients, mutex' = c
              PROVE  Ordered' /\ \E n \in Nat : AfterLaps(c, n)'
  BY DEF DrainIsFair
<1>1. mutex = c /\ batch'[c] = batch[c]
  OBVIOUS
<1>2. PICK n \in Nat : AfterLaps(c, n)
  BY <1>1 DEF DrainIsFair
<1>3. Ordered /\ Ordered'
  BY <1>1 DEF DrainIsFair, Ordered
<1>4. \A s : /\ Share(c, s)' = Share(c, s)
             /\ Visited(s)' <=> Visited(s)
             /\ Eligible(s)' <=> Eligible(s)
  BY <1>1 DEF Share, Visited, Eligible
<1>5. AfterLaps(c, n)'
  BY <1>2, <1>4 DEF AfterLaps
<1>. QED  BY <1>3, <1>5

LEMMA StartDrainFair ==
    ASSUME IInv, BatchIsFresh, TypeOK', NEW c \in Clients, StartDrain(c)
    PROVE  DrainIsFair'
<1>1. PICK new \in SetToSeqs(MissingKeys) : order' = order \o new
  BY DEF StartDrain
<1>2. /\ MissingKeys \in SUBSET Keys
      /\ IsFiniteSet(MissingKeys)
      /\ MissingKeys \cap ToSet(order) = {}
  <2>1. MissingKeys \in SUBSET Keys /\ MissingKeys \cap ToSet(order) = {}
    BY LenProperties, ElementOfSeq DEF MissingKeys, Known, ToSet, TypeOK, IInv
  <2>. QED  BY <2>1, KeysFinite, FS_Subset
<1>3. ToSet(order') = ToSet(order) \cup ToSet(new)
  <2>1. order \in Seq(Keys) /\ IsInjective(order)
    BY DEF TypeOK, IInv
  <2>2. ToSet(order \o new) = ToSet(order) \cup ToSet(new)
    BY <1>2, <2>1, ProlongedInjective
  <2>. QED  BY <1>1, <2>2
<1>4. ToSet(new) = MissingKeys
  <2>. DEFINE n == Cardinality(MissingKeys)
  <2>0. n \in Nat
    BY <1>2, FS_CardinalityType
  <2>. HIDE DEF n
  <2>1. n \in Nat /\ IsFiniteSet(1..n) /\ Cardinality(1..n) = n
    BY <2>0, FS_Interval
  <2>2. new \in [1..n -> MissingKeys] /\ \A i, j \in 1..n : i # j => new[i] # new[j]
    BY DEF SetToSeqs, n
  <2>3. new \in Injection(1..n, MissingKeys)
    BY <2>2 DEF Injection, IsInjective
  <2>4. new \in Surjection(1..n, MissingKeys)
    BY <1>2, <2>1, <2>3, FS_Injection DEF n
  <2>. QED  BY <2>2, <2>4 DEF Surjection, ToSet
<1>5. Ordered'
  <2>1. \A k \in Keys : queue'[k] # <<>> => k \in ToSet(order')
    BY <1>3, <1>4 DEF StartDrain, MissingKeys, Known
  <2>2. DOMAIN order' = 1..Len(order')
    BY LenProperties DEF TypeOK
  <2>. QED  BY <2>1, <2>2 DEF Ordered, ToSet
<1>6. AfterLaps(c, 0)'
  <2>1. batch'[c] = <<>>
    BY DEF StartDrain, BatchIsFresh
  <2>2. \A s : Share(c, s)' = 0
    <3>1. ASSUME NEW s PROVE {i \in 1..Len(batch'[c]) : batch'[c][i].sid = s} = {}
      BY <2>1, EmptySeq
    <3>. QED  BY <3>1, FS_EmptySet DEF Share
  <2>3. \A s : ~Visited(s)'
    BY LenProperties DEF StartDrain, Visited, TypeOK
  <2>. QED  BY <2>2, <2>3 DEF AfterLaps
<1>7. mutex' = c
  BY DEF StartDrain
<1>. QED  BY <1>5, <1>6, <1>7 DEF DrainIsFair

\* A visit moves the session in front behind all others: now it had its turn.
LEMMA VisitOrder ==
    ASSUME TypeOK, Control, NEW c \in Clients, Visit(c)
    PROVE  /\ ~Visited(Head(order))
           /\ \A s : Visited(s)' <=> Visited(s) \/ s = Head(order)
           /\ Ordered => \A k \in Keys : queue[k] # <<>> => \E i \in 1..Len(order') : order'[i] = k
<1>1. /\ order # <<>> /\ order \in Seq(Keys) /\ IsInjective(order)
      /\ order' = Append(Tail(order), Head(order))
  BY VisitTyped DEF Visit, Requeued, TypeOK
<1>2. /\ Head(order) \in Keys
      /\ Tail(order) \in Seq(Keys)
      /\ Len(Tail(order)) = Len(order) - 1
      /\ \A i \in 1..Len(Tail(order)) : Tail(order)[i] = order[i + 1]
      /\ Head(order) = order[1]
      /\ Len(order) \in Nat /\ Len(order) > 0 /\ DOMAIN order = 1..Len(order)
  BY <1>1, HeadTailProperties, EmptySeq, LenProperties
<1>3. /\ Len(order') = Len(order)
      /\ \A i \in 1..Len(order) - 1 : order'[i] = order[i + 1]
      /\ order'[Len(order)] = order[1]
  <2>1. /\ Len(order') = Len(Tail(order)) + 1
        /\ \A i \in 1..Len(Tail(order)) : order'[i] = Tail(order)[i]
        /\ order'[Len(Tail(order)) + 1] = Head(order)
    BY <1>1, <1>2, AppendProperties
  <2>. QED  BY <1>2, <2>1
<1>4. lapLeft \in Nat /\ lapLeft > 0 /\ lapLeft <= Len(order) /\ lapLeft' = lapLeft - 1
  BY DEF Visit, TypeOK, Control, Section
<1>5. \A i, j \in 1..Len(order) : order[i] = order[j] => i = j
  BY <1>1, <1>2 DEF IsInjective
<1>6. Len(order) \in Nat \ {0} /\ Head(order) = order[1]
  BY <1>2
<1>7. ~Visited(Head(order))
  BY <1>4, <1>5, <1>6 DEF Visited
<1>8. ASSUME NEW s, Visited(s)' PROVE Visited(s) \/ s = order[1]
  <2>1. PICK i \in 1..Len(order) : lapLeft - 1 < i /\ order'[i] = s
    BY <1>3, <1>4, <1>8 DEF Visited
  <2>2. CASE i = Len(order)
    BY <1>3, <2>1, <2>2
  <2>3. CASE i # Len(order)
    <3>1. i \in 1..Len(order) - 1 /\ i + 1 \in 1..Len(order) /\ lapLeft < i + 1
      BY <1>4, <1>6, <2>1, <2>3
    <3>2. order[i + 1] = s
      BY <1>3, <2>1, <3>1
    <3>. QED  BY <3>1, <3>2 DEF Visited
  <2>. QED  BY <2>2, <2>3
<1>9. ASSUME NEW s, Visited(s) PROVE Visited(s)'
  <2>1. PICK i \in 1..Len(order) : lapLeft < i /\ order[i] = s
    BY <1>9 DEF Visited
  <2>2. i - 1 \in 1..Len(order) - 1 /\ lapLeft - 1 < i - 1 /\ (i - 1) + 1 = i
    BY <1>4, <1>6, <2>1
  <2>3. order'[i - 1] = s
    BY <1>3, <2>1, <2>2
  <2>4. i - 1 \in 1..Len(order') /\ lapLeft' < i - 1
    BY <1>3, <1>4, <1>6, <2>2
  <2>. QED  BY <2>3, <2>4 DEF Visited
<1>10. ASSUME NEW s, s = order[1] PROVE Visited(s)'
  <2>1. Len(order) \in 1..Len(order') /\ lapLeft' < Len(order) /\ order'[Len(order)] = s
    BY <1>3, <1>4, <1>6, <1>10
  <2>. QED  BY <2>1 DEF Visited
<1>11. ASSUME NEW k \in Keys, NEW i \in 1..Len(order), order[i] = k
       PROVE  \E j \in 1..Len(order') : order'[j] = k
  <2>1. CASE i = 1
    BY <1>3, <1>6, <1>11, <2>1
  <2>2. CASE i # 1
    <3>1. i - 1 \in 1..Len(order) - 1 /\ (i - 1) + 1 = i /\ i - 1 \in 1..Len(order)
      BY <1>6, <2>2
    <3>2. order'[i - 1] = order[i]
      BY <1>3, <3>1
    <3>. QED  BY <1>3, <1>11, <3>1, <3>2
  <2>. QED  BY <2>1, <2>2
<1>12. Ordered => \A k \in Keys : queue[k] # <<>> => \E i \in 1..Len(order') : order'[i] = k
  BY <1>11 DEF Ordered
<1>13. \A s : Visited(s)' <=> Visited(s) \/ s = order[1]
  BY <1>8, <1>9, <1>10
<1>. QED  BY <1>6, <1>7, <1>12, <1>13

LEMMA VisitFair ==
    ASSUME IInv, DrainIsFair, NEW c \in Clients, Visit(c)
    PROVE  DrainIsFair'
<1>0. PICK s \in Keys : s = Head(order)
  BY VisitTyped DEF IInv
<1>1. /\ TypeOK /\ Control /\ LaneIsTail
      /\ c # None /\ mutex = c /\ mutex' = c /\ pressured' = pressured
  BY DEF IInv, Traffic, Visit, Clients
<1>2. PICK n \in Nat : AfterLaps(c, n)
  BY <1>1 DEF DrainIsFair
<1>3. /\ ~Visited(s)
      /\ \A t : Visited(t)' <=> Visited(t) \/ t = s
      /\ \A k \in Keys : queue[k] # <<>> => \E i \in 1..Len(order') : order'[i] = k
  BY <1>0, <1>1, VisitOrder DEF DrainIsFair
<1>4. \A t \in Keys : Share(c, t) \in Nat
  BY <1>1, ShareTyped
<1>5. CASE /\ ~pressured[s] /\ queue[s] # <<>>
           /\ batch' = [batch EXCEPT ![c] = Append(@, Head(queue[s]))]
           /\ queue' = [queue EXCEPT ![s] = Popped(@)]
  <2>. DEFINE x == Head(queue[s])
  <2>1. x \in Frame /\ x.sid = s
    <3>1. queue[s] \in Seq(Frame) /\ Len(queue[s]) \in Nat \ {0}
      BY <1>1, <1>5, EmptySeq DEF TypeOK
    <3>2. x = queue[s][1] /\ x \in Frame
      BY <1>5, <3>1, HeadTailProperties
    <3>. QED  BY <1>1, <3>1, <3>2 DEF LaneIsTail
  <2>2. batch'[c] = Append(batch[c], x)
    BY <1>1, <1>5 DEF TypeOK
  <2>. HIDE DEF x
  <2>3. \A t : Share(c, t)' = IF t = s THEN Share(c, t) + 1 ELSE Share(c, t)
    BY <1>1, <2>1, <2>2, ShareOfAppend
  <2>4. \A t \in Keys : queue'[t] # <<>> => queue[t] # <<>>
    BY <1>1, <1>5 DEF TypeOK
  <2>5. Ordered'
    BY <1>3, <2>4 DEF Ordered
  <2>6. \A t \in Keys : Eligible(t)' => Eligible(t)
    BY <1>1, <2>4 DEF Eligible
  <2>7. AfterLaps(c, n)'
    <3>1. ASSUME NEW t \in Keys, t # s
          PROVE  /\ Share(c, t)' <= IF Visited(t)' THEN n + 1 ELSE n
                 /\ Eligible(t)' => Share(c, t)' >= IF Visited(t)' THEN n + 1 ELSE n
      BY <1>2, <1>3, <2>3, <2>6, <3>1 DEF AfterLaps
    <3>2. /\ Share(c, s)' <= IF Visited(s)' THEN n + 1 ELSE n
          /\ Eligible(s)' => Share(c, s)' >= IF Visited(s)' THEN n + 1 ELSE n
      <4>1. Share(c, s) = n
        BY <1>1, <1>2, <1>3, <1>4, <1>5 DEF AfterLaps, Eligible
      <4>2. Share(c, s)' = n + 1 /\ Visited(s)'
        BY <1>3, <2>3, <4>1
      <4>. QED  BY <4>2
    <3>. QED  BY <3>1, <3>2 DEF AfterLaps
  <2>. QED  BY <1>1, <2>5, <2>7 DEF DrainIsFair
<1>6. CASE ~Eligible(s) /\ UNCHANGED <<batch, queue>>
  <2>1. Ordered'
    BY <1>3, <1>6 DEF Ordered
  <2>2. AfterLaps(c, n)'
    <3>1. \A t : Share(c, t)' = Share(c, t) /\ (Eligible(t)' <=> Eligible(t))
      BY <1>1, <1>6 DEF Share, Eligible
    <3>2. ASSUME NEW t \in Keys
          PROVE  /\ Share(c, t)' <= IF Visited(t)' THEN n + 1 ELSE n
                 /\ Eligible(t)' => Share(c, t)' >= IF Visited(t)' THEN n + 1 ELSE n
      BY <1>2, <1>3, <1>4, <1>6, <3>1 DEF AfterLaps
    <3>. QED  BY <3>2 DEF AfterLaps
  <2>. QED  BY <1>1, <2>1, <2>2 DEF DrainIsFair
<1>. QED  BY <1>0, <1>1, <1>5, <1>6 DEF Visit, Eligible

LEMMA NextLapFair ==
    ASSUME IInv, DrainIsFair, NEW c \in Clients, NextLap(c)
    PROVE  DrainIsFair'
<1>1. /\ TypeOK /\ mutex = c /\ mutex' = c
      /\ UNCHANGED <<queue, pressured, order, batch>>
      /\ lapLeft = 0 /\ lapLeft' = Len(order)
      /\ Len(order) \in Nat
  BY LenProperties DEF IInv, NextLap, stateVars, taskVars, TypeOK
<1>2. Ordered
  BY <1>1 DEF DrainIsFair
<1>3. PICK n \in Nat : AfterLaps(c, n)
  BY <1>1 DEF DrainIsFair
<1>4. \A t : Share(c, t)' = Share(c, t) /\ (Eligible(t)' <=> Eligible(t))
  BY <1>1 DEF Share, Eligible
<1>5. \A t : ~Visited(t)'
  BY <1>1 DEF Visited
<1>6. ASSUME NEW t \in Keys
      PROVE  Share(c, t) <= n + 1 /\ (Eligible(t) => Share(c, t) >= n + 1)
  <2>1. Eligible(t) => Visited(t)
    BY <1>1, <1>2 DEF Ordered, Eligible, Visited
  <2>2. Share(c, t) \in Nat
    BY <1>1, ShareTyped
  <2>. QED  BY <1>3, <2>1, <2>2 DEF AfterLaps
<1>7. n + 1 \in Nat /\ AfterLaps(c, n + 1)'
  BY <1>4, <1>5, <1>6 DEF AfterLaps
<1>8. Ordered'
  BY <1>1, <1>2 DEF Ordered
<1>. QED  BY <1>1, <1>7, <1>8 DEF DrainIsFair

LEMMA ForwardFair ==
    ASSUME FInv, TypeOK', NEW c \in Clients, Forward(c)
    PROVE  DrainIsFair' /\ BatchIsFresh'
<1>. USE DEF FInv, IInv, Control, Section
<1>1. CASE Top(c) \/ LeaveTorn(c) \/ WriteFails(c)
  <2>1. DrainIsFair'
    BY <1>1, FairUnchanged DEF Top, LeaveTorn, WriteFails, stateVars, drainVars
  <2>2. BatchIsFresh'
    BY <1>1 DEF Top, LeaveTorn, WriteFails, BatchIsFresh, TypeOK
  <2>. QED  BY <2>1, <2>2
<1>2. CASE StartDrain(c)
  <2>1. BatchIsFresh'
    BY <1>2 DEF StartDrain, BatchIsFresh, TypeOK
  <2>. QED  BY <1>2, <2>1, StartDrainFair
<1>3. CASE Visit(c)
  <2>1. forwarder'[c] = "drain" /\ \A d \in Clients \ {c} : batch'[d] = batch[d]
    BY <1>3 DEF Visit, TypeOK
  <2>2. BatchIsFresh'
    BY <1>3, <2>1 DEF Visit, BatchIsFresh
  <2>. QED  BY <1>3, <2>2, VisitFair
<1>4. CASE NextLap(c)
  <2>1. BatchIsFresh'
    BY <1>4 DEF NextLap, BatchIsFresh, taskVars
  <2>. QED  BY <1>4, <2>1, NextLapFair
<1>5. CASE EndDrain(c)
  <2>1. \A d \in Clients : mutex' # d
    BY <1>5 DEF EndDrain, Clients
  <2>2. BatchIsFresh'
    BY <1>5 DEF EndDrain, AfterDrain, BatchIsFresh, TypeOK
  <2>. QED  BY <2>1, <2>2 DEF DrainIsFair
<1>6. CASE Write(c)
  <2>1. \A d \in Clients : mutex' = d => mutex = d /\ batch'[d] = batch[d]
    BY <1>6 DEF Write, drainVars, TypeOK
  <2>2. DrainIsFair'
    BY <1>6, <2>1, FairUnchanged DEF Write, stateVars, drainVars
  <2>3. BatchIsFresh'
    <3>1. batch[c] \in Seq(Frame) /\ batch[c] # <<>>
      BY <1>6, WriteTyped DEF TypeOK
    <3>2. Len(batch[c]) = 1 => Tail(batch[c]) = <<>>
      <4>1. Tail(batch[c]) \in Seq(Frame) /\ Len(Tail(batch[c])) = Len(batch[c]) - 1
        BY <3>1, HeadTailProperties
      <4>2. Tail(batch[c]) # <<>> => Len(Tail(batch[c])) # 0
        BY <4>1, EmptySeq
      <4>. QED  BY <4>1, <4>2
    <3>. QED  BY <1>6, <3>2 DEF Write, BatchIsFresh, TypeOK
  <2>. QED  BY <2>2, <2>3
<1>. QED  BY <1>1, <1>2, <1>3, <1>4, <1>5, <1>6 DEF Forward

LEMMA FInvStep == FInv /\ [Next]_vars => FInv'
<1>. SUFFICES ASSUME FInv, [Next]_vars PROVE FInv'
  OBVIOUS
<1>1. IInv' /\ TypeOK'
  BY IInvStep DEF FInv, IInv
<1>2. ASSUME \A c \in Clients : mutex' # c, UNCHANGED <<forwarder, batch>>
      PROVE  DrainIsFair' /\ BatchIsFresh'
  BY <1>2 DEF FInv, DrainIsFair, BatchIsFresh
<1>3. ASSUME UNCHANGED <<queue, pressured, order, lapLeft, mutex, batch>>,
             \A c \in Clients : forwarder'[c] \in {"off", "top", "lock"} =>
                                    forwarder[c] \in {"off", "top", "lock"}
      PROVE  DrainIsFair' /\ BatchIsFresh'
  BY <1>3, FairUnchanged DEF FInv, BatchIsFresh
<1>4. CASE \/ \E s \in Keys : DemuxFrame(s)
           \/ \E p \in Prompts, kind \in ReplyKinds : DemuxReply(p, kind)
  BY <1>1, <1>2, <1>4 DEF DemuxFrame, DemuxReply, Route, drainVars, taskVars, FInv, Clients
<1>5. CASE \/ \E p \in Prompts : Prompt(p)
           \/ AgentDies \/ Detach
           \/ \E c \in Clients : HangUp(c)
           \/ UNCHANGED vars
  BY <1>1, <1>3, <1>5 DEF Prompt, AgentDies, Detach, HangUp, vars, stateVars, drainVars, taskVars,
                          FInv
<1>6. ASSUME NEW c \in Clients, Attach(c) PROVE FInv'
  BY <1>1, <1>3, <1>6 DEF Attach, stateVars, drainVars, FInv, IInv, TypeOK
<1>7. ASSUME NEW c \in Clients, Forward(c) PROVE FInv'
  BY <1>1, <1>7, ForwardFair DEF FInv
<1>. QED  BY <1>4, <1>5, <1>6, <1>7 DEF Next

LEMMA FInvImpliesFair == FInv => FairShare
<1>. SUFFICES ASSUME FInv, NEW c \in Clients, mutex = c, NEW s \in Keys, NEW t \in Keys,
                     queue[t] # <<>>, ~pressured[t]
              PROVE  Share(c, s) <= Share(c, t) + 1
  BY DEF FairShare, Share
<1>1. PICK n \in Nat : AfterLaps(c, n)
  BY DEF FInv, DrainIsFair
<1>2. Share(c, s) \in Nat /\ Share(c, t) \in Nat
  BY ShareTyped DEF FInv, IInv
<1>3. Share(c, s) <= n + 1
  BY <1>1, <1>2 DEF AfterLaps
<1>4. Share(c, t) >= n
  BY <1>1, <1>2 DEF AfterLaps, Eligible
<1>. QED  BY <1>2, <1>3, <1>4

\* In one batch no session gets more than one frame ahead of another that has
\* frames left and is not pressured, whatever the batch size, the number of
\* sessions and the order in which they became known (relay.rs:770-811).
THEOREM DrainsAreFair == Spec => []FairShare
<1>1. Init => FInv
  <2>1. Init => IInv
    BY InitTyped, TrafficInit DEF IInv
  <2>2. Init => DrainIsFair /\ BatchIsFresh
    BY DEF Init, DrainIsFair, BatchIsFresh, Clients
  <2>. QED  BY <2>1, <2>2 DEF FInv
<1>. QED  BY <1>1, FInvStep, FInvImpliesFair, PTL DEF Spec
============================================================================

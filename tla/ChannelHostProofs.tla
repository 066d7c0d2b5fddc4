-------------------------- MODULE ChannelHostProofs --------------------------
(***************************************************************************)
(* What ChannelHost promises of its connections and of the confirmation,   *)
(* for any servers and prompts: that the types hold; that there is one     *)
(* connection, and nothing waits while there is one; and that the picker   *)
(* is confirmed at most once.                                              *)
(*                                                                         *)
(* OneConnection is inductive under TypeOK.  The confirmation needs what   *)
(* the code leaves to the order of its callbacks: that the key has been    *)
(* typed, or is to be typed, only once confirmed is set; that a host that  *)
(* is up after Claude's end has an embedder.                               *)
(***************************************************************************)
EXTENDS ChannelHost, SequenceTheorems, TLAPS

\* The 250 ms timer is armed before its key is typed, both after confirmed is
\* set; a host without an embedder does not outlive onExit (lifecycle.mjs:69-110,
\* index.mjs:105-126).
Confirmation ==
    /\ keys <= 1
    /\ typing => keys = 0
    /\ ~confirmed => keys = 0 /\ ~typing
    /\ exitSeen /\ Up => embedded
    /\ late => embedded

IInv == TypeOK /\ OneConnection /\ Confirmation

-----------------------------------------------------------------------------
(* Functions and sequences.                                                *)

\* An update at one point keeps the type of a function.
LEMMA Update ==
    ASSUME NEW S, NEW T, NEW f \in [S -> T], NEW x \in S, NEW v \in T
    PROVE  /\ [f EXCEPT ![x] = v] \in [S -> T]
           /\ [f EXCEPT ![x] = v][x] = v
           /\ \A y \in S : y # x => [f EXCEPT ![x] = v][y] = f[y]
OBVIOUS

\* A line is two pieces.
LEMMA LineType == ASSUME NEW p \in Prompts PROVE Line(p) \in Seq(Piece)
BY DEF Line, Piece

\* The outbox that is flushed is empty.
LEMMA NothingLeft ==
    ASSUME NEW S, NEW q \in Seq(S)
    PROVE  SubSeq(q, Len(q) + 1, Len(q)) = <<>>
OBVIOUS

-----------------------------------------------------------------------------
(* The types.                                                              *)

\* The parts of TypeOK that are about lines.
LineTypes ==
    /\ buf \in [Servers -> Seq(Piece)]
    /\ toSrv \in [Servers -> Seq(Prompts)]
    /\ toHost \in [Servers -> Seq(Piece)]
    /\ \A s \in Servers : sock[s] = "none" => toSrv[s] = <<>> /\ buf[s] = <<>>

LEMMA TypesStart == Init => TypeOK
<1>1. <<>> \in Seq(Prompts) /\ <<>> \in Seq(Piece)
  BY EmptySeq
<1>. SUFFICES ASSUME Init PROVE TypeOK
  OBVIOUS
<1>2. embedded \in BOOLEAN /\ keys \in Nat
  BY DEF Init
<1>3. LineTypes
  BY <1>1 DEF Init, LineTypes
<1>4. got \in [Servers -> SUBSET Prompts] /\ outbox \in Seq(Prompts)
  BY <1>1 DEF Init
<1>. QED  BY <1>2, <1>3, <1>4 DEF Init, TypeOK, LineTypes

LEMMA PromptTypes == ASSUME TypeOK, NEW p \in Prompts, Prompt(p) PROVE TypeOK'
<1>. USE DEF TypeOK
<1>1. turn' \in [Prompts -> {"idle", "open", "late", "answered"}]
  BY DEF Prompt
<1>2. Append(outbox, p) \in Seq(Prompts) /\ <<>> \in Seq(Prompts)
  BY AppendProperties, EmptySeq
<1>3. outbox' \in Seq(Prompts)
  BY <1>2 DEF Prompt
<1>4. toSrv' \in [Servers -> Seq(Prompts)] /\ \A s \in Servers : sock[s] = "none" => toSrv'[s] = <<>>
  <2>1. CASE toSrv' = toSrv
    BY <2>1
  <2>2. CASE conn \in Servers /\ sock[conn] = "open"
             /\ toSrv' = [toSrv EXCEPT ![conn] = @ \o Append(outbox, p)]
    <3>1. toSrv[conn] \o Append(outbox, p) \in Seq(Prompts)
      BY <1>2, <2>2, ConcatProperties
    <3>. QED  BY <2>2, <3>1, Update
  <2>. QED  BY <2>1, <2>2 DEF Prompt
<1>. QED
  BY <1>1, <1>3, <1>4 DEF Prompt, serverVars, confirmVars

LEMMA AdoptTypes == ASSUME TypeOK, NEW s \in Servers, Adopt(s) PROVE TypeOK'
<1>. USE DEF TypeOK
<1>1. outbox' = <<>> /\ <<>> \in Seq(Prompts)
  BY NothingLeft, EmptySeq DEF Adopt, Flushed
<1>2. toSrv[s] \o outbox \in Seq(Prompts)
  BY ConcatProperties
<1>3. toSrv' = [toSrv EXCEPT ![s] = toSrv[s] \o outbox]
  BY DEF Adopt, Flushed
<1>4. toSrv' \in [Servers -> Seq(Prompts)] /\ \A x \in Servers : x # s => toSrv'[x] = toSrv[x]
  BY <1>2, <1>3, Update
<1>5. sock' \in [Servers -> {"none", "open", "destroyed", "closed"}]
      /\ \A x \in Servers : sock'[x] = "none" => x # s /\ sock[x] = "none"
  BY DEF Adopt
<1>. QED
  BY <1>1, <1>4, <1>5 DEF Adopt, serverVars, confirmVars

LEMMA ReadTypes == ASSUME TypeOK, NEW s \in Servers, ReadPiece(s) PROVE TypeOK'
<1>. USE DEF TypeOK
<1>1. toHost[s] \in Seq(Piece) /\ toHost[s] # <<>>
  BY DEF ReadPiece
<1>2. Head(toHost[s]) \in Piece /\ Tail(toHost[s]) \in Seq(Piece)
  BY <1>1, HeadTailProperties
<1>3. Append(buf[s], Head(toHost[s])) \in Seq(Piece) /\ <<>> \in Seq(Piece)
  BY <1>2, AppendProperties, EmptySeq
<1>4. toHost' = [toHost EXCEPT ![s] = Tail(toHost[s])]
  BY DEF ReadPiece
<1>5. toHost' \in [Servers -> Seq(Piece)]
  BY <1>2, <1>4, Update
<1>6. PICK l \in Seq(Piece) : buf' = [buf EXCEPT ![s] = l]
  BY <1>3 DEF ReadPiece, Buffered
<1>7. buf' \in [Servers -> Seq(Piece)] /\ \A x \in Servers : x # s => buf'[x] = buf[x]
  BY <1>6, Update
<1>8. turn' \in [Prompts -> {"idle", "open", "late", "answered"}]
  <2>1. turn' = turn \/ turn' = [turn EXCEPT ![Head(toHost[s]).of] = "answered"]
    BY DEF ReadPiece
  <2>. QED  BY <1>2, <2>1 DEF Piece
<1>. QED
  BY <1>5, <1>7, <1>8 DEF ReadPiece, busVars, serverVars, confirmVars

LEMMA ServerTypes ==
    ASSUME TypeOK, NEW s \in Servers,
           \/ Dial(s) \/ Receive(s) \/ ServerEnds(s) \/ \E p \in Prompts : Finish(s, p)
    PROVE  TypeOK'
<1>. USE DEF TypeOK, busVars, lineVars, confirmVars
<1>1. CASE Dial(s)
  BY <1>1 DEF Dial
<1>2. CASE ServerEnds(s)
  BY <1>2 DEF ServerEnds
<1>3. CASE Receive(s)
  <2>1. toSrv[s] \in Seq(Prompts) /\ toSrv[s] # <<>>
    BY <1>3 DEF Receive
  <2>2. Head(toSrv[s]) \in Prompts /\ Tail(toSrv[s]) \in Seq(Prompts)
    BY <2>1, HeadTailProperties
  <2>3. toSrv' = [toSrv EXCEPT ![s] = Tail(toSrv[s])]
        /\ got' = [got EXCEPT ![s] = got[s] \cup {Head(toSrv[s])}]
    BY <1>3 DEF Receive
  <2>4. toSrv' \in [Servers -> Seq(Prompts)] /\ \A x \in Servers : x # s => toSrv'[x] = toSrv[x]
    BY <2>2, <2>3, Update
  <2>5. got' \in [Servers -> SUBSET Prompts]
    BY <2>2, <2>3
  <2>. QED  BY <1>3, <2>1, <2>4, <2>5 DEF Receive
<1>4. ASSUME NEW p \in Prompts, Finish(s, p) PROVE TypeOK'
  <2>1. toHost[s] \o Line(p) \in Seq(Piece)
    BY LineType, ConcatProperties
  <2>2. toHost' = toHost \/ toHost' = [toHost EXCEPT ![s] = toHost[s] \o Line(p)]
    BY <1>4 DEF Finish
  <2>3. toHost' \in [Servers -> Seq(Piece)]
    <3>1. CASE toHost' = [toHost EXCEPT ![s] = toHost[s] \o Line(p)]
      BY <2>1, <3>1, Update
    <3>. QED  BY <2>2, <3>1
  <2>4. called' \subseteq Prompts
    BY <1>4 DEF Finish
  <2>. QED  BY <1>4, <2>3, <2>4 DEF Finish
<1>. QED  BY <1>1, <1>2, <1>3, <1>4

LEMMA HostTypes ==
    ASSUME TypeOK, \/ HostStep \/ Match \/ ClaudeExits \/ Close \/ Signal
                   \/ \E s \in Servers : Closed(s) \/ SocketError(s)
    PROVE  TypeOK'
<1>. USE DEF TypeOK, busVars, lineVars, serverVars, confirmVars
<1>1. CASE FallbackFires
  <2>1. keys' \in Nat
    BY <1>1 DEF FallbackFires
  <2>2. confirmed' \in BOOLEAN /\ fallback' \in BOOLEAN
    BY <1>1, Zenon DEF FallbackFires
  <2>. QED  BY <1>1, <2>1, <2>2, Zenon DEF FallbackFires
<1>2. CASE TypeKey
  <2>1. keys' \in Nat
    BY <1>2 DEF TypeKey
  <2>2. typing' \in BOOLEAN /\ fallback' \in BOOLEAN /\ host' \in {"up", "exited", "crashed", "signalled"}
    BY <1>2, Zenon DEF TypeKey, Leave
  <2>3. late' \in BOOLEAN
    BY <1>2, Zenon DEF TypeKey
  <2>. QED  BY <1>2, <2>1, <2>2, <2>3, Zenon DEF TypeKey
<1>3. CASE OnExit
  <2>1. turn' \in [Prompts -> {"idle", "open", "late", "answered"}]
    BY <1>3 DEF OnExit, TornDown
  <2>. QED  BY <1>3, <2>1 DEF OnExit, Leave
<1>4. CASE Match
  BY <1>4 DEF Match, Typed
<1>5. CASE ClaudeExits
  BY <1>5 DEF ClaudeExits
<1>6. CASE Close
  BY <1>6 DEF Close
<1>7. CASE Signal
  BY <1>7 DEF Signal, Leave
<1>8. ASSUME NEW s \in Servers, Closed(s) PROVE TypeOK'
  BY <1>8 DEF Closed, IsCurrent
<1>9. ASSUME NEW s \in Servers, SocketError(s) PROVE TypeOK'
  BY <1>9 DEF SocketError, Leave
<1>. QED  BY <1>1, <1>2, <1>3, <1>4, <1>5, <1>6, <1>7, <1>8, <1>9 DEF HostStep

LEMMA TypesStay == TypeOK /\ [Next]_vars => TypeOK'
<1>. SUFFICES ASSUME TypeOK, [Next]_vars PROVE TypeOK'
  OBVIOUS
<1>1. CASE UNCHANGED vars
  BY <1>1 DEF TypeOK, vars, busVars, lineVars, serverVars, confirmVars
<1>2. ASSUME NEW s \in Servers, ConnStep(s) PROVE TypeOK'
  BY <1>2, AdoptTypes, ReadTypes, HostTypes DEF ConnStep
<1>. QED
  BY <1>1, <1>2, PromptTypes, ServerTypes, HostTypes DEF Next

-----------------------------------------------------------------------------
(* One connection.                                                         *)

LEMMA ConnectionStays ==
    ASSUME TypeOK, OneConnection, [Next]_vars PROVE OneConnection'
<1>. USE NoneAssumption DEF TypeOK, OneConnection
<1>1. ASSUME NEW s \in Servers, Adopt(s) PROVE OneConnection'
  <2>1. outbox' = <<>>
    BY <1>1, NothingLeft DEF Adopt, Flushed
  <2>2. conn' = s /\ \A x \in Servers : x # s => sock'[x] # "open"
    BY <1>1 DEF Adopt
  <2>. QED  BY <2>1, <2>2
<1>2. ASSUME NEW s \in Servers, Closed(s) PROVE OneConnection'
  <2>1. outbox' = outbox /\ sock' = [sock EXCEPT ![s] = "closed"]
        /\ conn' = IF conn = s THEN None ELSE conn
    BY <1>2 DEF Closed, IsCurrent
  <2>. QED  BY <2>1
<1>3. CASE Close
  <2>1. \A x \in Servers : sock'[x] = "open" => sock[x] = "open"
    BY <1>3 DEF Close
  <2>. QED  BY <1>3, <2>1 DEF Close
<1>4. ASSUME NEW p \in Prompts, Prompt(p) PROVE OneConnection'
  BY <1>4 DEF Prompt
<1>5. CASE UNCHANGED busVars
  BY <1>5 DEF busVars
<1>6. ASSUME NEW s \in Servers,
             \/ ReadPiece(s) \/ SocketError(s) \/ Dial(s) \/ Receive(s) \/ ServerEnds(s)
             \/ \E p \in Prompts : Finish(s, p)
      PROVE  UNCHANGED busVars
  BY <1>6 DEF ReadPiece, SocketError, Dial, Receive, ServerEnds, Finish
<1>7. ASSUME HostStep \/ Match \/ ClaudeExits \/ Signal PROVE UNCHANGED busVars
  BY <1>7 DEF HostStep, FallbackFires, TypeKey, OnExit, Match, ClaudeExits, Signal
<1>8. UNCHANGED vars => UNCHANGED busVars
  BY DEF vars
<1>. QED
  BY <1>1, <1>2, <1>3, <1>4, <1>5, <1>6, <1>7, <1>8 DEF Next, ConnStep

-----------------------------------------------------------------------------
(* The confirmation.                                                       *)

LEMMA ConfirmationStays ==
    ASSUME TypeOK, Confirmation, [Next]_vars PROVE Confirmation'
<1>. USE DEF TypeOK, Confirmation, Up
<1>1. CASE FallbackFires
  BY <1>1 DEF FallbackFires
<1>2. CASE TypeKey
  BY <1>2 DEF TypeKey, Leave
<1>3. CASE OnExit
  BY <1>3 DEF OnExit, Leave
<1>4. CASE Match
  BY <1>4 DEF Match, Unconfirmed, Typed
<1>5. CASE Close
  BY <1>5 DEF Close
<1>6. CASE Signal
  BY <1>6 DEF Signal, Leave
<1>7. ASSUME NEW s \in Servers, SocketError(s) PROVE Confirmation'
  BY <1>7 DEF SocketError, Leave
<1>8. CASE UNCHANGED <<host, embedded, exitSeen, confirmVars>>
  BY <1>8 DEF confirmVars
<1>9. ASSUME NEW s \in Servers,
             \/ Adopt(s) \/ ReadPiece(s) \/ Closed(s) \/ Dial(s) \/ Receive(s) \/ ServerEnds(s)
             \/ \E p \in Prompts : Finish(s, p)
      PROVE  UNCHANGED <<host, embedded, exitSeen, confirmVars>>
  BY <1>9 DEF Adopt, ReadPiece, Closed, Dial, Receive, ServerEnds, Finish
<1>10. ASSUME ClaudeExits \/ \E p \in Prompts : Prompt(p)
       PROVE  UNCHANGED <<host, embedded, exitSeen, confirmVars>>
  BY <1>10 DEF ClaudeExits, Prompt
<1>11. UNCHANGED vars => UNCHANGED <<host, embedded, exitSeen, confirmVars>>
  BY DEF vars
<1>. QED
  BY <1>1, <1>2, <1>3, <1>4, <1>5, <1>6, <1>7, <1>8, <1>9, <1>10, <1>11
  DEF Next, ConnStep, HostStep

-----------------------------------------------------------------------------
(* The theorems.                                                           *)

LEMMA Invariant == Spec => []IInv
<1>1. Init => IInv
  <2>1. Init => OneConnection /\ Confirmation
    BY DEF Init, OneConnection, Confirmation
  <2>. QED  BY <2>1, TypesStart DEF IInv
<1>2. IInv /\ [Next]_vars => IInv'
  BY TypesStay, ConnectionStays, ConfirmationStays DEF IInv
<1>. QED  BY <1>1, <1>2, PTL DEF Spec

\* Type correctness: every callback leaves every variable of the host with a
\* value the code gives it, and a connection that was not accepted holds nothing
\* (transports.mjs:76-115, lifecycle.mjs:69-110).
THEOREM HostTypeCorrect == Spec => []TypeOK
<1>1. IInv => TypeOK
  BY DEF IInv
<1>. QED  BY <1>1, Invariant, PTL

\* However many servers dial in, and in whatever order their closes arrive, the
\* one connection that is open is the one that is written to, and no task waits
\* in the outbox while there is one (audit C5, transports.mjs:87-115).
THEOREM OneServerIsWrittenTo == Spec => []OneConnection
<1>1. IInv => OneConnection
  BY DEF IInv
<1>. QED  BY <1>1, Invariant, PTL

\* Whichever of the picker's output, the 4 s timer and Claude's end comes first,
\* the key is typed at most once, and after Claude's end only for an embedder
\* (lifecycle.mjs:69-110).
THEOREM PickerIsConfirmedOnce == Spec => []TypedOnce
<1>1. IInv => TypedOnce
  BY DEF IInv, Confirmation, TypedOnce
<1>. QED  BY <1>1, Invariant, PTL

=============================================================================

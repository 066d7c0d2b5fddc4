------------------------ MODULE ChannelsFacadeProofs ------------------------
(***************************************************************************)
(* What TLAPS proves of ChannelsFacade: the types, that the timers are     *)
(* those of the open turns, that only the client allows, that a call       *)
(* reaches its own turn, and that a cancelled turn is answered as such.    *)
(***************************************************************************)
EXTENDS ChannelsFacade, FiniteSetTheorems, TLAPS

-----------------------------------------------------------------------------
(* The inductive invariant.                                                *)

\* A prompt that was sent, and no other, is answered or has its turn; and turns
\* are few.
Open ==
    /\ IsFiniteSet(turns)
    /\ \A p \in Prompts : of[p] # None /\ answer[p] = None => \E t \in turns : t.id = p
    /\ \A p \in Prompts : of[p] = None => answer[p] = None

\* The host's callback is asked only where there is one.
HostAsked == \A a \in Asks : asks[a] = "host" => mode = "host"

IInv == TypeOK /\ TimersMatchTurns /\ Open /\ HostAsked

-----------------------------------------------------------------------------
(* Turns and their timers.                                                 *)

LEMMA Names ==
    /\ \A s \in Sessions : s # None
    /\ \A p \in Prompts : p # None
    /\ \A a \in Asks : a # None
  BY NoneAssumption

\* A turn is known by its session, and by its prompt.
LEMMA TurnIsOne ==
    ASSUME TypeOK, NEW t \in turns, NEW u \in turns, t.session = u.session \/ t.id = u.id
    PROVE  t = u
<1>1. of[t.id] = t.session /\ of[u.id] = u.session
  BY DEF TypeOK
<1>. QED  BY <1>1 DEF TypeOK

LEMMA TimerParts ==
    ASSUME NEW t
    PROVE  /\ TimerOf(t).session = t.session /\ TimerOf(t).owner = t.id
           /\ TimerOf(t).kind = IF t.cancelRequested THEN "cancel" ELSE "safety"
  BY DEF TimerOf

LEMMA TurnParts ==
    ASSUME TypeOK, NEW t \in turns
    PROVE  /\ t \in Turn /\ t.session \in Sessions /\ t.id \in Prompts /\ t.cancelRequested \in BOOLEAN
           /\ of[t.id] = t.session /\ answer[t.id] = None
           /\ TimerOf(t) \in Timer
<1>1. t \in Turn /\ of[t.id] = t.session /\ answer[t.id] = None
  BY DEF TypeOK
<1>. QED  BY <1>1 DEF Turn, Timer, TimerOf

\* Clearing the timers of some turns leaves those of the others.
LEMMA ClearsOwn ==
    ASSUME TypeOK, TimersMatchTurns, NEW T \in SUBSET turns
    PROVE  Cleared(T) = {TimerOf(t) : t \in turns \ T}
<1>1. timers = {TimerOf(t) : t \in turns}
  BY DEF TimersMatchTurns
<1>2. ASSUME NEW t \in turns, NEW u \in turns, TimerOf(t) = TimerOf(u) PROVE t = u
  <2>1. t.session = u.session
    BY <1>2, TimerParts
  <2>. QED  BY <2>1, TurnIsOne
<1>. QED  BY <1>1, <1>2 DEF Cleared

\* What a close answers.
LEMMA Closes ==
    ASSUME TypeOK, NEW T \in SUBSET turns, NEW reason \in {"end_turn", "cancelled"},
           answer' = Answered(T, reason)
    PROVE  /\ answer' \in [Prompts -> {None, "end_turn", "cancelled"}]
           /\ \A t \in T : answer'[t.id] = reason
           /\ \A t \in turns \ T : answer'[t.id] = None
           /\ \A p \in Prompts : answer[p] # None => answer'[p] = answer[p]
           /\ \A p \in Prompts : answer'[p] = answer[p] \/ \E t \in T : t.id = p /\ answer'[p] = reason
<1>1. answer \in [Prompts -> {None, "end_turn", "cancelled"}]
  BY DEF TypeOK
<1>2. \A p \in Prompts : answer'[p] = IF \E t \in T : t.id = p THEN reason ELSE answer[p]
  BY DEF Answered
<1>3. answer' \in [Prompts -> {None, "end_turn", "cancelled"}]
  BY <1>1 DEF Answered
<1>4. \A t \in turns : t.id \in Prompts /\ answer[t.id] = None
  BY TurnParts
<1>5. \A t \in T : answer'[t.id] = reason
  BY <1>2, <1>4
<1>6. \A t \in turns \ T : answer'[t.id] = None
  <2>1. ASSUME NEW t \in turns \ T PROVE ~\E u \in T : u.id = t.id
    BY <2>1, TurnIsOne
  <2>. QED  BY <1>2, <1>4, <2>1
<1>7. \A p \in Prompts : answer[p] # None => answer'[p] = answer[p]
  BY <1>2, <1>4
<1>. QED  BY <1>2, <1>3, <1>5, <1>6, <1>7

\* The part of TypeOK that is about turns.
Turns ==
    /\ turns \subseteq Turn
    /\ \A t \in turns : of[t.id] = t.session /\ answer[t.id] = None
    /\ \A t, u \in turns : t.session = u.session => t = u

\* What the turns and their timers keep to.
Kept ==
    /\ of \in [Prompts -> Sessions \cup {None}]
    /\ answer \in [Prompts -> {None, "end_turn", "cancelled"}]
    /\ Turns
    /\ timers \subseteq Timer
    /\ aged \subseteq timers
    /\ recentlyClosed \subseteq Sessions
    /\ TimersMatchTurns
    /\ Open

\* It does when turns are closed.
LEMMA CloseKeeps ==
    ASSUME IInv, NEW T \in SUBSET turns, NEW reason \in {"end_turn", "cancelled"},
           CloseTurns(T, reason), timers' = Cleared(T), UNCHANGED of
    PROVE  Kept'
<1>0. TypeOK /\ TimersMatchTurns /\ Open
  BY DEF IInv
<1>1. /\ answer' = Answered(T, reason) /\ turns' = turns \ T
      /\ recentlyClosed' = recentlyClosed \cup {t.session : t \in T}
  BY DEF CloseTurns
<1>2. /\ answer' \in [Prompts -> {None, "end_turn", "cancelled"}]
      /\ \A t \in turns \ T : answer'[t.id] = None
      /\ \A p \in Prompts : answer[p] # None => answer'[p] = answer[p]
      /\ \A p \in Prompts : answer'[p] = answer[p] \/ \E t \in T : t.id = p /\ answer'[p] = reason
      /\ \A t \in T : answer'[t.id] = reason
  BY <1>0, <1>1, Closes
<1>3. of' \in [Prompts -> Sessions \cup {None}]
  BY <1>0 DEF TypeOK
<1>4. Turns'
  BY <1>0, <1>1, <1>2 DEF TypeOK, Turns
<1>5. TimersMatchTurns'
  BY <1>0, <1>1, ClearsOwn DEF TimersMatchTurns
<1>6. timers' \subseteq Timer
  BY <1>0 DEF TypeOK, Cleared
<1>7. recentlyClosed' \subseteq Sessions
  BY <1>0, <1>1, TurnParts DEF TypeOK
<1>8. aged' \subseteq timers'
  BY <1>0 DEF TypeOK, CloseTurns, Stopped, Cleared
<1>9. Open'
  <2>1. IsFiniteSet(turns')
    BY <1>0, <1>1, FS_Subset DEF Open
  <2>2. ASSUME NEW p \in Prompts, of'[p] # None, answer'[p] = None PROVE \E t \in turns' : t.id = p
    <3>1. of[p] # None /\ answer[p] = None
      BY <1>2, <2>2
    <3>2. PICK t \in turns : t.id = p
      BY <1>0, <3>1 DEF Open
    <3>3. t \notin T
      BY <1>2, <2>2, <3>2, NoneAssumption
    <3>. QED  BY <1>1, <3>2, <3>3
  <2>3. ASSUME NEW p \in Prompts, of'[p] = None PROVE answer'[p] = None
    <3>1. answer[p] = None
      BY <1>0, <2>3 DEF Open
    <3>2. \A t \in T : t.id # p
      BY <1>0, <2>3, TurnParts, Names
    <3>. QED  BY <1>2, <3>1, <3>2
  <2>. QED  BY <2>1, <2>2, <2>3 DEF Open
<1>. QED  BY <1>2, <1>3, <1>4, <1>5, <1>6, <1>7, <1>8, <1>9 DEF Kept

LEMMA TypeParts ==
    TypeOK <=> /\ mode \in {"allow", "deny", "delegate", "host"}
               /\ claude \in {"live", "dead"}
               /\ up \in BOOLEAN
               /\ of \in [Prompts -> Sessions \cup {None}]
               /\ answer \in [Prompts -> {None, "end_turn", "cancelled"}]
               /\ Turns
               /\ timers \subseteq Timer
               /\ aged \subseteq timers
               /\ recentlyClosed \subseteq Sessions
               /\ applied \in Call \cup {None}
               /\ asks \in [Asks -> {"idle", "client", "host", "decided", "sent"}]
               /\ verdict \in [Asks -> {None, "allow", "deny"}]
               /\ said \in [Asks -> Outcome \cup {None}]
  BY DEF TypeOK, Turns

\* And when nothing of them changes.
LEMMA RestKeeps ==
    ASSUME IInv, UNCHANGED <<of, answer, turns, timers>>, aged' \subseteq timers,
           recentlyClosed' \in SUBSET Sessions
    PROVE  Kept'
  BY DEF IInv, TypeOK, Kept, Turns, TimersMatchTurns, Open

LEMMA StartKeeps ==
    ASSUME IInv, NEW p \in Prompts, NEW s \in Sessions, StartTurn(p, s)
    PROVE  Kept'
<1> DEFINE T == TurnsIn(s)
           new == [session |-> s, id |-> p, cancelRequested |-> FALSE]
<1>0. TypeOK /\ TimersMatchTurns /\ Open
  BY DEF IInv
<1>1. /\ of[p] = None /\ of' = [of EXCEPT ![p] = s] /\ answer' = Answered(T, "end_turn")
      /\ turns' = (turns \ T) \cup {new}
      /\ timers' = Cleared(T) \cup {[session |-> s, owner |-> p, kind |-> "safety"]}
      /\ recentlyClosed' = recentlyClosed \cup {t.session : t \in T}
      /\ aged' = aged \ {TimerOf(t) : t \in T}
  BY DEF StartTurn, Replaced, Stopped
<1>2. T \in SUBSET turns /\ \A t \in turns : t \in T <=> t.session = s
  BY DEF TurnsIn
<1>3. /\ new \in Turn /\ new.session = s /\ new.id = p
      /\ TimerOf(new) = [session |-> s, owner |-> p, kind |-> "safety"]
      /\ TimerOf(new) \in Timer
  BY DEF Turn, TimerOf, Timer
<1>. HIDE DEF T, new
<1>4. /\ answer' \in [Prompts -> {None, "end_turn", "cancelled"}]
      /\ \A t \in turns \ T : answer'[t.id] = None
      /\ \A q \in Prompts : answer[q] # None => answer'[q] = answer[q]
      /\ \A q \in Prompts : answer'[q] = answer[q] \/ \E t \in T : t.id = q /\ answer'[q] = "end_turn"
      /\ \A t \in T : answer'[t.id] = "end_turn"
  BY <1>0, <1>1, <1>2, Closes
<1>5. /\ of' \in [Prompts -> Sessions \cup {None}] /\ of'[p] = s
      /\ \A q \in Prompts : q # p => of'[q] = of[q]
  BY <1>0, <1>1 DEF TypeOK
<1>6. \A t \in turns : t \in Turn /\ t.id \in Prompts /\ t.id # p /\ of[t.id] = t.session
  <2>1. ASSUME NEW t \in turns PROVE t \in Turn /\ t.id \in Prompts /\ of[t.id] = t.session /\ of[t.id] # None
    BY <1>0, TurnParts, Names
  <2>. QED  BY <1>1, <2>1
<1>7. answer'[p] = None
  <2>1. answer[p] = None
    BY <1>0, <1>1 DEF Open
  <2>. QED  BY <1>2, <1>4, <1>6, <2>1
<1>8. Turns'
  <2>1. turns' \subseteq Turn
    BY <1>1, <1>3, <1>6
  <2>2. \A t \in turns' : of'[t.id] = t.session /\ answer'[t.id] = None
    BY <1>1, <1>3, <1>4, <1>5, <1>6, <1>7
  <2>3. \A t, u \in turns' : t.session = u.session => t = u
    BY <1>0, <1>1, <1>2, <1>3, TurnIsOne
  <2>. QED  BY <2>1, <2>2, <2>3 DEF Turns
<1>9. TimersMatchTurns'
  <2>1. Cleared(T) = {TimerOf(t) : t \in turns \ T}
    BY <1>0, <1>2, ClearsOwn
  <2>2. timers' = {TimerOf(t) : t \in turns \ T} \cup {TimerOf(new)}
    BY <1>1, <1>3, <2>1
  <2>. QED  BY <1>1, <2>2 DEF TimersMatchTurns
<1>10. timers' \subseteq Timer
  BY <1>0, <1>1, <1>3 DEF TypeOK, Cleared
<1>11. recentlyClosed' \subseteq Sessions
  BY <1>0, <1>1, <1>2, TurnParts DEF TypeOK
<1>12. Open'
  <2>1. IsFiniteSet(turns')
    <3>1. IsFiniteSet(turns \ T)
      BY <1>0, FS_Subset DEF Open
    <3>. QED  BY <1>1, <3>1, FS_AddElement
  <2>2. ASSUME NEW q \in Prompts, of'[q] # None, answer'[q] = None PROVE \E t \in turns' : t.id = q
    <3>1. CASE q = p
      BY <1>1, <1>3, <3>1
    <3>2. CASE q # p
      <4>1. of[q] # None /\ answer[q] = None
        BY <1>4, <1>5, <2>2, <3>2
      <4>2. PICK t \in turns : t.id = q
        BY <1>0, <4>1 DEF Open
      <4>3. t \notin T
        BY <1>4, <2>2, <4>2, NoneAssumption
      <4>. QED  BY <1>1, <4>2, <4>3
    <3>. QED  BY <3>1, <3>2
  <2>3. ASSUME NEW q \in Prompts, of'[q] = None PROVE answer'[q] = None
    <3>1. q # p /\ of[q] = None
      BY <1>5, <2>3, Names
    <3>2. answer[q] = None
      BY <1>0, <3>1 DEF Open
    <3>3. \A t \in T : t.id # q
      BY <1>2, <1>6, <3>1, <1>0, TurnParts, Names
    <3>. QED  BY <1>4, <3>2, <3>3
  <2>. QED  BY <2>1, <2>2, <2>3 DEF Open
<1>13. aged' \subseteq timers'
  BY <1>0, <1>1 DEF TypeOK, Cleared
<1>. QED  BY <1>4, <1>5, <1>8, <1>9, <1>10, <1>11, <1>12, <1>13 DEF Kept

LEMMA CancelKeeps ==
    ASSUME IInv, NEW t \in turns, Cancel(t)
    PROVE  Kept'
<1>0. TypeOK /\ TimersMatchTurns /\ Open
  BY DEF IInv
<1>1. PICK new : new = [t EXCEPT !.cancelRequested = TRUE]
  OBVIOUS
<1>2. /\ turns' = (turns \ {t}) \cup {new} /\ timers' = Cleared({t}) \cup {TimerOf(new)}
      /\ aged' = aged \ {TimerOf(t)} /\ UNCHANGED <<of, answer, recentlyClosed>>
  BY <1>1 DEF Cancel, Rearmed, Stopped
<1>3. t \in Turn /\ of[t.id] = t.session /\ answer[t.id] = None
  BY <1>0, TurnParts
<1>4. /\ new \in Turn /\ new.id = t.id /\ new.session = t.session
  BY <1>1, <1>3 DEF Turn
<1>5. TimerOf(new) \in Timer
  BY <1>4 DEF TimerOf, Timer, Turn
<1>6. Turns'
  <2>1. turns' \subseteq Turn /\ \A u \in turns' : of'[u.id] = u.session /\ answer'[u.id] = None
    BY <1>0, <1>2, <1>3, <1>4, TurnParts
  <2>2. \A u \in turns : u.session = t.session => u = t
    BY <1>0, TurnIsOne
  <2>3. \A u, v \in turns' : u.session = v.session => u = v
    BY <1>0, <1>2, <1>4, <2>2, TurnIsOne
  <2>. QED  BY <2>1, <2>3 DEF Turns
<1>7. TimersMatchTurns'
  <2>1. Cleared({t}) = {TimerOf(u) : u \in turns \ {t}}
    BY <1>0, ClearsOwn
  <2>2. timers' = {TimerOf(u) : u \in turns \ {t}} \cup {TimerOf(new)}
    BY <1>2, <2>1
  <2>. QED  BY <1>2, <2>2 DEF TimersMatchTurns
<1>8. timers' \subseteq Timer
  BY <1>0, <1>2, <1>5 DEF TypeOK, Cleared
<1>9. Open'
  <2>1. IsFiniteSet(turns')
    <3>1. IsFiniteSet(turns \ {t})
      BY <1>0, FS_Subset DEF Open
    <3>. QED  BY <1>2, <3>1, FS_AddElement
  <2>2. ASSUME NEW q \in Prompts, of[q] # None, answer[q] = None PROVE \E u \in turns' : u.id = q
    <3>1. PICK u \in turns : u.id = q
      BY <1>0, <2>2 DEF Open
    <3>. QED  BY <1>2, <1>4, <3>1
  <2>. QED  BY <1>0, <1>2, <2>1, <2>2 DEF Open
<1>10. aged' \subseteq timers'
  BY <1>0, <1>2 DEF TypeOK, Cleared
<1>. QED  BY <1>0, <1>2, <1>6, <1>7, <1>8, <1>9, <1>10 DEF Kept, TypeOK

\* The timer that fires is that of the turn it closes.
LEMMA FiringTimer ==
    ASSUME TypeOK, TimersMatchTurns, NEW m \in timers
    PROVE  /\ m \notin Cleared(TurnsIn(m.session))
           /\ \A t \in TurnsIn(m.session) : m = TimerOf(t)
           /\ m.kind \in {"safety", "cancel"} /\ m.session \in Sessions
<1>1. PICK u \in turns : m = TimerOf(u)
  BY DEF TimersMatchTurns
<1>2. u \in TurnsIn(m.session)
  BY <1>1, TimerParts DEF TurnsIn
<1>3. \A t \in TurnsIn(m.session) : t = u
  BY <1>2, TurnIsOne DEF TurnsIn
<1>4. m \in Timer
  BY DEF TypeOK
<1>. QED  BY <1>1, <1>2, <1>3, <1>4 DEF Cleared, Timer

LEMMA TimerKeeps ==
    ASSUME IInv, NEW m \in timers, TimerFires(m)
    PROVE  Kept'
<1> DEFINE T == TurnsIn(m.session)
           reason == IF m.kind = "cancel" THEN "cancelled" ELSE "end_turn"
<1>1. TypeOK /\ TimersMatchTurns
  BY DEF IInv
<1>2. T \in SUBSET turns /\ reason \in {"end_turn", "cancelled"}
  BY DEF TurnsIn
<1>3. CloseTurns(T, reason) /\ timers' = Cleared(T) /\ UNCHANGED of
  BY <1>1, FiringTimer DEF TimerFires
<1>. HIDE DEF T, reason
<1>. QED  BY <1>2, <1>3, CloseKeeps

LEMMA KeptStep == ASSUME IInv, [Next]_vars PROVE Kept'
<1>0. TypeOK
  BY DEF IInv
<1>1. ASSUME NEW p \in Prompts, NEW tag \in Sessions, NEW t \in turns, Say(p, tag, t) PROVE Kept'
  BY <1>0, <1>1, RestKeeps DEF Say, TypeOK
<1>2. ASSUME NEW p \in Prompts, NEW tag \in Sessions, NEW t \in turns, Finish(p, tag, t) PROVE Kept'
  <2>1. {t} \in SUBSET turns /\ FinishReason(t) \in {"end_turn", "cancelled"}
    BY DEF FinishReason
  <2>2. CloseTurns({t}, FinishReason(t)) /\ timers' = Cleared({t}) /\ UNCHANGED of
    BY <1>2 DEF Finish
  <2>. QED  BY <2>1, <2>2, CloseKeeps
<1>3. ASSUME NEW s \in Sessions, GraceEnds(s) PROVE Kept'
  BY <1>0, <1>3, RestKeeps DEF GraceEnds, TypeOK
<1>4. ASSUME NEW a \in Asks, PermissionRequest(a) \/ PermissionTimesOut(a) \/ SendVerdict(a) PROVE Kept'
  BY <1>0, <1>4, RestKeeps DEF PermissionRequest, PermissionTimesOut, SendVerdict, turnVars, TypeOK
<1>5. ASSUME NEW a \in Asks, NEW r, ClientAnswers(a, r) \/ HostAnswers(a, r) PROVE Kept'
  BY <1>0, <1>5, RestKeeps DEF ClientAnswers, HostAnswers, turnVars, TypeOK
<1>6. ASSUME Teardown PROVE Kept'
  <2>1. turns \in SUBSET turns /\ CloseTurns(turns, "cancelled") /\ timers' = Cleared(turns)
        /\ UNCHANGED of
    BY <1>6 DEF Teardown
  <2>. QED  BY <2>1, CloseKeeps
<1>7. ASSUME NEW m \in timers, TimePasses(m) PROVE Kept'
  BY <1>0, <1>7, RestKeeps DEF TimePasses, TypeOK
<1>8. ASSUME UNCHANGED vars PROVE Kept'
  BY <1>0, <1>8, RestKeeps DEF vars, turnVars, TypeOK
<1>. QED  BY <1>1, <1>2, <1>3, <1>4, <1>5, <1>6, <1>7, <1>8, StartKeeps, CancelKeeps, TimerKeeps DEF Next

-----------------------------------------------------------------------------
(* The permission requests.                                                *)

\* A request is put to a callback there is.
Decided(a) == asks[a] = "host" => mode = "host"

\* What is allowed where the client decides, the client has allowed.
Asked(a) ==
    /\ asks[a] = "client" \/ mode = "delegate"
    /\ verdict'[a] # verdict[a]
    /\ verdict'[a] = "allow"
    => said'[a] # None /\ Allows(said'[a])

\* The requests' own state.
AsksTyped ==
    /\ asks \in [Asks -> {"idle", "client", "host", "decided", "sent"}]
    /\ verdict \in [Asks -> {None, "allow", "deny"}]
    /\ said \in [Asks -> Outcome \cup {None}]

LEMMA Decides ==
    ASSUME AsksTyped, NEW a \in Asks, NEW v \in {"allow", "deny"}, Decide(a, v)
    PROVE  /\ asks' \in [Asks -> {"idle", "client", "host", "decided", "sent"}]
           /\ verdict' \in [Asks -> {None, "allow", "deny"}]
           /\ asks'[a] = "decided" /\ verdict'[a] = v
           /\ \A b \in Asks : b # a => UNCHANGED <<asks[b], verdict[b]>>
  BY DEF AsksTyped, Decide

LEMMA Asking ==
    ASSUME AsksTyped, NEW a \in Asks, NEW w \in {"idle", "client", "host", "decided", "sent"},
           asks' = [asks EXCEPT ![a] = w]
    PROVE  /\ asks' \in [Asks -> {"idle", "client", "host", "decided", "sent"}]
           /\ asks'[a] = w /\ \A b \in Asks : b # a => asks'[b] = asks[b]
  BY DEF AsksTyped

LEMMA AsksStep ==
    ASSUME IInv, [Next]_vars
    PROVE  AsksTyped' /\ mode' = mode /\ \A a \in Asks : Decided(a)' /\ Asked(a)
<1>0. AsksTyped /\ \A a \in Asks : Decided(a)
  BY DEF IInv, TypeOK, AsksTyped, HostAsked, Decided
<1> DEFINE P == AsksTyped' /\ mode' = mode /\ \A a \in Asks : Decided(a)' /\ Asked(a)
<1>1. ASSUME UNCHANGED <<mode, askVars>> PROVE P
  BY <1>0, <1>1 DEF AsksTyped, askVars, Decided, Asked
<1>2. ASSUME NEW a \in Asks, NEW v \in {"allow", "deny"}, Decide(a, v), UNCHANGED <<mode, said>>,
             asks[a] = "client" \/ mode = "delegate" => v = "deny"
      PROVE  P
  <2>1. AsksTyped'
    BY <1>0, <1>2, Decides DEF AsksTyped
  <2>2. Decided(a)' /\ Asked(a)
    BY <1>0, <1>2, Decides DEF Decided, Asked
  <2>3. \A b \in Asks : b # a => Decided(b)' /\ Asked(b)
    BY <1>0, <1>2, Decides DEF Decided, Asked
  <2>. QED  BY <1>2, <2>1, <2>2, <2>3
<1>3. ASSUME NEW a \in Asks, NEW w \in {"client", "host", "sent"}, UNCHANGED <<mode, verdict, said>>,
             asks' = [asks EXCEPT ![a] = w], w = "host" => mode = "host"
      PROVE  P
  <2>1. AsksTyped'
    BY <1>0, <1>3, Asking DEF AsksTyped
  <2>2. Decided(a)' /\ Asked(a)
    BY <1>0, <1>3, Asking DEF Decided, Asked
  <2>3. \A b \in Asks : b # a => Decided(b)' /\ Asked(b)
    BY <1>0, <1>3, Asking DEF Decided, Asked
  <2>. QED  BY <1>3, <2>1, <2>2, <2>3
<1>4. ASSUME NEW a \in Asks, PermissionRequest(a) PROVE P
  <2>1. ASSUME mode \in {"allow", "deny"}, Decide(a, mode), UNCHANGED <<mode, said>> PROVE P
    <3>1. PICK v \in {"allow", "deny"} : v = mode
      BY <2>1
    <3>2. Decide(a, v) /\ ~(asks[a] = "client" \/ mode = "delegate")
      BY <1>4, <2>1, <3>1 DEF PermissionRequest
    <3>. QED  BY <1>2, <2>1, <3>2
  <2>. QED  BY <1>2, <1>3, <1>4, <2>1 DEF PermissionRequest
<1>5. ASSUME NEW a \in Asks, NEW r \in Outcome, ClientAnswers(a, r) PROVE P
  <2>1. Settled(r) \in {"allow", "deny"} /\ (Settled(r) = "allow" => Allows(r)) /\ r # None
    BY NoOutcomeAssumption DEF Settled
  <2>2. /\ said' \in [Asks -> Outcome \cup {None}] /\ said'[a] = r
        /\ \A b \in Asks : b # a => said'[b] = said[b]
    BY <1>0, <1>5 DEF ClientAnswers, AsksTyped
  <2>3. Decide(a, Settled(r)) /\ mode' = mode
    BY <1>5 DEF ClientAnswers
  <2>4. AsksTyped'
    BY <1>0, <2>1, <2>2, <2>3, Decides DEF AsksTyped
  <2>5. Decided(a)' /\ Asked(a)
    BY <1>0, <2>1, <2>2, <2>3, Decides DEF Decided, Asked
  <2>6. \A b \in Asks : b # a => Decided(b)' /\ Asked(b)
    BY <1>0, <2>1, <2>2, <2>3, Decides DEF Decided, Asked
  <2>. QED  BY <2>3, <2>4, <2>5, <2>6
<1>6. ASSUME NEW a \in Asks, PermissionTimesOut(a) PROVE P
  BY <1>2, <1>6 DEF PermissionTimesOut, DenyOnTimeout
<1>7. ASSUME NEW a \in Asks, NEW v \in {"allow", "deny"}, HostAnswers(a, v) PROVE P
  <2>1. asks[a] = "host" /\ mode = "host"
    BY <1>0, <1>7 DEF HostAnswers, Decided
  <2>. QED  BY <1>2, <1>7, <2>1 DEF HostAnswers
<1>8. ASSUME NEW a \in Asks, SendVerdict(a) PROVE P
  BY <1>3, <1>8 DEF SendVerdict
<1>9. ASSUME Teardown PROVE P
  <2>1. PICK asked \in SUBSET Asks :
           /\ asks' = [a \in Asks |-> IF a \in asked THEN "decided" ELSE asks[a]]
           /\ verdict' = [a \in Asks |-> IF a \in asked THEN "deny" ELSE verdict[a]]
    <3>1. {a \in Asks : asks[a] = "client"} \in SUBSET Asks
      OBVIOUS
    <3>. QED  BY <1>9, <3>1 DEF Teardown
  <2>2. UNCHANGED <<mode, said>>
    BY <1>9 DEF Teardown
  <2>3. AsksTyped'
    BY <1>0, <2>1, <2>2 DEF AsksTyped
  <2>4. \A a \in Asks : Decided(a)' /\ Asked(a)
    BY <1>0, <2>1, <2>2 DEF Decided, Asked
  <2>. QED  BY <2>2, <2>3, <2>4
<1>10. ASSUME NEW p \in Prompts, NEW tag \in Sessions, NEW t \in turns, Say(p, tag, t) \/ Finish(p, tag, t)
       PROVE  P
  BY <1>1, <1>10 DEF Say, Finish
<1>11. ASSUME NEW p \in Prompts, NEW s \in Sessions, StartTurn(p, s) PROVE P
  BY <1>1, <1>11 DEF StartTurn
<1>12. ASSUME NEW s \in Sessions, GraceEnds(s) PROVE P
  BY <1>1, <1>12 DEF GraceEnds
<1>13. ASSUME NEW t, Cancel(t) PROVE P
  BY <1>1, <1>13 DEF Cancel
<1>14. ASSUME NEW m, TimePasses(m) \/ TimerFires(m) PROVE P
  BY <1>1, <1>14 DEF TimePasses, TimerFires
<1>15. ASSUME UNCHANGED vars PROVE P
  BY <1>1, <1>15 DEF vars
<1>. HIDE DEF P
<1>16. P
  BY <1>4, <1>5, <1>6, <1>7, <1>8, <1>9, <1>10, <1>11, <1>12, <1>13, <1>14, <1>15 DEF Next
<1>. QED  BY <1>16 DEF P

-----------------------------------------------------------------------------
(* The theorems.                                                           *)

\* A call that reaches a turn leaves its trace, and others leave none.
LEMMA Applies ==
    ASSUME TypeOK, [Next]_vars
    PROVE  \/ applied' = applied
           \/ \E p \in Prompts, tag \in Sessions, t \in turns, tool \in {"say", "finish"} :
                 Reaches(p, tag, t) /\ applied' = Applied(p, tag, tool, t)
<1>1. CASE \E p \in Prompts, tag \in Sessions, t \in turns : Say(p, tag, t) \/ Finish(p, tag, t)
  BY <1>1 DEF Say, Finish
<1>2. CASE ~\E p \in Prompts, tag \in Sessions, t \in turns : Say(p, tag, t) \/ Finish(p, tag, t)
  BY <1>2 DEF Next, StartTurn, Cancel, TimePasses, TimerFires, GraceEnds, PermissionRequest, PermissionTimesOut,
              SendVerdict, ClientAnswers, HostAnswers, Teardown, turnVars, vars
<1>. QED  BY <1>1, <1>2

LEMMA InvStep == ASSUME IInv, [Next]_vars PROVE IInv'
<1>0. TypeOK
  BY DEF IInv
<1>1. Kept'
  BY KeptStep
<1>2. AsksTyped' /\ mode' = mode /\ \A a \in Asks : Decided(a)'
  BY AsksStep
<1>3. claude' \in {"live", "dead"} /\ up' \in BOOLEAN
  BY <1>0 DEF TypeOK, Next, StartTurn, Cancel, TimePasses, TimerFires, GraceEnds, Say, Finish,
          PermissionRequest,
          PermissionTimesOut, SendVerdict, ClientAnswers, HostAnswers, Teardown, vars
<1>4. applied' \in Call \cup {None}
  <2>1. ASSUME NEW p \in Prompts, NEW tag \in Sessions, NEW t \in turns, NEW tool \in {"say", "finish"}
        PROVE  Applied(p, tag, tool, t) \in Call
    <3>1. t.id \in Prompts /\ t.session \in Sessions
      BY <1>0, TurnParts
    <3>. QED  BY <3>1 DEF Applied, Call
  <2>. QED  BY <1>0, <2>1, Applies DEF TypeOK
<1>5. TypeOK'
  BY <1>0, <1>1, <1>2, <1>3, <1>4 DEF TypeOK, Kept, Turns, AsksTyped
<1>. QED  BY <1>1, <1>2, <1>5 DEF IInv, Kept, HostAsked, Decided

LEMMA Inductive == Spec => []IInv
<1>1. ASSUME Init PROVE IInv
  <2>1. TypeOK
    BY <1>1 DEF Init, TypeOK
  <2>2. TimersMatchTurns /\ HostAsked
    BY <1>1 DEF Init, TimersMatchTurns, HostAsked
  <2>3. Open
    BY <1>1, FS_EmptySet DEF Init, Open
  <2>. QED  BY <2>1, <2>2, <2>3 DEF IInv
<1>. QED  BY <1>1, InvStep, PTL DEF Spec

\* The turns, the timers and the requests keep to their types; a session has
\* one open turn.
THEOREM FacadeTypeCorrect == Spec => []TypeOK
<1>1. IInv => TypeOK
  BY DEF IInv
<1>. QED  BY <1>1, Inductive, PTL

\* The armed timers are those of the open turns (acp-facade.mjs:295, 333), for
\* any number of sessions and prompts: none outlives its turn.
THEOREM TimersAreOfTurns == Spec => []TimersMatchTurns
<1>1. IInv => TimersMatchTurns
  BY DEF IInv
<1>. QED  BY <1>1, Inductive, PTL

\* When the client decides, with or without a callback of the host, only its
\* allow_once allows (acp-facade.mjs:149-155).
THEOREM OnlyTheClientAllows == Spec => AllowMeansAsked
<1> DEFINE Only == \A a \in Asks :
                     /\ asks[a] = "client" \/ mode = "delegate"
                     /\ verdict'[a] # verdict[a]
                     /\ verdict'[a] = "allow"
                     => said'[a] # None /\ Allows(said'[a])
<1>1. ASSUME IInv, [Next]_vars PROVE Only
  BY <1>1, AsksStep DEF Asked
<1>. QED  BY <1>1, Inductive, PTL DEF Spec, AllowMeansAsked

\* A tool call for a task whose turn is open reaches that turn
\* (acp-facade.mjs:23-28), unless it is tagged wrongly while several are open.
THEOREM CallsReachTheirTurn == Spec => OwnTurn
<1> DEFINE Own == applied' # applied =>
                     \/ applied'.turn = applied'.task
                     \/ answer[applied'.task] # None
                     \/ applied'.tag # of[applied'.task] /\ Cardinality(turns) > 1
<1>1. ASSUME IInv, [Next]_vars PROVE Own
  <2>0. TypeOK /\ Open
    BY <1>1 DEF IInv
  <2>1. SUFFICES ASSUME applied' # applied PROVE Own
    OBVIOUS
  <2>2. PICK p \in Prompts, tag \in Sessions, t \in turns, tool \in {"say", "finish"} :
           Reaches(p, tag, t) /\ applied' = Applied(p, tag, tool, t)
    BY <1>1, <2>0, <2>1, Applies
  <2>3. applied'.turn = t.id /\ applied'.task = p /\ applied'.tag = tag
    BY <2>2 DEF Applied
  <2>4. SUFFICES ASSUME answer[p] = None, t.id # p PROVE tag # of[p] /\ Cardinality(turns) > 1
    BY <2>3
  <2>5. PICK u \in turns : u.id = p
    BY <2>0, <2>2, <2>4 DEF Reaches, Open
  <2>6. u # t /\ of[p] = u.session
    BY <2>0, <2>4, <2>5, TurnParts
  <2>7. Cardinality(turns) \in Nat /\ Cardinality(turns) # 0 /\ Cardinality(turns) # 1
    <3>1. IsFiniteSet(turns) /\ turns # {}
      BY <2>0, <2>5 DEF Open
    <3>2. Cardinality(turns) \in Nat /\ Cardinality(turns) # 0
      BY <3>1, FS_CardinalityType, FS_EmptySet
    <3>3. Cardinality(turns) # 1
      BY <2>5, <2>6, <3>1, FS_Singleton
    <3>. QED  BY <3>2, <3>3
  <2>8. t.session = tag
    BY <2>2, <2>7 DEF Reaches, Resolved, TurnsIn
  <2>9. tag # of[p]
    BY <2>0, <2>6, <2>8, TurnIsOne
  <2>. QED  BY <2>7, <2>9
<1>. QED  BY <1>1, Inductive, PTL DEF Spec, OwnTurn

\* A turn the client has cancelled is answered "cancelled"
\* (acp-facade.mjs:286-290), whichever of finish, timer and teardown is first.
THEOREM CancelsAreAnswered == Spec => CancelAnswered
<1> DEFINE Own == \A t \in turns : t.cancelRequested /\ answer'[t.id] # None
                     => answer'[t.id] = "cancelled" \/ \E u \in turns' : u.session = t.session
<1>1. ASSUME IInv, [Next]_vars PROVE Own
  <2>0. TypeOK /\ TimersMatchTurns
    BY <1>1 DEF IInv
  <2>1. SUFFICES ASSUME NEW t \in turns, t.cancelRequested, answer'[t.id] # None
                 PROVE  answer'[t.id] = "cancelled" \/ \E u \in turns' : u.session = t.session
    OBVIOUS
  <2>2. answer' # answer
    BY <2>0, <2>1, TurnParts
  <2>3. ASSUME NEW p \in Prompts, NEW s \in Sessions, StartTurn(p, s)
        PROVE  \E u \in turns' : u.session = t.session
    <3>1. TurnsIn(s) \in SUBSET turns /\ answer' = Answered(TurnsIn(s), "end_turn")
      BY <2>3 DEF StartTurn, Replaced, TurnsIn
    <3>2. t \in TurnsIn(s)
      BY <2>0, <2>1, <3>1, Closes
    <3>3. [session |-> s, id |-> p, cancelRequested |-> FALSE] \in turns'
      BY <2>3 DEF StartTurn
    <3>. QED  BY <3>2, <3>3 DEF TurnsIn
  <2>4. ASSUME NEW m \in timers, TimerFires(m) PROVE answer'[t.id] = "cancelled"
    <3>1. PICK reason \in {"end_turn", "cancelled"} :
             /\ reason = (IF m.kind = "cancel" THEN "cancelled" ELSE "end_turn")
             /\ TurnsIn(m.session) \in SUBSET turns
             /\ answer' = Answered(TurnsIn(m.session), reason)
      BY <2>4 DEF TimerFires, CloseTurns, TurnsIn
    <3>2. t \in TurnsIn(m.session) /\ answer'[t.id] = reason
      BY <2>0, <2>1, <3>1, Closes
    <3>3. m = TimerOf(t)
      BY <2>0, <3>2, FiringTimer
    <3>4. m.kind = "cancel"
      BY <2>1, <3>3, TimerParts
    <3>. QED  BY <3>1, <3>2, <3>4
  <2>5. ASSUME NEW p \in Prompts, NEW tag \in Sessions, NEW u \in turns, Finish(p, tag, u)
        PROVE  answer'[t.id] = "cancelled"
    <3>1. /\ {u} \in SUBSET turns /\ FinishReason(u) \in {"end_turn", "cancelled"}
          /\ answer' = Answered({u}, FinishReason(u))
      BY <2>5 DEF Finish, CloseTurns, FinishReason
    <3>2. /\ \A v \in {u} : answer'[v.id] = FinishReason(u)
          /\ \A v \in turns \ {u} : answer'[v.id] = None
      <4>1. ASSUME NEW T \in SUBSET turns, NEW reason \in {"end_turn", "cancelled"},
                   answer' = Answered(T, reason)
            PROVE  /\ \A v \in T : answer'[v.id] = reason
                   /\ \A v \in turns \ T : answer'[v.id] = None
        BY <2>0, <4>1, Closes
      <4>. QED  BY <3>1, <4>1
    <3>3. t = u
      BY <2>1, <3>2
    <3>. QED  BY <2>1, <3>2, <3>3 DEF FinishReason
  <2>6. ASSUME Teardown PROVE answer'[t.id] = "cancelled"
    <3>1. turns \in SUBSET turns /\ answer' = Answered(turns, "cancelled")
      BY <2>6 DEF Teardown, CloseTurns
    <3>. QED  BY <2>0, <3>1, Closes
  <2>. QED  BY <1>1, <2>2, <2>3, <2>4, <2>5, <2>6
            DEF Next, Cancel, TimePasses, GraceEnds, Say, PermissionRequest, PermissionTimesOut, SendVerdict,
                ClientAnswers, HostAnswers, turnVars, vars
<1>. QED  BY <1>1, Inductive, PTL DEF Spec, CancelAnswered
=============================================================================

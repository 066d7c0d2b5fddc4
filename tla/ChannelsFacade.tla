-------------------------- MODULE ChannelsFacade --------------------------
(***************************************************************************)
(* The ACP facade of channels-kit (src/channels-kit/acp-facade.mjs): turns *)
(* of several sessions over one live Claude, the timers that bound them,   *)
(* the routing of Claude's tool calls to turns, and the relay of           *)
(* permission requests.                                                    *)
(*                                                                         *)
(* The facade is one JavaScript thread: a handler runs to its end or to    *)
(* its await, so an action is a whole callback.  Claude may call a tool    *)
(* for any task it was ever given, at any time, or never.  The text of a   *)
(* call stands for the task it answers; say and think differ only in the   *)
(* kind of their chunk and are one action.                                 *)
(***************************************************************************)
EXTENDS Naturals, FiniteSets

CONSTANTS
    Sessions,
    Prompts,      \* ids of session/prompt requests; a task is named by its prompt
    Asks,         \* Claude's permission requests
    Obedient,     \* TRUE if Claude tags a call with the chat_id it was given
    None

ASSUME ObedientAssumption == Obedient \in BOOLEAN
ASSUME NoneAssumption == /\ None \notin Sessions \cup Prompts \cup Asks
                         /\ None \notin {"end_turn", "cancelled", "allow", "deny"}

VARIABLES
    mode,         \* permissionPolicy: "host" is delegate with an onRequest callback
    claude,       \* the live claude process: live or dead
    up,           \* FALSE once the host process has exited
    of,           \* the session each prompt was sent in
    answer,       \* the stopReason each prompt was answered with
    turns,        \* the open turns
    timers,       \* the turn timers that are armed
    aged,         \* those of them that have run for some of their time
    recentlyClosed, \* sessions that closed a turn less than STALE_FINISH_GRACE_MS ago
    applied,      \* the last tool call that reached a turn
    asks,         \* where each permission request is
    verdict,      \* what was decided of it
    said          \* what the client answered to it

turnVars == <<of, answer, turns, timers, aged, recentlyClosed, applied>>
askVars  == <<asks, verdict, said>>
vars == <<mode, claude, up, turnVars, askVars>>

Turn  == [session : Sessions, id : Prompts, cancelRequested : BOOLEAN]
Timer == [session : Sessions, owner : Prompts, kind : {"safety", "cancel"}]
Call  == [task : Prompts, tag : Sessions, tool : {"say", "finish"}, turn : Prompts,
          session : Sessions]

\* The client's answer to session/request_permission: an option with the
\* discriminator of the outcome, which may be any or missing ("other"), or a
\* JSON-RPC error.
Error   == [option |-> "none", outcome |-> "error"]
Outcome == [option : {"allow_once", "other"}, outcome : {"selected", "cancelled", "other"}]
               \cup {Error}

ASSUME NoOutcomeAssumption == None \notin Outcome

Delegating == mode \in {"delegate", "host"}

Init ==
    /\ mode \in {"allow", "deny", "delegate", "host"}
    /\ claude = "live"
    /\ up = TRUE
    /\ of = [p \in Prompts |-> None]
    /\ answer = [p \in Prompts |-> None]
    /\ turns = {}
    /\ timers = {}
    /\ aged = {}
    /\ recentlyClosed = {}
    /\ applied = None
    /\ asks = [a \in Asks |-> "idle"]
    /\ verdict = [a \in Asks |-> None]
    /\ said = [a \in Asks |-> None]

-----------------------------------------------------------------------------
(* closeTurn, for a set of turns: answer, clear the timer, leave the map,  *)
(* start the grace window.                                                 *)

TurnsIn(s) == {t \in turns : t.session = s}

\* turn.timer: a cancel replaces the safety timer.
TimerOf(t) == [session |-> t.session, owner |-> t.id,
               kind |-> IF t.cancelRequested THEN "cancel" ELSE "safety"]

\* Fault: the timer of a closed turn stays armed.
KeepsTimers(T) == timers

Cleared(T) == timers \ {TimerOf(t) : t \in T}

\* A cleared timer is not aged either; one that is set again starts anew.
Stopped(T) == aged' = aged \ {TimerOf(t) : t \in T}

Answered(T, reason) ==
    [p \in Prompts |-> IF \E t \in T : t.id = p THEN reason ELSE answer[p]]

CloseTurns(T, reason) ==
    /\ answer' = Answered(T, reason)
    /\ turns' = turns \ T
    /\ Stopped(T)
    /\ recentlyClosed' = recentlyClosed \cup {t.session : t \in T}

-----------------------------------------------------------------------------
(* The client's messages: handleLine.                                      *)

\* Fault: the open turn is not closed.
KeepsOpen(s) == {}

\* A re-prompt closes the turn that is open.
Replaced(s) == TurnsIn(s)

StartTurn(p, s) ==
    /\ up
    /\ of[p] = None
    /\ of' = [of EXCEPT ![p] = s]
    /\ answer' = Answered(Replaced(s), "end_turn")
    /\ turns' = (turns \ Replaced(s))
                    \cup {[session |-> s, id |-> p, cancelRequested |-> FALSE]}
    /\ timers' = Cleared(Replaced(s)) \cup {[session |-> s, owner |-> p, kind |-> "safety"]}
    /\ Stopped(Replaced(s))
    /\ recentlyClosed' = recentlyClosed \cup {t.session : t \in Replaced(s)}
    /\ UNCHANGED <<mode, claude, up, applied, askVars>>

\* Fault: no timer is set for the one that was cleared.
NotArmed(t) == {}

\* The turn is marked and its timer shortened.
Rearmed(t) == {TimerOf([t EXCEPT !.cancelRequested = TRUE])}

\* A cancel of a turn that is cancelled already sets its timer anew.
Cancel(t) ==
    /\ up
    /\ turns' = (turns \ {t}) \cup {[t EXCEPT !.cancelRequested = TRUE]}
    /\ timers' = Cleared({t}) \cup Rearmed(t)
    /\ Stopped({t})
    /\ UNCHANGED <<mode, claude, up, of, answer, recentlyClosed, applied, askVars>>

\* Some of a timer's time passes; it may fire unless it is set anew.
TimePasses(m) ==
    /\ up
    /\ m \in timers \ aged
    /\ aged' = aged \cup {m}
    /\ UNCHANGED <<mode, claude, up, of, answer, turns, timers, recentlyClosed, applied, askVars>>

\* The timers name their session: they close whatever turn it has.
TimerFires(m) ==
    /\ up
    /\ m \in timers \cap aged
    /\ CloseTurns(TurnsIn(m.session), IF m.kind = "cancel" THEN "cancelled" ELSE "end_turn")
    /\ timers' = Cleared(TurnsIn(m.session)) \ {m}
    /\ UNCHANGED <<mode, claude, up, of, applied, askVars>>

GraceEnds(s) ==
    /\ up
    /\ s \in recentlyClosed
    /\ recentlyClosed' = recentlyClosed \ {s}
    /\ UNCHANGED <<mode, claude, up, of, answer, turns, timers, aged, applied, askVars>>

-----------------------------------------------------------------------------
(* Claude's tool calls: resolveTurn and onToolCall.                        *)

Tags(p) == IF Obedient THEN {of[p]} ELSE Sessions

\* Fault: the chat_id is never looked at.
AnyTurn(tag) == turns

\* With one turn open the tag is ignored; with more it decides.
Resolved(tag) == IF Cardinality(turns) = 1 THEN turns ELSE TurnsIn(tag)

\* A call for task p that reaches turn t; others are dropped.
Reaches(p, tag, t) ==
    /\ up
    /\ claude = "live"
    /\ of[p] # None
    /\ tag \in Tags(p)
    /\ t \in Resolved(tag)
    /\ t.session \notin recentlyClosed

Applied(p, tag, tool, t) ==
    [task |-> p, tag |-> tag, tool |-> tool, turn |-> t.id, session |-> t.session]

Say(p, tag, t) ==
    /\ Reaches(p, tag, t)
    /\ applied' = Applied(p, tag, "say", t)
    /\ UNCHANGED <<mode, claude, up, of, answer, turns, timers, aged, recentlyClosed, askVars>>

\* Fault: a cancelled turn is answered as any other.
AlwaysEndTurn(t) == "end_turn"

FinishReason(t) == IF t.cancelRequested THEN "cancelled" ELSE "end_turn"

Finish(p, tag, t) ==
    /\ Reaches(p, tag, t)
    /\ applied' = Applied(p, tag, "finish", t)
    /\ CloseTurns({t}, FinishReason(t))
    /\ timers' = Cleared({t})
    /\ UNCHANGED <<mode, claude, up, of, askVars>>

-----------------------------------------------------------------------------
(* Permission requests: decidePermission and requestPermissionFromClient.  *)

Decide(a, v) ==
    /\ verdict' = [verdict EXCEPT ![a] = v]
    /\ asks' = [asks EXCEPT ![a] = "decided"]

\* The policy allows or denies; or the client is asked while a turn is open;
\* or, with no turn open or a write that throws, the host's callback decides
\* if there is one, and else it is denied.
PermissionRequest(a) ==
    /\ up
    /\ claude = "live"
    /\ asks[a] = "idle"
    /\ \/ mode \in {"allow", "deny"} /\ Decide(a, mode)
       \/ /\ Delegating
          /\ turns # {}
          /\ asks' = [asks EXCEPT ![a] = "client"]
          /\ UNCHANGED verdict
       \/ /\ mode = "host"
          /\ asks' = [asks EXCEPT ![a] = "host"]
          /\ UNCHANGED verdict
       \/ mode = "delegate" /\ Decide(a, "deny")
    /\ UNCHANGED <<mode, claude, up, turnVars, said>>

\* Fault: anything but an error allows.
AllowsUnlessError(r) == IF r = Error THEN "deny" ELSE "allow"

\* Only an allow_once that is not marked as cancelled allows; the code does not
\* ask whether the outcome is "selected".
Allows(r) == r.option = "allow_once" /\ r.outcome # "cancelled"

Settled(r) == IF Allows(r) THEN "allow" ELSE "deny"

ClientAnswers(a, r) ==
    /\ up
    /\ asks[a] = "client"
    /\ said' = [said EXCEPT ![a] = r]
    /\ Decide(a, Settled(r))
    /\ UNCHANGED <<mode, claude, up, turnVars>>

\* Fault: the entry is deleted and nobody is told.
Forgotten(a) == verdict' = verdict /\ asks' = [asks EXCEPT ![a] = "idle"]

DenyOnTimeout(a) == Decide(a, "deny")

PermissionTimesOut(a) ==
    /\ up
    /\ asks[a] = "client"
    /\ DenyOnTimeout(a)
    /\ UNCHANGED <<mode, claude, up, turnVars, said>>

HostAnswers(a, v) ==
    /\ up
    /\ asks[a] = "host"
    /\ Decide(a, v)
    /\ UNCHANGED <<mode, claude, up, turnVars, said>>

\* The continuation of the await in onPermissionRequest.
SendVerdict(a) ==
    /\ up
    /\ asks[a] = "decided"
    /\ asks' = [asks EXCEPT ![a] = "sent"]
    /\ UNCHANGED <<mode, claude, up, turnVars, verdict, said>>

-----------------------------------------------------------------------------

\* Claude's process exits: teardown, then the host's onDown or the exit of
\* the process.
Teardown ==
    /\ up
    /\ claude = "live"
    /\ claude' = "dead"
    /\ up' \in BOOLEAN
    /\ LET asked == {a \in Asks : asks[a] = "client"}
       IN /\ asks' = [a \in Asks |-> IF a \in asked THEN "decided" ELSE asks[a]]
          /\ verdict' = [a \in Asks |-> IF a \in asked THEN "deny" ELSE verdict[a]]
    /\ CloseTurns(turns, "cancelled")
    /\ timers' = Cleared(turns)
    /\ UNCHANGED <<mode, of, applied, said>>

Next ==
    \/ \E p \in Prompts, s \in Sessions : StartTurn(p, s)
    \/ \E t \in turns : Cancel(t)
    \/ \E m \in timers : TimePasses(m) \/ TimerFires(m)
    \/ \E s \in Sessions : GraceEnds(s)
    \/ \E p \in Prompts, tag \in Sessions, t \in turns : Say(p, tag, t) \/ Finish(p, tag, t)
    \/ \E a \in Asks : PermissionRequest(a) \/ PermissionTimesOut(a) \/ SendVerdict(a)
    \/ \E a \in Asks, r \in Outcome : ClientAnswers(a, r)
    \/ \E a \in Asks, v \in {"allow", "deny"} : HostAnswers(a, v)
    \/ Teardown

Spec == Init /\ [][Next]_vars

\* Time passes, timers fire and awaits go on.  Nothing is assumed of Claude, of
\* the client or of the host's callback.
FairSpec ==
    /\ Spec
    /\ \A m \in Timer : WF_vars(TimePasses(m)) /\ WF_vars(TimerFires(m))
    /\ \A a \in Asks : WF_vars(PermissionTimesOut(a)) /\ WF_vars(SendVerdict(a))

-----------------------------------------------------------------------------
(* What should hold.                                                       *)

\* Every variable has the values the code gives it; a session has one open
\* turn, which is of an unanswered prompt of that session.
TypeOK ==
    /\ mode \in {"allow", "deny", "delegate", "host"}
    /\ claude \in {"live", "dead"}
    /\ up \in BOOLEAN
    /\ of \in [Prompts -> Sessions \cup {None}]
    /\ answer \in [Prompts -> {None, "end_turn", "cancelled"}]
    /\ turns \subseteq Turn
    /\ \A t \in turns : of[t.id] = t.session /\ answer[t.id] = None
    /\ \A t, u \in turns : t.session = u.session => t = u
    /\ timers \subseteq Timer
    /\ aged \subseteq timers
    /\ recentlyClosed \subseteq Sessions
    /\ applied \in Call \cup {None}
    /\ asks \in [Asks -> {"idle", "client", "host", "decided", "sent"}]
    /\ verdict \in [Asks -> {None, "allow", "deny"}]
    /\ said \in [Asks -> Outcome \cup {None}]

\* The armed timers are those of the open turns, one each: timers close by
\* session (acp-facade.mjs:295, 333), so one that outlives its turn through a
\* close, a cancel or a re-prompt would close a later turn of the session.
TimersMatchTurns == timers = {TimerOf(t) : t \in turns}

\* A tool call for a task whose own turn is still open reaches that turn
\* (acp-facade.mjs:23-28), unless Claude tags it wrongly while several are open.
OwnTurn ==
    [][applied' # applied =>
         \/ applied'.turn = applied'.task
         \/ answer[applied'.task] # None
         \/ applied'.tag # of[applied'.task] /\ Cardinality(turns) > 1]_vars

\* A turn the client has cancelled is answered "cancelled", by the finish, by
\* the short timer or by the teardown (acp-facade.mjs:286-290), unless the
\* client itself prompts over it.
CancelAnswered ==
    [][\A t \in turns : t.cancelRequested /\ answer'[t.id] # None
          => answer'[t.id] = "cancelled" \/ \E u \in turns' : u.session = t.session]_vars

\* When the client decides, whether or not the host has a callback, Claude is
\* told "allow" only if the client chose allow_once for that request and did not
\* dismiss it (acp-facade.mjs:149-155): no timeout, error or teardown allows.
AllowMeansAsked ==
    [][\A a \in Asks :
         /\ asks[a] = "client" \/ mode = "delegate"
         /\ verdict'[a] # verdict[a]
         /\ verdict'[a] = "allow"
         => said'[a] # None /\ Allows(said'[a])]_vars

\* The client cancels a turn it has cancelled before, some time after.
CancelsAgain(p) ==
    \E t \in turns : t.id = p /\ t.cancelRequested /\ TimerOf(t) \in aged /\ Cancel(t)

\* Every prompt is answered, whatever Claude does (acp-facade.mjs:327-334),
\* unless the client cancels it again and again without end: each cancel sets
\* the timer of five seconds anew (acp-facade.mjs:292-296), so a client that
\* sends one more often than that postpones its answer itself.
EveryPromptAnswered ==
    \A p \in Prompts :
        \/ of[p] # None ~> answer[p] # None
        \/ []<><<CancelsAgain(p)>>_vars

\* Every permission request put to the client or decided gets its verdict
\* (acp-facade.mjs:153-155).
EveryAskAnswered ==
    \A a \in Asks : asks[a] \in {"client", "decided"} ~> (asks[a] = "sent" \/ ~up)

\* Nobody waits for ever: neither the client for its turn nor Claude for a
\* verdict.
EveryoneAnswered == EveryPromptAnswered /\ EveryAskAnswered

=============================================================================

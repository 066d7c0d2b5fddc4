----------------------------- MODULE ChannelHost -----------------------------
(***************************************************************************)
(* The host of channels-kit around its facade: the socket on which channel *)
(* servers dial in (transports.mjs), the live Claude and the confirmation  *)
(* that is typed to it (lifecycle.mjs), and their end (index.mjs).         *)
(*                                                                         *)
(* The host is one JavaScript thread: an action is a whole callback.  Of   *)
(* the facade there is what the host needs: a prompt opens a turn and      *)
(* pushes its task, and a finish closes the turn it is for.  Which turn    *)
(* that is, its timers and the permission requests are ChannelsFacade's.   *)
(* A line from a server arrives in two pieces; a line to it arrives whole. *)
(***************************************************************************)
EXTENDS Naturals, Sequences, SequencesExt

CONSTANTS
    Servers,      \* channel servers, each a process that dials once
    Prompts,      \* a task is named by its prompt
    None

ASSUME NoneAssumption == None \notin Servers \cup Prompts

VARIABLES
    host,         \* the host process
    embedded,     \* its embedder passes onDown and calls close
    turn,         \* the turn of each prompt; "late" if it began after Claude's end
    \* facadeUnixServer
    listening,
    outbox,
    conn,
    sock,         \* the host's end of each connection
    buf,          \* what was read of a line, per connection
    \* what the kernel holds
    toSrv,
    toHost,
    \* the channel servers and Claude
    srv,
    got,          \* the tasks that were put to Claude through it
    called,       \* the tasks Claude has called finish for
    claude,
    exitSeen,     \* onExit was called
    \* spawnClaudeChannels
    confirmed,
    fallback,     \* the 4 s timer is armed
    typing,       \* the 250 ms timer is armed
    keys,         \* how often "1\r" was typed
    late          \* it was typed after onExit

busVars     == <<listening, outbox, conn, sock>>
lineVars    == <<buf, toSrv, toHost>>
serverVars  == <<srv, got, called>>
confirmVars == <<confirmed, fallback, typing, keys, late>>
vars == <<host, embedded, turn, busVars, lineVars, serverVars, claude, exitSeen, confirmVars>>

Piece == [of : Prompts, part : {"first", "last"}]

\* The line of a finish.
Line(p) == <<[of |-> p, part |-> "first"], [of |-> p, part |-> "last"]>>

Init ==
    /\ host = "up"
    /\ embedded \in BOOLEAN
    /\ turn = [p \in Prompts |-> "idle"]
    /\ listening = TRUE
    /\ outbox = <<>>
    /\ conn = None
    /\ sock = [s \in Servers |-> "none"]
    /\ buf = [s \in Servers |-> <<>>]
    /\ toSrv = [s \in Servers |-> <<>>]
    /\ toHost = [s \in Servers |-> <<>>]
    /\ srv = [s \in Servers |-> "off"]
    /\ got = [s \in Servers |-> {}]
    /\ called = {}
    /\ claude = "live"
    /\ exitSeen = FALSE
    /\ confirmed = FALSE
    /\ fallback = TRUE
    /\ typing = FALSE
    /\ keys = 0
    /\ late = FALSE

Up == host = "up"

-----------------------------------------------------------------------------
(* The host's side of the bus.                                             *)

\* session/prompt: the turn opens and its task is pushed.  A write to a
\* connection that was destroyed goes nowhere.
Prompt(p) ==
    /\ Up
    /\ turn[p] = "idle"
    /\ turn' = [turn EXCEPT ![p] = IF exitSeen THEN "late" ELSE "open"]
    /\ IF conn = None
       THEN outbox' = Append(outbox, p) /\ UNCHANGED toSrv
       ELSE /\ outbox' = <<>>
            /\ toSrv' = IF sock[conn] = "open"
                        THEN [toSrv EXCEPT ![conn] = @ \o Append(outbox, p)] ELSE toSrv
    /\ UNCHANGED <<host, embedded, listening, conn, sock, buf, toHost, serverVars, claude,
                   exitSeen, confirmVars>>

\* Fault: only send flushes.
NothingFlushed == <<>>

Flushed == outbox

\* A server was accepted: it replaces the one before it.
Adopt(s) ==
    /\ Up /\ listening
    /\ srv[s] # "off"
    /\ sock[s] = "none"
    /\ sock' = [x \in Servers |-> IF x = s THEN "open"
                                  ELSE IF x = conn THEN "destroyed" ELSE sock[x]]
    /\ conn' = s
    /\ toSrv' = [toSrv EXCEPT ![s] = @ \o Flushed]
    /\ outbox' = SubSeq(outbox, Len(Flushed) + 1, Len(outbox))
    /\ UNCHANGED <<host, embedded, turn, listening, buf, toHost, serverVars, claude, exitSeen,
                   confirmVars>>

\* Fault: the buffer is not the connection's own.
SharedBuffer(s, pieces) == [x \in Servers |-> pieces]

Buffered(s, pieces) == [buf EXCEPT ![s] = pieces]

\* The last piece completes a line; one that does not parse is dropped.
ReadPiece(s) ==
    /\ Up
    /\ sock[s] = "open"
    /\ toHost[s] # <<>>
    /\ LET piece == Head(toHost[s])
           line  == Append(buf[s], piece)
       IN  IF piece.part = "first"
           THEN buf' = Buffered(s, line) /\ UNCHANGED turn
           ELSE /\ buf' = Buffered(s, <<>>)
                /\ turn' = IF line = Line(piece.of) /\ turn[piece.of] = "open"
                           THEN [turn EXCEPT ![piece.of] = "answered"] ELSE turn
    /\ toHost' = [toHost EXCEPT ![s] = Tail(@)]
    /\ UNCHANGED <<host, embedded, busVars, toSrv, serverVars, claude, exitSeen, confirmVars>>

\* Fault: any connection's close blanks conn.
AnyClose(s) == TRUE

IsCurrent(s) == conn = s

\* The close event, of a connection that was destroyed or that the server left.
Closed(s) ==
    /\ Up
    /\ \/ sock[s] = "destroyed"
       \/ sock[s] = "open" /\ srv[s] = "gone" /\ toHost[s] = <<>>
    /\ sock' = [sock EXCEPT ![s] = "closed"]
    /\ conn' = IF IsCurrent(s) THEN None ELSE conn
    /\ UNCHANGED <<host, embedded, turn, listening, outbox, lineVars, serverVars, claude,
                   exitSeen, confirmVars>>

\* The process ends; Claude's terminal goes with it.
Leave(how) ==
    /\ host' = how
    /\ fallback' = FALSE
    /\ typing' = FALSE

\* The server left what was written to it unread, or was gone when it was
\* written: ECONNRESET or EPIPE, and the connection has no 'error' handler.
SocketError(s) ==
    /\ Up
    /\ sock[s] = "open" /\ srv[s] = "gone" /\ toSrv[s] # <<>>
    /\ Leave("crashed")
    /\ UNCHANGED <<embedded, turn, busVars, lineVars, serverVars, claude, exitSeen,
                   confirmed, keys, late>>

-----------------------------------------------------------------------------
(* Channel servers: serverUnixClient, and the MCP server between it and    *)
(* Claude.                                                                 *)

Dial(s) ==
    /\ Up /\ listening
    /\ claude = "live"
    /\ srv[s] = "off"
    /\ srv' = [srv EXCEPT ![s] = "up"]
    /\ UNCHANGED <<host, embedded, turn, busVars, lineVars, got, called, claude,
                   exitSeen, confirmVars>>

\* onPush: the task is put to Claude.
Receive(s) ==
    /\ srv[s] = "up"
    /\ toSrv[s] # <<>>
    /\ got' = [got EXCEPT ![s] = @ \cup {Head(toSrv[s])}]
    /\ toSrv' = [toSrv EXCEPT ![s] = Tail(@)]
    /\ UNCHANGED <<host, embedded, turn, busVars, buf, toHost, srv, called, claude, exitSeen,
                   confirmVars>>

\* Claude calls finish, once for a task.  What a server writes to a connection
\* that is gone is lost; the handler left from its dialling takes the error.
Finish(s, p) ==
    /\ claude = "live"
    /\ srv[s] = "up"
    /\ p \in got[s] \ called
    /\ called' = called \cup {p}
    /\ toHost' = IF Up /\ sock[s] \in {"none", "open"}
                 THEN [toHost EXCEPT ![s] = @ \o Line(p)] ELSE toHost
    /\ UNCHANGED <<host, embedded, turn, busVars, buf, toSrv, srv, got, claude,
                   exitSeen, confirmVars>>

ServerEnds(s) ==
    /\ srv[s] = "up"
    /\ srv' = [srv EXCEPT ![s] = "gone"]
    /\ UNCHANGED <<host, embedded, turn, busVars, lineVars, got, called, claude,
                   exitSeen, confirmVars>>

-----------------------------------------------------------------------------
(* The confirmation.                                                       *)

\* kill or onExit was called: torn.
Torn == exitSeen \/ ~listening

\* Fault: the picker is matched again in the window.
MatchedAgain == TRUE

Unconfirmed == ~confirmed

\* Fault: the key is left to the timer that was cleared.
NotTyped == FALSE

Typed == TRUE

\* The picker is in the output: its timer is cleared, and the key typed later.
Match ==
    /\ Up /\ ~exitSeen
    /\ Unconfirmed
    /\ confirmed' = TRUE
    /\ fallback' = FALSE
    /\ typing' = Typed
    /\ UNCHANGED <<host, embedded, turn, busVars, lineVars, serverVars, claude, exitSeen,
                   keys, late>>

FallbackFires ==
    /\ Up /\ fallback
    /\ fallback' = FALSE
    /\ IF confirmed \/ Torn
       THEN UNCHANGED <<confirmed, keys>>
       ELSE confirmed' = TRUE /\ keys' = keys + 1
    /\ UNCHANGED <<host, embedded, turn, busVars, lineVars, serverVars, claude, exitSeen,
                   typing, late>>

\* This timer is neither cleared nor guarded by torn, and nothing catches what
\* write throws once the PTY is gone.
TypeKey ==
    /\ Up /\ typing
    /\ keys' = keys + 1
    /\ late' = (late \/ exitSeen)
    /\ \/ typing' = FALSE /\ UNCHANGED <<host, fallback>>
       \/ exitSeen /\ Leave("crashed")
    /\ UNCHANGED <<embedded, turn, busVars, lineVars, serverVars, claude, exitSeen, confirmed>>

-----------------------------------------------------------------------------
(* The end.                                                                *)

ClaudeExits ==
    /\ claude = "live"
    /\ claude' = "dead"
    /\ UNCHANGED <<host, embedded, turn, busVars, lineVars, serverVars, exitSeen, confirmVars>>

\* Fault: the facade is not torn down.
LeftOpen == turn

\* facade.teardown: every open turn is answered.
TornDown == [p \in Prompts |-> IF turn[p] = "open" THEN "answered" ELSE turn[p]]

\* claude.onExit: then onDown, or close and process.exit.
OnExit ==
    /\ Up /\ claude = "dead" /\ ~exitSeen
    /\ exitSeen' = TRUE
    /\ turn' = TornDown
    /\ IF embedded THEN fallback' = FALSE /\ UNCHANGED <<host, typing>> ELSE Leave("exited")
    /\ UNCHANGED <<embedded, busVars, lineVars, serverVars, claude, confirmed, keys, late>>

\* The embedder calls close: Claude is signalled.
Close ==
    /\ Up /\ embedded /\ listening
    /\ listening' = FALSE
    /\ fallback' = FALSE
    /\ sock' = [x \in Servers |-> IF x = conn THEN "destroyed" ELSE sock[x]]
    /\ UNCHANGED <<host, embedded, turn, outbox, conn, lineVars, serverVars, claude, exitSeen,
                   confirmed, typing, keys, late>>

\* onSignal: close and process.exit; the facade is not torn down.
Signal ==
    /\ Up
    /\ Leave("signalled")
    /\ UNCHANGED <<embedded, turn, busVars, lineVars, serverVars, claude, exitSeen,
                   confirmed, keys, late>>

-----------------------------------------------------------------------------

HostStep == FallbackFires \/ TypeKey \/ OnExit

ConnStep(s) == Adopt(s) \/ ReadPiece(s) \/ Closed(s) \/ SocketError(s)

Next ==
    \/ HostStep \/ Match \/ ClaudeExits \/ Close \/ Signal
    \/ \E p \in Prompts : Prompt(p)
    \/ \E s \in Servers : \/ ConnStep(s) \/ Dial(s) \/ Receive(s) \/ ServerEnds(s)
                          \/ \E p \in Prompts : Finish(s, p)

Spec == Init /\ [][Next]_vars

\* The event loop gets to every callback that is due, a server reads, and a
\* live Claude starts the servers there are.  Nobody need prompt, call a tool,
\* die or be killed.
FairSpec ==
    /\ Spec
    /\ WF_vars(FallbackFires) /\ WF_vars(TypeKey) /\ WF_vars(OnExit)
    /\ \A s \in Servers : WF_vars(ConnStep(s)) /\ WF_vars(Dial(s)) /\ WF_vars(Receive(s))

-----------------------------------------------------------------------------
(* What should hold.                                                       *)

\* Every variable has the values the code gives it, and a connection that was
\* not accepted holds nothing of the host's.
TypeOK ==
    /\ host \in {"up", "exited", "crashed", "signalled"}
    /\ embedded \in BOOLEAN /\ listening \in BOOLEAN /\ exitSeen \in BOOLEAN
    /\ turn \in [Prompts -> {"idle", "open", "late", "answered"}]
    /\ outbox \in Seq(Prompts)
    /\ conn \in Servers \cup {None}
    /\ sock \in [Servers -> {"none", "open", "destroyed", "closed"}]
    /\ buf \in [Servers -> Seq(Piece)]
    /\ toSrv \in [Servers -> Seq(Prompts)]
    /\ toHost \in [Servers -> Seq(Piece)]
    /\ srv \in [Servers -> {"off", "up", "gone"}]
    /\ got \in [Servers -> SUBSET Prompts] /\ called \subseteq Prompts
    /\ claude \in {"live", "dead"}
    /\ confirmed \in BOOLEAN /\ fallback \in BOOLEAN /\ typing \in BOOLEAN /\ late \in BOOLEAN
    /\ keys \in Nat
    /\ \A s \in Servers : sock[s] = "none" => toSrv[s] = <<>> /\ buf[s] = <<>>

\* One connection is live (audit C5, transports.mjs:87-115): of all servers that
\* ever dialled in, in whatever order their closes arrive, the one that is open
\* is the one that is written to, and nothing waits while there is one.
OneConnection ==
    /\ \A s \in Servers : sock[s] = "open" => conn = s
    /\ conn # None => outbox = <<>>

\* What is sent arrives, in both directions (transports.mjs:76-110): a task that
\* is pushed, before a server dialled in or after, and a finish, whatever half
\* lines other connections ended in.  What may lose them is the end of the
\* connection they were written to; that of the host, or its close; and that no
\* server is left.
LinesArrive ==
    \A p \in Prompts :
        /\ turn[p] = "open" ~>
              \/ \E s \in Servers : p \in got[s] \/ (p \in Range(toSrv[s]) /\ srv[s] = "gone")
              \/ ~Up \/ ~listening \/ claude = "dead" \/ turn[p] = "answered"
              \/ \A s \in Servers : srv[s] = "gone" \/ sock[s] \in {"destroyed", "closed"}
        /\ \A s \in Servers :
              (\E i \in 1 .. Len(toHost[s]) : toHost[s][i].of = p /\ sock[s] = "open") ~>
                  (turn[p] # "open" \/ ~Up \/ sock[s] # "open")

\* Claude's end answers every turn that is open (audits B1, B2,
\* index.mjs:105-126), however much of its answer was still on its way.  Three
\* ends of the host come before it: a signal, a socket error, a late key.
TurnsAnswered ==
    \A p \in Prompts :
        claude = "dead" /\ turn[p] = "open" ~>
            turn[p] = "answered" \/ host \in {"signalled", "crashed"}

\* The picker is confirmed at most once (lifecycle.mjs:69-110), whichever of its
\* output, the 4 s timer and Claude's end comes first; a host that leaves with
\* Claude types nothing into a PTY that has exited.
TypedOnce == keys <= 1 /\ (late => embedded)

\* And it is confirmed, unless its end or the host's comes first.
ConfirmedOnce == []TypedOnce /\ <>(keys = 1 \/ Torn \/ ~Up)

=============================================================================

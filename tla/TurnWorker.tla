---------------------------- MODULE TurnWorker ----------------------------
(***************************************************************************)
(* The request/reply daemon (src/src/daemon.rs): connection handlers queue *)
(* jobs for one worker, which drives the claude process a turn at a time.  *)
(* A turn that times out leaves its result on the stream; the worker must  *)
(* consume it before it may write the next turn.                           *)
(*                                                                         *)
(* A client makes one request, and a turn is named by its client.  A line  *)
(* of claude's output comes in two pieces, because read_line may be        *)
(* dropped between two reads of the pipe and loses what it has read.  Of a *)
(* turn's events only the first, which names the session, and the result   *)
(* matter.  What claude writes is UTF-8: a line that is not would end the  *)
(* turn with an error and leave the rest of it on the stream.              *)
(***************************************************************************)
EXTENDS Naturals, Sequences, FiniteSets

CONSTANTS
    Clients,
    Silent,       \* clients that may never send their request or read its reply
    Big,          \* requests that do not fit into claude's stdin pipe
    JobCap,       \* jobs the channel holds (64 in the code)
    Mortal,       \* TRUE if claude may die
    None

ASSUME ClientsAssumption == /\ Silent \subseteq Clients /\ Big \subseteq Clients
                            /\ Clients \cap {None, "idle", "dead", "error"} = {}
ASSUME JobCapAssumption == JobCap \in Nat \ {0}
ASSUME MortalAssumption == Mortal \in BOOLEAN

VARIABLES
    main,         \* run_up: accepting, tearing down, down
    handler,      \* handle_conn, per client
    reply,        \* what each client is answered: the turn the text is of, or "error"
    jobs,         \* the mpsc queue
    worker,       \* worker_loop
    job,          \* the turn it serves
    owesResult,
    held,         \* the piece of a line that read_line has and has not returned
    known,        \* session_id is set in the worker
    saved,        \* and in the state file
    \* claude
    claude,       \* idle, the turn it works on, or dead
    named,        \* claude has written this turn's first event
    stdin,        \* turns written and not read
    stdout        \* pieces written and not read

frontVars  == <<handler, reply, jobs>>
streamVars == <<held, stdout>>
idVars     == <<known, saved>>
claudeVars == <<claude, named, stdin>>
vars == <<main, frontVars, worker, job, owesResult, streamVars, idVars, claudeVars>>

Piece == [turn : Clients, event : {"init", "result"}, part : {"head", "tail"}]

Init ==
    /\ main = "accept"
    /\ handler = [c \in Clients |-> "off"]
    /\ reply = [c \in Clients |-> None]
    /\ jobs = <<>>
    /\ worker = "recv"
    /\ job = None
    /\ owesResult = FALSE
    /\ held = None
    /\ known = FALSE
    /\ saved = FALSE
    /\ claude = "idle"
    /\ named = FALSE
    /\ stdin = <<>>
    /\ stdout = <<>>

-----------------------------------------------------------------------------
(* run_accept_loop and the teardown in run_up.                             *)

Accept(c) ==
    /\ main = "accept"
    /\ handler[c] = "off"
    /\ handler' = [handler EXCEPT ![c] = "read"]
    /\ UNCHANGED <<main, reply, jobs, worker, job, owesResult, streamVars, idVars, claudeVars>>

\* A signal, or the child's exit: the loop returns and job_tx is dropped.
BeginTeardown ==
    /\ main = "accept"
    /\ main' = "teardown"
    /\ UNCHANGED <<frontVars, worker, job, owesResult, streamVars, idVars, claudeVars>>

\* worker.await returned: kill claude, remove the socket and the state file.
\* The process exits, and the handlers that are left go with it.
EndTeardown ==
    /\ main = "teardown"
    /\ worker = "gone"
    /\ main' = "down"
    /\ claude' = "dead"
    /\ UNCHANGED <<frontVars, worker, job, owesResult, streamVars, idVars, named, stdin>>

-----------------------------------------------------------------------------
(* handle_conn: it keeps its clone of job_tx until it returns.             *)

SendRequest(c) ==
    /\ handler[c] = "read"
    /\ handler' = [handler EXCEPT ![c] = "send"]
    /\ UNCHANGED <<main, reply, jobs, worker, job, owesResult, streamVars, idVars, claudeVars>>

HangUp(c) ==
    /\ handler[c] = "read"
    /\ handler' = [handler EXCEPT ![c] = "done"]
    /\ UNCHANGED <<main, reply, jobs, worker, job, owesResult, streamVars, idVars, claudeVars>>

QueueJob(c) ==
    /\ main # "down"
    /\ handler[c] = "send"
    /\ worker # "gone"
    /\ Len(jobs) < JobCap
    /\ jobs' = Append(jobs, c)
    /\ handler' = [handler EXCEPT ![c] = "await"]
    /\ UNCHANGED <<main, reply, worker, job, owesResult, streamVars, idVars, claudeVars>>

WorkerGone(c) ==
    /\ main # "down"
    /\ handler[c] = "send"
    /\ worker = "gone"
    /\ reply' = [reply EXCEPT ![c] = "error"]
    /\ handler' = [handler EXCEPT ![c] = "write"]
    /\ UNCHANGED <<main, jobs, worker, job, owesResult, streamVars, idVars, claudeVars>>

\* The reply is there, or its sender was dropped with the queue: it is written.
ReturnReply(c) ==
    /\ main # "down"
    /\ handler[c] = "await"
    /\ \/ reply[c] # None /\ UNCHANGED reply
       \/ /\ reply[c] = None
          /\ worker = "gone"
          /\ reply' = [reply EXCEPT ![c] = "error"]
    /\ handler' = [handler EXCEPT ![c] = "write"]
    /\ UNCHANGED <<main, jobs, worker, job, owesResult, streamVars, idVars, claudeVars>>

\* write_all has returned, or failed on a client that is gone.
ReplySent(c) ==
    /\ main # "down"
    /\ handler[c] = "write"
    /\ handler' = [handler EXCEPT ![c] = "done"]
    /\ UNCHANGED <<main, reply, jobs, worker, job, owesResult, streamVars, idVars, claudeVars>>

\* The text of a turn may not fit into the socket; an error does.
Read(c) == c \notin Silent \/ reply[c] = "error"

Handler(c) == QueueJob(c) \/ WorkerGone(c) \/ ReturnReply(c) \/ ReplySent(c)

-----------------------------------------------------------------------------
(* worker_loop.                                                            *)

\* Fault: a turn is written though the result of the last one is pending.
StartsAnyway == "write"

AfterRecv == IF owesResult THEN "drain" ELSE "write"

RecvJob ==
    /\ worker = "recv"
    /\ jobs # <<>>
    /\ job' = Head(jobs)
    /\ jobs' = Tail(jobs)
    /\ worker' = AfterRecv
    /\ UNCHANGED <<main, handler, reply, owesResult, streamVars, idVars, claudeVars>>

\* Every sender is gone: main's, and those of the handlers.
AllSendersDropped == main # "accept" /\ \A c \in Clients : handler[c] \in {"off", "done"}

QueueClosed ==
    /\ worker = "recv"
    /\ jobs = <<>>
    /\ AllSendersDropped
    /\ worker' = "gone"
    /\ UNCHANGED <<main, frontVars, job, owesResult, streamVars, idVars, claudeVars>>

\* write_all of a line that fits into the pipe.
WriteTurn ==
    /\ worker = "write"
    /\ claude # "dead"
    /\ job \notin Big
    /\ stdin' = Append(stdin, job)
    /\ worker' = "turn"
    /\ UNCHANGED <<main, frontVars, job, owesResult, streamVars, idVars, claude, named>>

\* A line that does not fit: write_all returns once claude has read it, and
\* no timeout covers the wait.
WriteBigTurn ==
    /\ worker = "write"
    /\ job \in Big
    /\ claude = "idle"
    /\ stdin = <<>>
    /\ claude' = job
    /\ named' = FALSE
    /\ worker' = "turn"
    /\ UNCHANGED <<main, frontVars, job, owesResult, streamVars, idVars, stdin>>

\* Fault: the job is answered and kept.
KeepsJob(what) ==
    /\ reply' = [reply EXCEPT ![job] = what]
    /\ worker' = "recv"
    /\ job' = job

\* The job is answered and the worker takes the next.
Answer(what) ==
    /\ reply' = [reply EXCEPT ![job] = what]
    /\ worker' = "recv"
    /\ job' = None

WriteTurnFails ==
    /\ worker = "write"
    /\ claude = "dead"
    /\ Answer("error")
    /\ UNCHANGED <<main, handler, jobs, owesResult, streamVars, idVars, claudeVars>>

Reading == worker \in {"turn", "drain"}

\* read_line is dropped with the buffer it was filling.
DropsPiece == None

\* Fault: the turn is over, whatever is still to come.
ForgetsResult == FALSE

OwesAfterTimeout == TRUE

\* timeout_ms is over, wherever read_until_result is.
TurnTimesOut ==
    /\ worker \in {"turn", "turn-saving"}
    /\ Answer("error")
    /\ owesResult' = OwesAfterTimeout
    /\ held' = DropsPiece
    /\ UNCHANGED <<main, handler, jobs, stdout, idVars, claudeVars>>

\* Fault: a drain that failed is begun again.
DrainsAgain == /\ worker' = "drain"
               /\ UNCHANGED <<job, reply>>

\* The stream is unrecoverable: fail this job and leave the loop; the queue
\* goes with it.
LeaveLoop == /\ worker' = "gone"
             /\ job' = None
             /\ reply' = [reply EXCEPT ![job] = "error"]

\* Fault: a drain takes as long as claude does.
Unbounded == FALSE

\* 120 s of draining are over.
CapReached == worker \in {"drain", "drain-saving"}

DrainTimesOut ==
    /\ CapReached
    /\ LeaveLoop
    /\ owesResult' = FALSE
    /\ held' = DropsPiece
    /\ UNCHANGED <<main, handler, jobs, stdout, idVars, claudeVars>>

ReadEof ==
    /\ Reading
    /\ claude = "dead"
    /\ stdout = <<>>
    /\ held' = None
    /\ IF worker = "turn" THEN Answer("error") ELSE LeaveLoop
    /\ owesResult' = FALSE
    /\ UNCHANGED <<main, handler, jobs, stdout, idVars, claudeVars>>

\* What becomes of an event: only the result ends read_until_result.
Handle(p) ==
    \/ /\ p.event = "init"
       /\ worker' = IF worker \in {"turn", "turn-saving"} THEN "turn" ELSE "drain"
       /\ UNCHANGED <<job, reply, owesResult>>
    \/ /\ p.event = "result"
       /\ worker \in {"turn", "turn-saving"}
       /\ Answer(p.turn)
       /\ UNCHANGED owesResult
    \/ /\ p.event = "result"
       /\ worker \in {"drain", "drain-saving"}
       /\ worker' = "write"
       /\ owesResult' = FALSE
       /\ UNCHANGED <<job, reply>>

\* A new session id is stored, and then the state file is written: an await.
BeginSave ==
    /\ known' = TRUE
    /\ worker' = IF worker = "turn" THEN "turn-saving" ELSE "drain-saving"
    /\ UNCHANGED <<job, reply, owesResult>>

\* The first piece of a line is kept; the second ends the line, which is no
\* JSON if the first was lost.
ReadPiece ==
    /\ Reading
    /\ stdout # <<>>
    /\ stdout' = Tail(stdout)
    /\ LET p == Head(stdout)
       IN \/ /\ p.part = "head"
             /\ held' = p
             /\ UNCHANGED <<worker, job, reply, owesResult, known>>
          \/ /\ p.part = "tail"
             /\ held = None
             /\ UNCHANGED <<held, worker, job, reply, owesResult, known>>
          \/ /\ p.part = "tail"
             /\ held # None
             /\ ~known
             /\ held' = p
             /\ BeginSave
          \/ /\ p.part = "tail"
             /\ held # None
             /\ known
             /\ held' = None
             /\ Handle(p)
             /\ UNCHANGED known
    /\ UNCHANGED <<main, handler, jobs, saved, claudeVars>>

\* persist_session_id has returned; the event it was read from comes next.
EndSave ==
    /\ worker \in {"turn-saving", "drain-saving"}
    /\ saved' = TRUE
    /\ held' = None
    /\ Handle(held)
    /\ UNCHANGED <<main, handler, jobs, stdout, known, claudeVars>>

Worker == \/ RecvJob \/ QueueClosed \/ WriteTurn \/ WriteTurnFails \/ TurnTimesOut
          \/ DrainTimesOut \/ ReadEof \/ ReadPiece \/ EndSave

-----------------------------------------------------------------------------
(* The claude process.                                                     *)

ClaudeReads ==
    /\ claude = "idle"
    /\ stdin # <<>>
    /\ claude' = Head(stdin)
    /\ stdin' = Tail(stdin)
    /\ named' = FALSE
    /\ UNCHANGED <<main, frontVars, worker, job, owesResult, streamVars, idVars>>

Line(c, event) == << [turn |-> c, event |-> event, part |-> "head"],
                     [turn |-> c, event |-> event, part |-> "tail"] >>

ClaudeNamesSession ==
    /\ claude \in Clients
    /\ ~named
    /\ named' = TRUE
    /\ stdout' = stdout \o Line(claude, "init")
    /\ UNCHANGED <<main, frontVars, worker, job, owesResult, held, idVars, claude, stdin>>

ClaudeFinishes ==
    /\ claude \in Clients
    /\ named
    /\ claude' = "idle"
    /\ stdout' = stdout \o Line(claude, "result")
    /\ UNCHANGED <<main, frontVars, worker, job, owesResult, held, idVars, named, stdin>>

ClaudeDies ==
    /\ Mortal
    /\ claude # "dead"
    /\ claude' = "dead"
    /\ UNCHANGED <<main, frontVars, worker, job, owesResult, streamVars, idVars, named, stdin>>

Claude == WriteBigTurn \/ ClaudeReads \/ ClaudeNamesSession \/ ClaudeFinishes \/ ClaudeDies

-----------------------------------------------------------------------------

Next == \/ \E c \in Clients : Accept(c) \/ SendRequest(c) \/ HangUp(c) \/ Handler(c)
        \/ BeginTeardown \/ EndTeardown
        \/ Worker
        \/ Claude

Spec == Init /\ [][Next]_vars

\* The runtime polls every task that can go on and timers fire; main sees the
\* exit of claude.  Clients that are not silent send or hang up, and read what
\* they are answered.  Nothing is assumed of claude.
FairSpec ==
    /\ Spec
    /\ WF_vars(Worker)
    /\ WF_vars(EndTeardown)
    /\ WF_vars(BeginTeardown /\ claude = "dead")
    /\ \A c \in Clients : /\ WF_vars(QueueJob(c) \/ WorkerGone(c) \/ ReturnReply(c))
                          /\ WF_vars(Read(c) /\ ReplySent(c))
    /\ \A c \in Clients \ Silent : WF_vars(SendRequest(c) \/ HangUp(c))

-----------------------------------------------------------------------------
(* What should hold.                                                       *)

\* Every variable has the values the code gives it; the worker has a job
\* exactly while it serves one.
TypeOK ==
    /\ main \in {"accept", "teardown", "down"}
    /\ handler \in [Clients -> {"off", "read", "send", "await", "write", "done"}]
    /\ reply \in [Clients -> Clients \cup {None, "error"}]
    /\ jobs \in Seq(Clients) /\ Len(jobs) <= JobCap
    /\ worker \in {"recv", "drain", "drain-saving", "write", "turn", "turn-saving", "gone"}
    /\ job \in Clients \cup {None}
    /\ job = None <=> worker \in {"recv", "gone"}
    /\ owesResult \in BOOLEAN
    /\ held \in Piece \cup {None}
    /\ known \in BOOLEAN
    /\ saved \in BOOLEAN
    /\ claude \in Clients \cup {"idle", "dead"}
    /\ named \in BOOLEAN
    /\ stdin \in Seq(Clients)
    /\ stdout \in Seq(Piece)

\* A client is given the text of its own turn or an error, never the late
\* result of a turn before it (daemon.rs:232-237, README.md:192-194).
OwnReply == \A c \in Clients : reply[c] \in Clients => reply[c] = c

\* A turn is written when nothing of an earlier one is still to come
\* (daemon.rs:4-7): otherwise replies would interleave.
OneTurnAtATime ==
    worker = "write" /\ claude # "dead" => claude = "idle" /\ stdin = <<>> /\ stdout = <<>>

\* write_all waits for a claude that does not read; timeout_ms covers the
\* reads only (daemon.rs:311-343).
WriteBlocked == worker = "write" /\ job \in Big /\ claude # "dead"

\* A connection that sends no request, or does not read a reply, keeps its clone
\* of job_tx (daemon.rs:124, 465).
SenderKept == \E c \in Silent : handler[c] \in {"read", "write"}

\* Every request that was sent is answered, whatever claude does: the reads
\* are bounded by timeout_ms and by the cap of the drain (daemon.rs:242-275).
\* The one exception is a worker that is left in write_all for good.  A silent
\* client's reply is written as far as it reads it.
EveryRequestAnswered ==
    \/ <>[]WriteBlocked
    \/ \A c \in Clients :
           handler[c] \in {"send", "await"} ~>
               \/ handler[c] = "done" \/ main = "down"
               \/ c \in Silent /\ handler[c] = "write"

\* Dropping the queue ends the worker, and the daemon goes down
\* (daemon.rs:99-106), also with requests queued and a wedged claude.  What
\* keeps it up for good is a blocked write or a connection that stays silent or
\* does not read.
TeardownEnds ==
    \/ <>[]WriteBlocked
    \/ <>[]SenderKept
    \/ main = "teardown" ~> main = "down"

-----------------------------------------------------------------------------
(* What the documentation says and the code does not do.                   *)

\* daemon.rs:346-348: the drain fails only if the stream is dead or claude is
\* wedged.  A timeout in the middle of the result line loses the line
\* (daemon.rs:326-327, 373-377), and no drain finds it again.
FailedDrainMeansWedged ==
    [][(worker = "drain" /\ worker' = "gone" /\ claude = "idle")
          => (stdin # <<>> \/ stdout # <<>>)]_vars

=============================================================================

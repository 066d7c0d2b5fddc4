---------------------------- MODULE SessionFiles ----------------------------
(***************************************************************************)
(* A v1 session from outside: run_up of src/src/daemon.rs, what its worker *)
(* saves, and run_down of src/src/client.rs.  A socket and a state file    *)
(* named after the session are all that these processes know of each       *)
(* other, and each of them looks first and acts later.                     *)
(*                                                                         *)
(* A daemon is one process and is launched once: a restart is the launch   *)
(* of another.  The worker's turns are TurnWorker's business: here it      *)
(* learns the session's id and saves it.  Two writers of the state file do *)
(* not meet inside its temporary file, and no pid is used twice.           *)
(***************************************************************************)
CONSTANTS
    Daemons,
    Downs,        \* down commands, each run once
    Crashing,     \* daemons that may be killed by SIGKILL
    None

ASSUME ProcessAssumption == /\ None \notin Daemons
                            /\ Crashing \subseteq Daemons

VARIABLES
    \* the runtime directory
    sock,         \* whose listener <session>.sock leads to
    state,        \* <session>.state.json: whose pid, and is the session's id there
    \* each daemon
    up,           \* where run_up is
    known,        \* the worker's session_id is Some
    saving,       \* what persist_session_id will write, or that it is to read
    late,         \* what a rename whose await was dropped will write
    held,         \* a connection keeps its clone of job_tx
    sigterm,      \* a SIGTERM is pending
    \* each command
    down,         \* where run_down is
    pid,          \* the daemon it read of
    \* history
    raced,        \* two processes were in their unguarded windows at once
    cut           \* a timeout dropped the worker's save

files   == <<sock, state>>
worker  == <<known, saving, late, held, cut>>
command == <<down, pid>>
vars == <<files, up, worker, sigterm, command, raced>>

Record == [pid : Daemons, id : BOOLEAN]

\* persist_session_id has not read the file yet.
Unread == [pid |-> None, id |-> FALSE]

ASSUME RecordAssumption == None \notin Record \cup {Unread}

Init ==
    /\ sock = None
    /\ state = None
    /\ up = [d \in Daemons |-> "off"]
    /\ known = [d \in Daemons |-> FALSE]
    /\ saving = [d \in Daemons |-> None]
    /\ late = [d \in Daemons |-> None]
    /\ held = [d \in Daemons |-> FALSE]
    /\ sigterm = [d \in Daemons |-> FALSE]
    /\ down = [c \in Downs |-> "idle"]
    /\ pid = [c \in Downs |-> None]
    /\ raced = FALSE
    /\ cut = [d \in Daemons |-> FALSE]

Alive(d) == up[d] \notin {"off", "refused", "failed", "down", "crashed"}

\* The listener is a local of run_up.
Listening(d) == up[d] \in {"bound", "serve", "join", "unlink sock", "unlink state", "exit"}

\* Before the handler is there SIGTERM kills; afterwards it stays pending.
Handles(d) == Listening(d) /\ up[d] # "bound"

Goto(d, where) == up' = [up EXCEPT ![d] = where]

\* The process is gone with its tasks, and claude with it (kill_on_drop, or
\* the end of its stdin).
Exit(d, how) ==
    /\ Goto(d, how)
    /\ known' = [known EXCEPT ![d] = FALSE]
    /\ saving' = [saving EXCEPT ![d] = None]
    /\ late' = [late EXCEPT ![d] = None]
    /\ held' = [held EXCEPT ![d] = FALSE]
    /\ cut' = [cut EXCEPT ![d] = FALSE]
    /\ sigterm' = [sigterm EXCEPT ![d] = FALSE]

-----------------------------------------------------------------------------
(* run_up.                                                                 *)

\* Nothing tells another daemon, or a down that removes files, of q.
Unguarded(q) == Alive(q) /\ sock # q

Cleaning(c) == down[c] \in {"unlink sock", "unlink state"}

\* Fault: a socket that is there is stale.
NobodyAnswers == FALSE

\* A connection to the session's socket succeeds.
SomeoneAnswers == sock # None /\ Listening(sock)

Launch(d) ==
    /\ up[d] = "off"
    /\ IF SomeoneAnswers
       THEN Goto(d, "refused") /\ UNCHANGED raced
       ELSE /\ Goto(d, IF sock = None THEN "spawn" ELSE "clean")
            /\ raced' = (\/ raced
                         \/ \E q \in Daemons \ {d} : Unguarded(q)
                         \/ \E c \in Downs : Cleaning(c))
    /\ UNCHANGED <<files, worker, sigterm, command>>

\* Whatever is there by now is removed.
Clean(d) ==
    /\ up[d] = "clean"
    /\ sock' = None
    /\ Goto(d, "spawn")
    /\ UNCHANGED <<state, worker, sigterm, command, raced>>

\* claude is started, or it is not on the PATH.
SpawnClaude(d) ==
    /\ up[d] = "spawn"
    /\ \/ Goto(d, "write") /\ UNCHANGED <<worker, sigterm>>
       \/ Exit(d, "failed")
    /\ UNCHANGED <<files, command, raced>>

AtStartUp(d) == [pid |-> d, id |-> FALSE]

WriteState(d) ==
    /\ up[d] = "write"
    /\ state' = AtStartUp(d)
    /\ Goto(d, "bind")
    /\ UNCHANGED <<sock, worker, sigterm, command, raced>>

\* bind fails on a path that is there; the state file stays as it is.
Bind(d) ==
    /\ up[d] = "bind"
    /\ IF sock = None
       THEN sock' = d /\ Goto(d, "bound") /\ UNCHANGED <<worker, sigterm>>
       ELSE Exit(d, "failed") /\ UNCHANGED sock
    /\ UNCHANGED <<state, command, raced>>

InstallHandler(d) ==
    /\ up[d] = "bound"
    /\ Goto(d, "serve")
    /\ UNCHANGED <<files, worker, sigterm, command, raced>>

\* Fault: the accept loop selects on SIGINT only.
OnlyInterrupt(d) == FALSE

Told(d) == sigterm[d]

\* accept: the handler has its clone until it returns.
Connect(d) ==
    /\ up[d] = "serve"
    /\ held' = [held EXCEPT ![d] = TRUE]
    /\ UNCHANGED <<files, up, known, saving, late, cut, sigterm, command, raced>>

HandlersReturn(d) ==
    /\ held[d]
    /\ held' = [held EXCEPT ![d] = FALSE]
    /\ UNCHANGED <<files, up, known, saving, late, cut, sigterm, command, raced>>

\* The loop returns: on SIGINT, when claude has exited, and when it is told.
Stop(d) ==
    /\ up[d] = "serve"
    /\ Goto(d, "join")
    /\ UNCHANGED <<files, worker, sigterm, command, raced>>

StopTold(d) == Told(d) /\ Stop(d)

\* Fault: the worker is not waited for.
NotAwaited(d) == TRUE

\* Nobody holds job_tx, and no turn is under way.
WorkerEnded(d) == ~held[d] /\ saving[d] = None

\* The worker is waited for and claude killed.
Join(d) ==
    /\ up[d] = "join"
    /\ WorkerEnded(d)
    /\ Goto(d, "unlink sock")
    /\ UNCHANGED <<files, worker, sigterm, command, raced>>

UnlinkSock(d) ==
    /\ up[d] = "unlink sock"
    /\ sock' = None
    /\ Goto(d, "unlink state")
    /\ UNCHANGED <<state, worker, sigterm, command, raced>>

UnlinkState(d) ==
    /\ up[d] = "unlink state"
    /\ state' = None
    /\ Goto(d, "exit")
    /\ UNCHANGED <<sock, worker, sigterm, command, raced>>

Return(d) ==
    /\ up[d] = "exit"
    /\ Exit(d, "down")
    /\ UNCHANGED <<files, command, raced>>

Crash(d) ==
    /\ d \in Crashing
    /\ Alive(d)
    /\ Exit(d, "crashed")
    /\ UNCHANGED <<files, command, raced>>

UpStep(d) ==
    \/ Clean(d) \/ SpawnClaude(d) \/ WriteState(d) \/ Bind(d) \/ InstallHandler(d)
    \/ StopTold(d) \/ Join(d) \/ UnlinkSock(d) \/ UnlinkState(d) \/ Return(d)

-----------------------------------------------------------------------------
(* persist_session_id, by the worker in the middle of a turn.              *)

\* The id of the first event is new; it is set before it is saved.
LearnId(d) ==
    /\ up[d] \in {"serve", "join"}
    /\ ~known[d]
    /\ known' = [known EXCEPT ![d] = TRUE]
    /\ saving' = [saving EXCEPT ![d] = Unread]
    /\ UNCHANGED <<files, up, late, held, cut, sigterm, command, raced>>

\* Fault: the file is written as it was at start-up.
Unmerged(d) == AtStartUp(d)

\* Fault: a record of its own without its pid.
NoPid(d) == [pid |-> IF state = None THEN None ELSE state.pid, id |-> TRUE]

\* The file's record, or one of its own if there is none, with the id.
Merged(d) == [pid |-> IF state = None THEN d ELSE state.pid, id |-> TRUE]

ReadForSave(d) ==
    /\ saving[d] = Unread
    /\ saving' = [saving EXCEPT ![d] = Merged(d)]
    /\ UNCHANGED <<files, up, known, late, held, cut, sigterm, command, raced>>

WriteSaved(d) ==
    /\ saving[d] \notin {None, Unread}
    /\ state' = saving[d]
    /\ saving' = [saving EXCEPT ![d] = None]
    /\ UNCHANGED <<sock, up, known, late, held, cut, sigterm, command, raced>>

\* The turn's timeout drops the read of its events, and the save with it; a
\* rename that has begun is not undone and nobody waits for it.  The id is
\* known by then: no later event saves it.
TimeoutCutsSave(d) ==
    /\ saving[d] # None
    /\ saving' = [saving EXCEPT ![d] = None]
    /\ \/ UNCHANGED late
       \/ saving[d] # Unread /\ late' = [late EXCEPT ![d] = saving[d]]
    /\ cut' = [cut EXCEPT ![d] = TRUE]
    /\ UNCHANGED <<files, up, known, held, sigterm, command, raced>>

RenameLands(d) ==
    /\ late[d] # None
    /\ state' = late[d]
    /\ late' = [late EXCEPT ![d] = None]
    /\ UNCHANGED <<sock, up, known, saving, held, cut, sigterm, command, raced>>

WorkerStep(d) == ReadForSave(d) \/ WriteSaved(d) \/ RenameLands(d)

-----------------------------------------------------------------------------
(* run_down.                                                               *)

Say(c, what) == down' = [down EXCEPT ![c] = what]

ReadState(c) ==
    /\ down[c] = "idle"
    /\ IF state = None
       THEN Say(c, "no such session") /\ UNCHANGED pid
       ELSE Say(c, "kill") /\ pid' = [pid EXCEPT ![c] = state.pid]
    /\ UNCHANGED <<files, up, worker, sigterm, raced>>

\* SIGTERM to the daemon that was read of.
Kill(c) ==
    /\ down[c] = "kill"
    /\ Alive(pid[c])
    /\ Say(c, "sent")
    /\ IF Handles(pid[c])
       THEN sigterm' = [sigterm EXCEPT ![pid[c]] = TRUE] /\ UNCHANGED <<up, worker>>
       ELSE Exit(pid[c], "crashed")
    /\ UNCHANGED <<files, pid, raced>>

\* It is gone, and nobody asks whether another serves the session.
KillFails(c) ==
    /\ down[c] = "kill"
    /\ ~Alive(pid[c])
    /\ Say(c, "unlink sock")
    /\ raced' = (raced \/ \E q \in Daemons : Alive(q))
    /\ UNCHANGED <<files, up, worker, sigterm, pid>>

RemoveSock(c) ==
    /\ down[c] = "unlink sock"
    /\ sock' = None
    /\ Say(c, "unlink state")
    /\ UNCHANGED <<state, up, worker, sigterm, pid, raced>>

RemoveState(c) ==
    /\ down[c] = "unlink state"
    /\ state' = None
    /\ Say(c, "cleaned up")
    /\ UNCHANGED <<sock, up, worker, sigterm, pid, raced>>

DownStep(c) == Kill(c) \/ KillFails(c) \/ RemoveSock(c) \/ RemoveState(c)

-----------------------------------------------------------------------------

Next == \/ \E d \in Daemons : \/ Launch(d) \/ UpStep(d) \/ Stop(d) \/ Crash(d)
                              \/ Connect(d) \/ HandlersReturn(d)
                              \/ LearnId(d) \/ WorkerStep(d) \/ TimeoutCutsSave(d)
        \/ \E c \in Downs : ReadState(c) \/ DownStep(c)

Spec == Init /\ [][Next]_vars

\* A process that is there goes on.  Nobody need launch a daemon, run a
\* command, end claude, or close a connection.
FairSpec ==
    /\ Spec
    /\ \A d \in Daemons : WF_vars(UpStep(d)) /\ WF_vars(WorkerStep(d))
    /\ \A c \in Downs : WF_vars(DownStep(c))

-----------------------------------------------------------------------------
(* What should hold.  A daemon is guarded once its socket is bound.  Two   *)
(* that are launched together are not: the second writes its own pid into  *)
(* the state file of the first before it fails to bind, and the next down  *)
(* finds that pid gone and removes the socket of the daemon that serves.   *)
(* Nor is one that is launched into another's teardown, or while a down    *)
(* cleans up.  What they do to each other is excepted by raced.            *)

\* Every variable has the values the code gives it.
TypeOK ==
    /\ sock \in Daemons \cup {None}
    /\ state \in Record \cup {None}
    /\ up \in [Daemons -> {"off", "clean", "spawn", "write", "bind", "bound", "serve", "join",
                           "unlink sock", "unlink state", "exit",
                           "refused", "failed", "down", "crashed"}]
    /\ known \in [Daemons -> BOOLEAN] /\ held \in [Daemons -> BOOLEAN]
    /\ saving \in [Daemons -> Record \cup {None, Unread}]
    /\ late \in [Daemons -> Record \cup {None}]
    /\ sigterm \in [Daemons -> BOOLEAN]
    /\ down \in [Downs -> {"idle", "no such session", "kill", "sent", "unlink sock",
                           "unlink state", "cleaned up"}]
    /\ pid \in [Downs -> Daemons \cup {None}]
    /\ \A c \in Downs : down[c] = "kill" => pid[c] # None
    /\ raced \in BOOLEAN
    /\ cut \in [Daemons -> BOOLEAN]

\* A live daemon is not clobbered (daemon.rs:53-62): send reaches the daemon
\* that serves and down reads its pid, whatever crashed daemons left, whoever
\* was refused, and while the worker rewrites the state file.
ServingIsFound ==
    \A d \in Daemons :
        up[d] = "serve" => (sock = d /\ state # None /\ state.pid = d) \/ raced

\* The teardown leaves neither socket nor state (daemon.rs:99-104), although a
\* save may be under way when the accept loop returns.  A rename that a timeout
\* left behind may still put the state file back.
TeardownLeavesNothing ==
    \A d \in Daemons :
        up[d] = "exit" =>
            \/ sock # d /\ (state = None \/ state.pid # d)
            \/ cut[d] \/ raced

\* The state file has the id status and --resume look for (daemon.rs:391-398)
\* once the worker knows it and saves no more.  A timeout between the two loses
\* it for good: cut.
IdIsSaved ==
    \A d \in Daemons :
        up[d] = "serve" /\ known[d] /\ saving[d] = None =>
            (state # None /\ state.id) \/ cut[d] \/ raced

\* The files tell of the daemon that serves (protocol.rs:122-131).
FilesTellDaemon == ServingIsFound /\ IdIsSaved

\* A daemon that down has signalled ends (client.rs:58-63), wherever in its
\* start-up, service or teardown the signal finds it, unless a connection
\* keeps its worker for good.
SignalEndsDaemon ==
    \A d \in Daemons :
        \/ <>[]held[d]
        \/ \A c \in Downs : (down[c] = "sent" /\ pid[c] = d) ~> ~Alive(d)

=============================================================================

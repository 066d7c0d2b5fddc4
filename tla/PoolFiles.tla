------------------------------ MODULE PoolFiles -----------------------------
(***************************************************************************)
(* The supervisor's life and the files it leaves for others: run_supervisor *)
(* and spawn_agent of src/src/supervisor.rs, with the spawn and kill       *)
(* handlers that run beside the teardown.  A control socket, one data      *)
(* socket per agent id and the state file outlive a supervisor that is     *)
(* killed; the next one finds them.  A supervisor is one process and is    *)
(* launched once: a restart is the launch of another.                      *)
(*                                                                         *)
(* There is one recipe, so an agent's id is its number.  What a handler    *)
(* does with the relay is ControlPlane's business.                         *)
(***************************************************************************)
EXTENDS Naturals, FiniteSets

CONSTANTS
    Sups,
    Jobs,         \* handlers of control connections, per supervisor
    Main,         \* the task of run_supervisor
    Prespawn,     \* agents spawned before the control socket is bound
    MaxSeq,       \* ids a supervisor mints at most
    Crashing,     \* supervisors that may be killed
    None

ASSUME TasksAssumption == /\ Main \notin Jobs
                          /\ None \notin Sups \cup Jobs \cup {Main}
                          /\ Crashing \subseteq Sups
ASSUME SeqAssumption == /\ Prespawn \in Nat
                        /\ MaxSeq \in Nat
                        /\ Prespawn <= MaxSeq

VARIABLES
    \* the runtime directory
    control,      \* whose listener control.sock leads to
    data,         \* whose listener each agent's socket file leads to
    state,        \* supervisor.state.json
    \* Supervisor
    stage,        \* where run_supervisor is
    pool,
    seq,          \* next_seq
    mutex,        \* the task that keeps the pool's lock
    \* the tasks
    job,
    id,           \* the agent a task spawns or kills
    \* history
    raced,        \* two supervisors were in their unguarded windows at once
    untidy        \* a spawn had failed, or a handler was at work at the signal

fileVars == <<control, data, state>>
poolVars == <<pool, seq, mutex>>
taskVars == <<job, id>>
history  == <<raced, untidy>>
vars == <<fileVars, stage, poolVars, taskVars, history>>

Tasks == Jobs \cup {Main}
Ids   == 1..MaxSeq
State == [of : Sups, agents : SUBSET Ids]

ASSUME StateAssumption == None \notin State

Init ==
    /\ control = None
    /\ data = [a \in Ids |-> None]
    /\ state = None
    /\ stage = [p \in Sups |-> "off"]
    /\ pool = [p \in Sups |-> {}]
    /\ seq = [p \in Sups |-> 0]
    /\ mutex = [p \in Sups |-> None]
    /\ job = [p \in Sups |-> [j \in Tasks |-> "idle"]]
    /\ id = [p \in Sups |-> [j \in Tasks |-> None]]
    /\ raced = FALSE
    /\ untidy = [p \in Sups |-> FALSE]

Alive(p) == stage[p] \notin {"off", "refused", "down", "crashed"}

\* The control listener is open until run_supervisor returns.
Listening(p) == stage[p] \in {"serve", "drain", "unlink control", "unlink state", "exit"}

At(p, j, where) == job' = [job EXCEPT ![p][j] = where]

Done(p, j) ==
    /\ At(p, j, "idle")
    /\ id' = [id EXCEPT ![p][j] = None]

-----------------------------------------------------------------------------
(* spawn_agent, by run_supervisor or by a handler.                         *)

\* mint_id: the counter has a lock of its own.
\* Fault: the number of agents is taken for the counter.
Counted(p) == Cardinality(pool[p]) + 1

Minted(p) == seq[p] + 1

Spawn(p, j) ==
    /\ job[p][j] = "idle"
    /\ seq[p] < MaxSeq
    /\ seq' = [seq EXCEPT ![p] = @ + 1]
    /\ id' = [id EXCEPT ![p][j] = Minted(p)]
    /\ At(p, j, "clear")
    /\ UNCHANGED <<fileVars, stage, pool, mutex, history>>

\* A socket file of an earlier supervisor is removed.
Clear(p, j) ==
    /\ job[p][j] = "clear"
    /\ data' = [data EXCEPT ![id[p][j]] = None]
    /\ At(p, j, "bind")
    /\ UNCHANGED <<control, state, stage, poolVars, id, history>>

\* run_supervisor goes on with the next agent, or with none left or one that
\* failed to the first persist.
Prespawned(p, j, failed) ==
    stage' = [stage EXCEPT ![p] = IF j = Main /\ (failed \/ seq[p] >= Prespawn)
                                  THEN "persist" ELSE @]

\* The file that was bound stays; a handler replies and does not persist.
SpawnFails(p, j) ==
    /\ Done(p, j)
    /\ Prespawned(p, j, TRUE)
    /\ untidy' = [untidy EXCEPT ![p] = TRUE]

BindData(p, j) ==
    /\ job[p][j] = "bind"
    /\ IF data[id[p][j]] = None
       THEN /\ data' = [data EXCEPT ![id[p][j]] = p]
            /\ At(p, j, "child")
            /\ UNCHANGED <<stage, id, untidy>>
       ELSE SpawnFails(p, j) /\ UNCHANGED data
    /\ UNCHANGED <<control, state, poolVars, raced>>

\* The agent's process is started, or its command is not there.
Child(p, j) ==
    /\ job[p][j] = "child"
    /\ \/ At(p, j, "insert") /\ UNCHANGED <<stage, id, untidy>>
       \/ SpawnFails(p, j)
    /\ UNCHANGED <<fileVars, poolVars, raced>>

\* Fault: the handler has replied and leaves it at that.
Unsaved(p, j) == Done(p, j)

ThenPersist(p, j) == At(p, j, "persist") /\ UNCHANGED id

Insert(p, j) ==
    /\ job[p][j] = "insert"
    /\ mutex[p] = None
    /\ pool' = [pool EXCEPT ![p] = @ \cup {id[p][j]}]
    /\ IF j = Main THEN Done(p, j) ELSE ThenPersist(p, j)
    /\ Prespawned(p, j, FALSE)
    /\ UNCHANGED <<fileVars, seq, mutex, history>>

-----------------------------------------------------------------------------
(* The handlers of spawn and kill.                                         *)

\* A client reaches the supervisor whose listener control.sock leads to; its
\* request is read as it is accepted.
Accepts(p, j) == stage[p] = "serve" /\ control = p /\ j \in Jobs

Kill(p, j, a) ==
    /\ job[p][j] = "idle"
    /\ mutex[p] = None
    /\ a \in pool[p]
    /\ pool' = [pool EXCEPT ![p] = @ \ {a}]
    /\ mutex' = [mutex EXCEPT ![p] = j]
    /\ id' = [id EXCEPT ![p][j] = a]
    /\ At(p, j, "kill")
    /\ UNCHANGED <<fileVars, stage, seq, history>>

\* Fault: the lock is kept until the handler returns.
HeldOn(p) == mutex

Dropped(p) == [mutex EXCEPT ![p] = None]

\* The child is waited for and the file removed with the lock held.
Killed(p, j) ==
    /\ job[p][j] = "kill"
    /\ data' = [data EXCEPT ![id[p][j]] = None]
    /\ mutex' = Dropped(p)
    /\ ThenPersist(p, j)
    /\ UNCHANGED <<control, state, stage, pool, seq, history>>

\* Supervisor::persist reads the pool and renames the file under the lock.
Save(p) == mutex[p] = None /\ state' = [of |-> p, agents |-> pool[p]]

Persist(p, j) ==
    /\ job[p][j] = "persist"
    /\ Save(p)
    /\ Done(p, j)
    /\ UNCHANGED <<control, data, stage, poolVars, history>>

Request(p, j) == Accepts(p, j) /\ (Spawn(p, j) \/ \E a \in Ids : Kill(p, j, a))

TaskStep(p, j) ==
    Clear(p, j) \/ BindData(p, j) \/ Child(p, j) \/ Insert(p, j) \/ Killed(p, j) \/ Persist(p, j)

-----------------------------------------------------------------------------
(* run_supervisor.                                                         *)

Goto(p, where) == stage' = [stage EXCEPT ![p] = where]

\* The process is gone, with its tasks, its children and its locals.
Exit(p, how) ==
    /\ Goto(p, how)
    /\ pool' = [pool EXCEPT ![p] = {}]
    /\ mutex' = [mutex EXCEPT ![p] = None]
    /\ job' = [job EXCEPT ![p] = [j \in Tasks |-> "idle"]]
    /\ id' = [id EXCEPT ![p] = [j \in Tasks |-> None]]
    /\ UNCHANGED seq

\* Nothing tells another supervisor that q is there.
Unguarded(q) == Alive(q) /\ control # q

ToPrespawn == IF Prespawn = 0 THEN "persist" ELSE "prespawn"

\* Fault: a socket file is taken for a stale one.
AnyIsStale == FALSE

\* A connection to the control socket succeeds.
SomeoneAnswers == control # None /\ Listening(control)

\* The check of the control socket, and its result.
Launch(p) ==
    /\ stage[p] = "off"
    /\ IF SomeoneAnswers
       THEN Goto(p, "refused") /\ UNCHANGED raced
       ELSE /\ Goto(p, IF control = None THEN ToPrespawn ELSE "clean")
            /\ raced' = (raced \/ \E q \in Sups \ {p} : Unguarded(q))
    /\ UNCHANGED <<fileVars, poolVars, taskVars, untidy>>

\* Whatever is there by now is removed.
\* Fault: the stale socket is left.
Kept == control

Removed == None

Clean(p) ==
    /\ stage[p] = "clean"
    /\ control' = Removed
    /\ Goto(p, ToPrespawn)
    /\ UNCHANGED <<data, state, poolVars, taskVars, history>>

SpawnNext(p) == stage[p] = "prespawn" /\ Spawn(p, Main)

FirstPersist(p) ==
    /\ stage[p] = "persist"
    /\ Save(p)
    /\ Goto(p, "bind")
    /\ UNCHANGED <<control, data, poolVars, taskVars, history>>

BindControl(p) ==
    /\ stage[p] = "bind"
    /\ IF control = None
       THEN /\ control' = p
            /\ Goto(p, "serve")
            /\ UNCHANGED <<poolVars, taskVars>>
       ELSE Exit(p, "down") /\ UNCHANGED control
    /\ UNCHANGED <<data, state, history>>

\* SIGTERM or SIGINT ends the accept loop; the teardown takes the lock.
Signal(p) ==
    /\ stage[p] = "serve"
    /\ mutex[p] = None
    /\ mutex' = [mutex EXCEPT ![p] = Main]
    /\ Goto(p, "drain")
    /\ untidy' = [untidy EXCEPT ![p] = @ \/ \E j \in Jobs : job[p][j] # "idle"]
    /\ UNCHANGED <<fileVars, pool, seq, taskVars, raced>>

\* Fault: the agent is killed and its socket file forgotten.
OnlyKilled(a) == data

WithSocket(a) == [data EXCEPT ![a] = None]

DrainOne(p, a) ==
    /\ stage[p] = "drain"
    /\ a \in pool[p]
    /\ pool' = [pool EXCEPT ![p] = @ \ {a}]
    /\ data' = WithSocket(a)
    /\ UNCHANGED <<control, state, stage, seq, mutex, taskVars, history>>

Drained(p) ==
    /\ stage[p] = "drain"
    /\ pool[p] = {}
    /\ mutex' = [mutex EXCEPT ![p] = None]
    /\ Goto(p, "unlink control")
    /\ UNCHANGED <<fileVars, pool, seq, taskVars, history>>

UnlinkControl(p) ==
    /\ stage[p] = "unlink control"
    /\ control' = None
    /\ Goto(p, "unlink state")
    /\ UNCHANGED <<data, state, poolVars, taskVars, history>>

UnlinkState(p) ==
    /\ stage[p] = "unlink state"
    /\ state' = None
    /\ Goto(p, "exit")
    /\ UNCHANGED <<control, data, poolVars, taskVars, history>>

\* The handlers that are left end with the runtime.
Return(p) ==
    /\ stage[p] = "exit"
    /\ Exit(p, "down")
    /\ UNCHANGED <<fileVars, history>>

\* SIGKILL; or a signal before its handler is installed.
Crash(p) ==
    /\ p \in Crashing
    /\ Alive(p)
    /\ Exit(p, "crashed")
    /\ UNCHANGED <<fileVars, history>>

MainStep(p) ==
    \/ Clean(p) \/ SpawnNext(p) \/ FirstPersist(p) \/ BindControl(p)
    \/ (\E a \in Ids : DrainOne(p, a)) \/ Drained(p)
    \/ UnlinkControl(p) \/ UnlinkState(p) \/ Return(p)

-----------------------------------------------------------------------------

Next == \E p \in Sups :
            \/ Launch(p) \/ MainStep(p) \/ Signal(p) \/ Crash(p)
            \/ \E j \in Jobs : Request(p, j)
            \/ \E j \in Tasks : TaskStep(p, j)

Spec == Init /\ [][Next]_vars

\* A process that is there runs its tasks.  Nobody need launch, signal, kill or
\* ask it for anything.
FairSpec ==
    /\ Spec
    /\ \A p \in Sups : WF_vars(MainStep(p)) /\ \A j \in Tasks : WF_vars(TaskStep(p, j))

-----------------------------------------------------------------------------
(* What should hold.  A supervisor is guarded against others once its      *)
(* control socket is bound; two that are launched together are not, nor is *)
(* one that is launched into the end of another's teardown.  What they do  *)
(* to each other's files is excepted by raced.                             *)

\* Every variable has the values the code gives it; the pool's lock is kept by
\* a handler that kills and by the teardown that drains.
TypeOK ==
    /\ control \in Sups \cup {None}
    /\ data \in [Ids -> Sups \cup {None}]
    /\ state \in State \cup {None}
    /\ stage \in [Sups -> {"off", "clean", "prespawn", "persist", "bind", "serve", "drain",
                           "unlink control", "unlink state", "exit",
                           "refused", "down", "crashed"}]
    /\ pool \in [Sups -> SUBSET Ids]
    /\ seq \in [Sups -> 0..MaxSeq]
    /\ job \in [Sups -> [Tasks -> {"idle", "clear", "bind", "child", "insert", "kill", "persist"}]]
    /\ id \in [Sups -> [Tasks -> Ids \cup {None}]]
    /\ mutex \in [Sups -> Tasks \cup {None}]
    /\ \A p \in Sups : /\ mutex[p] = Main <=> stage[p] = "drain"
                       /\ \A j \in Jobs : mutex[p] = j <=> job[p][j] = "kill"
    /\ raced \in BOOLEAN
    /\ untidy \in [Sups -> BOOLEAN]

\* A live supervisor is not clobbered (supervisor.rs:108-117): control.sock
\* leads to the supervisor that serves, whoever is launched beside it, and
\* whatever was left by those that were killed before.
ServingIsReachable ==
    \A p \in Sups : stage[p] = "serve" => control = p \/ raced

\* The path of an agent in the pool leads to its own listener
\* (supervisor.rs:200-212), though ids start at 1 again in every supervisor,
\* sockets of the last one are still there, and kills remove socket files while
\* other handlers bind theirs.
PathLeadsToAgent ==
    \A p \in Sups : \A a \in pool[p] : data[a] = p \/ raced

\* The state file tells the pool (supervisor.rs:54-55) whenever no handler is
\* at work, in whatever order spawns and kills inserted, removed and persisted.
StateMatchesPool ==
    \A p \in Sups :
        stage[p] = "serve" /\ (\A j \in Jobs : job[p][j] = "idle")
            => state = [of |-> p, agents |-> pool[p]] \/ raced

\* The files tell of the supervisor that serves and of its pool.
FilesTellPool == ServingIsReachable /\ PathLeadsToAgent /\ StateMatchesPool

\* The teardown leaves neither sockets nor state (supervisor.rs:154), unless a
\* spawn had failed after its socket was bound, or a handler was at work at the
\* signal: it inserts into the drained pool, or writes the file again.
TeardownLeavesNothing ==
    \A p \in Sups :
        stage[p] = "down" /\ ~untidy[p] /\ ~raced =>
            /\ control # p
            /\ \A a \in Ids : data[a] # p
            /\ state # None => state.of # p

\* What a killed supervisor left does not keep the next one from serving
\* (supervisor.rs:108-117).
StartUpServes ==
    \A p \in Sups :
        stage[p] = "clean" ~> stage[p] \in {"serve", "crashed"} \/ raced

=============================================================================

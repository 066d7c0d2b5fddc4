--------------------------- MODULE PoolFilesProofs --------------------------
(***************************************************************************)
(* What TLAPS proves of PoolFiles: the types, that the files tell of the   *)
(* supervisor that serves and of its pool, and that a teardown leaves      *)
(* nothing behind.                                                         *)
(***************************************************************************)
EXTENDS PoolFiles, TLAPS

-----------------------------------------------------------------------------
(* The inductive invariant.                                                *)

Spawning == {"clear", "bind", "child", "insert"}

\* A task that spawns or kills has an id for itself, minted before and in
\* nobody's pool.
OwnIds(p) ==
    /\ pool[p] \subseteq 1..seq[p]
    /\ \A j \in Tasks : job[p][j] # "idle" => id[p][j] \in 1..seq[p]
    /\ \A j \in Tasks : job[p][j] \in Spawning \cup {"kill"} =>
           /\ id[p][j] \notin pool[p]
           /\ \A k \in Tasks : job[p][k] \in Spawning \cup {"kill"} /\ id[p][k] = id[p][j] => k = j

\* run_supervisor spawns before it serves, and handlers work from then on.
InPhase(p) ==
    /\ job[p][Main] # "idle" => stage[p] = "prespawn" /\ job[p][Main] \in Spawning
    /\ \A j \in Jobs : job[p][j] # "idle" => Listening(p)
    /\ stage[p] \in {"drain", "unlink control", "unlink state", "exit"} /\ ~untidy[p] =>
           \A j \in Tasks : job[p][j] = "idle"
    /\ ~Alive(p) => pool[p] = {}
    /\ stage[p] = "off" => seq[p] = 0 /\ ~untidy[p]

Local == \A p \in Sups : OwnIds(p) /\ InPhase(p)

\* A control socket leads to a supervisor that has bound it and not removed it.
OwnControl ==
    \A p \in Sups : control = p => stage[p] \in {"serve", "drain", "unlink control", "crashed"}

\* Whatever the windows: one supervisor at a time.
Alone == ~raced => \A p, q \in Sups : Alive(p) /\ Alive(q) => p = q

\* A supervisor that is alone finds its way free, and then holds it.
Reaches(p) ==
    /\ stage[p] \in {"prespawn", "persist", "bind"} => control = None
    /\ stage[p] \in {"serve", "drain", "unlink control"} => control = p

\* The listeners p has bound and not removed: those of its pool, and those of
\* its tasks.
HasListener(p, a) ==
    \/ a \in pool[p]
    \/ \E j \in Tasks : job[p][j] \in {"child", "insert"} /\ id[p][j] = a

Listens(p) == Alive(p) => \A a \in Ids : HasListener(p, a) => data[a] = p

\* Every change of the pool is followed by a persist of the task that made it.
Tells(p) ==
    \/ stage[p] = "bind"
    \/ stage[p] = "serve" /\ \A j \in Jobs : job[p][j] \notin {"kill", "persist"}
    => state = [of |-> p, agents |-> pool[p]]

\* No other file leads to it, unless it is untidy.
IsRemoving(p, a) == \E j \in Tasks : job[p][j] = "kill" /\ id[p][j] = a

Cleans(p) ==
    ~untidy[p] /\ stage[p] # "crashed" =>
        /\ \A a \in Ids : data[a] = p => HasListener(p, a) \/ IsRemoving(p, a)
        /\ stage[p] \in {"unlink control", "unlink state", "exit"} => pool[p] = {}
        /\ stage[p] \in {"off", "refused", "exit", "down"} => state = None \/ state.of # p

Owner == ~raced => \A p \in Sups : Reaches(p) /\ Listens(p) /\ Tells(p) /\ Cleans(p)

IInv == TypeOK /\ Local /\ OwnControl /\ Alone /\ Owner

LEMMA Names ==
    /\ Main \in Tasks /\ \A j \in Jobs : j \in Tasks /\ j # Main
    /\ \A j \in Tasks : j # None /\ (j \in Jobs <=> j # Main)
    /\ \A p \in Sups : p # None
    /\ \A r \in State : r # None
    /\ MaxSeq \in Nat /\ Prespawn \in Nat
  BY TasksAssumption, SeqAssumption, StateAssumption DEF Tasks

Stages == {"off", "clean", "prespawn", "persist", "bind", "serve", "drain", "unlink control",
           "unlink state", "exit", "refused", "down", "crashed"}
Works  == {"idle", "clear", "bind", "child", "insert", "kill", "persist"}

\* What a supervisor's step may do is its own state's and the files' business.
Step(p) == \/ Launch(p) \/ MainStep(p) \/ Signal(p) \/ Crash(p)
           \/ \E j \in Jobs : Request(p, j)
           \/ \E j \in Tasks : TaskStep(p, j)

-----------------------------------------------------------------------------
(* The parts of a step.                                                    *)

\* What an update changes and what it leaves.
LEMMA Update ==
    ASSUME NEW S, NEW T, NEW f \in [S -> T], NEW x \in S, NEW v \in T
    PROVE  /\ [f EXCEPT ![x] = v] \in [S -> T] /\ [f EXCEPT ![x] = v][x] = v
           /\ \A y \in S : y # x => [f EXCEPT ![x] = v][y] = f[y]
  OBVIOUS

LEMMA UpdateIn ==
    ASSUME NEW S, NEW R, NEW T, NEW f \in [S -> [R -> T]], NEW x \in S, NEW r \in R, NEW v \in T
    PROVE  /\ [f EXCEPT ![x][r] = v] \in [S -> [R -> T]]
           /\ [f EXCEPT ![x][r] = v][x][r] = v
           /\ \A k \in R : k # r => [f EXCEPT ![x][r] = v][x][k] = f[x][k]
           /\ \A y \in S : y # x => [f EXCEPT ![x][r] = v][y] = f[y]
<1>1. f[x] \in [R -> T]
  OBVIOUS
<1>2. [f EXCEPT ![x][r] = v] = [f EXCEPT ![x] = [f[x] EXCEPT ![r] = v]]
  OBVIOUS
<1>3. PICK g : g = [f[x] EXCEPT ![r] = v]
  OBVIOUS
<1>4. g \in [R -> T] /\ g[r] = v /\ \A k \in R : k # r => g[k] = f[x][k]
  BY <1>1, <1>3, Update
<1>5. /\ [f EXCEPT ![x] = g] \in [S -> [R -> T]] /\ [f EXCEPT ![x] = g][x] = g
      /\ \A y \in S : y # x => [f EXCEPT ![x] = g][y] = f[y]
  BY <1>4
<1>. QED  BY <1>2, <1>3, <1>4, <1>5

Typed ==
    /\ control \in Sups \cup {None}
    /\ data \in [Ids -> Sups \cup {None}]
    /\ state \in State \cup {None}
    /\ stage \in [Sups -> Stages] /\ job \in [Sups -> [Tasks -> Works]]
    /\ id \in [Sups -> [Tasks -> Ids \cup {None}]]
    /\ pool \in [Sups -> SUBSET Ids] /\ seq \in [Sups -> 0..MaxSeq]
    /\ mutex \in [Sups -> Tasks \cup {None}] /\ untidy \in [Sups -> BOOLEAN]
    /\ raced \in BOOLEAN

\* Who keeps the lock of p's pool.
Locked(p) ==
    /\ mutex[p] = Main <=> stage[p] = "drain"
    /\ \A j \in Jobs : mutex[p] = j <=> job[p][j] = "kill"

LEMMA TypeParts == TypeOK <=> Typed /\ \A p \in Sups : Locked(p)
  BY DEF TypeOK, Typed, Stages, Works, Locked

LEMMA Typing == ASSUME TypeOK PROVE Typed
  BY TypeParts

\* A task goes on.
LEMMA Ats ==
    ASSUME TypeOK, NEW p \in Sups, NEW j \in Tasks, NEW where \in Works, At(p, j, where)
    PROVE  /\ job' \in [Sups -> [Tasks -> Works]] /\ job'[p][j] = where
           /\ \A k \in Tasks : k # j => job'[p][k] = job[p][k]
           /\ \A q \in Sups : q # p => job'[q] = job[q]
<1>1. job \in [Sups -> [Tasks -> Works]] /\ job' = [job EXCEPT ![p][j] = where]
  BY Typing DEF Typed, At
<1>. HIDE DEF Works
<1>. QED  BY <1>1, UpdateIn

\* A task names an agent.
LEMMA Naming ==
    ASSUME TypeOK, NEW p \in Sups, NEW j \in Tasks, NEW a \in Ids \cup {None},
           id' = [id EXCEPT ![p][j] = a]
    PROVE  /\ id' \in [Sups -> [Tasks -> Ids \cup {None}]] /\ id'[p][j] = a
           /\ \A k \in Tasks : k # j => id'[p][k] = id[p][k]
           /\ \A q \in Sups : q # p => id'[q] = id[q]
<1>1. id \in [Sups -> [Tasks -> Ids \cup {None}]]
  BY Typing DEF Typed
<1>. QED  BY <1>1, UpdateIn

\* run_supervisor goes on.
LEMMA Gotos ==
    ASSUME TypeOK, NEW p \in Sups, NEW where \in Stages, stage' = [stage EXCEPT ![p] = where]
    PROVE  /\ stage' \in [Sups -> Stages] /\ stage'[p] = where
           /\ \A q \in Sups : q # p => stage'[q] = stage[q]
<1>1. stage \in [Sups -> Stages]
  BY Typing DEF Typed
<1>. QED  BY <1>1, Update

\* The process ends.
LEMMA Exits ==
    ASSUME TypeOK, NEW p \in Sups, NEW how \in {"down", "crashed"}, Exit(p, how)
    PROVE  /\ stage' \in [Sups -> Stages] /\ stage'[p] = how
           /\ pool' \in [Sups -> SUBSET Ids] /\ pool'[p] = {}
           /\ mutex' \in [Sups -> Tasks \cup {None}] /\ mutex'[p] = None
           /\ job' \in [Sups -> [Tasks -> Works]] /\ \A j \in Tasks : job'[p][j] = "idle"
           /\ id' \in [Sups -> [Tasks -> Ids \cup {None}]]
           /\ seq' = seq
           /\ \A q \in Sups : q # p =>
                  /\ UNCHANGED <<stage[q], pool[q], mutex[q], job[q], id[q]>>
<1>1. stage' = [stage EXCEPT ![p] = how] /\ how \in Stages
  BY DEF Exit, Goto, Stages
<1>2. PICK free, none :
          /\ free = [j \in Tasks |-> "idle"] /\ none = [j \in Tasks |-> None]
          /\ pool' = [pool EXCEPT ![p] = {}] /\ mutex' = [mutex EXCEPT ![p] = None]
          /\ job' = [job EXCEPT ![p] = free] /\ id' = [id EXCEPT ![p] = none] /\ seq' = seq
  BY DEF Exit
<1>3. /\ free \in [Tasks -> Works] /\ \A j \in Tasks : free[j] = "idle"
      /\ none \in [Tasks -> Ids \cup {None}]
  BY <1>2 DEF Works
<1>4. /\ stage' \in [Sups -> Stages] /\ stage'[p] = how
      /\ \A q \in Sups : q # p => stage'[q] = stage[q]
  BY <1>1, Gotos
<1>5. /\ pool' \in [Sups -> SUBSET Ids] /\ pool'[p] = {}
      /\ \A q \in Sups : q # p => pool'[q] = pool[q]
  <2>1. pool \in [Sups -> SUBSET Ids] /\ {} \in SUBSET Ids
    BY Typing DEF Typed
  <2>. QED  BY <1>2, <2>1, Update
<1>6. /\ mutex' \in [Sups -> Tasks \cup {None}] /\ mutex'[p] = None
      /\ \A q \in Sups : q # p => mutex'[q] = mutex[q]
  <2>1. mutex \in [Sups -> Tasks \cup {None}] /\ None \in Tasks \cup {None}
    BY Typing DEF Typed
  <2>. QED  BY <1>2, <2>1, Update
<1>7. /\ job' \in [Sups -> [Tasks -> Works]] /\ job'[p] = free
      /\ \A q \in Sups : q # p => job'[q] = job[q]
  <2>1. job \in [Sups -> [Tasks -> Works]]
    BY Typing DEF Typed
  <2>. QED  BY <1>2, <1>3, <2>1, Update
<1>8. /\ id' \in [Sups -> [Tasks -> Ids \cup {None}]]
      /\ \A q \in Sups : q # p => id'[q] = id[q]
  <2>1. id \in [Sups -> [Tasks -> Ids \cup {None}]]
    BY Typing DEF Typed
  <2>. QED  BY <1>2, <1>3, <2>1, Update
<1>. QED  BY <1>2, <1>3, <1>4, <1>5, <1>6, <1>7, <1>8

\* Spawning, whoever does it.
LEMMA Spawns ==
    ASSUME IInv, NEW p \in Sups, NEW j \in Tasks, Spawn(p, j)
    PROVE  /\ seq' \in [Sups -> 0..MaxSeq] /\ seq'[p] = seq[p] + 1 /\ seq[p] \in Nat
           /\ \A q \in Sups : q # p => seq'[q] = seq[q]
           /\ seq[p] + 1 \in Ids
           /\ job' \in [Sups -> [Tasks -> Works]] /\ job[p][j] = "idle" /\ job'[p][j] = "clear"
           /\ \A k \in Tasks : k # j => job'[p][k] = job[p][k]
           /\ \A q \in Sups : q # p => job'[q] = job[q]
           /\ id' \in [Sups -> [Tasks -> Ids \cup {None}]] /\ id'[p][j] = seq[p] + 1
           /\ \A k \in Tasks : k # j => id'[p][k] = id[p][k]
           /\ \A q \in Sups : q # p => id'[q] = id[q]
           /\ UNCHANGED <<fileVars, stage, pool, mutex, history>>
<1>0. TypeOK
  BY DEF IInv
<1>1. seq[p] \in 0..MaxSeq /\ seq[p] < MaxSeq /\ MaxSeq \in Nat
  BY <1>0, Names DEF Spawn, TypeOK
<1>2. seq[p] \in Nat /\ seq[p] + 1 \in Ids /\ seq[p] + 1 \in 0..MaxSeq
  BY <1>1 DEF Ids
<1>3. seq' = [seq EXCEPT ![p] = seq[p] + 1] /\ id' = [id EXCEPT ![p][j] = seq[p] + 1]
  BY DEF Spawn, Minted
<1>4. /\ seq' \in [Sups -> 0..MaxSeq] /\ seq'[p] = seq[p] + 1
      /\ \A q \in Sups : q # p => seq'[q] = seq[q]
  <2>1. seq \in [Sups -> 0..MaxSeq]
    BY <1>0, Typing DEF Typed
  <2>. QED  BY <1>2, <1>3, <2>1, Update
<1>5. /\ job' \in [Sups -> [Tasks -> Works]] /\ job'[p][j] = "clear"
      /\ \A k \in Tasks : k # j => job'[p][k] = job[p][k]
      /\ \A q \in Sups : q # p => job'[q] = job[q]
  BY <1>0, Ats DEF Spawn, Works
<1>6. /\ id' \in [Sups -> [Tasks -> Ids \cup {None}]] /\ id'[p][j] = seq[p] + 1
      /\ \A k \in Tasks : k # j => id'[p][k] = id[p][k]
      /\ \A q \in Sups : q # p => id'[q] = id[q]
  BY <1>0, <1>2, <1>3, Naming
<1>7. job[p][j] = "idle" /\ UNCHANGED <<fileVars, stage, pool, mutex, history>>
  BY DEF Spawn
<1>. QED  BY <1>2, <1>4, <1>5, <1>6, <1>7

\* run_supervisor's task spawns only before it serves; others leave its stage
\* alone.
LEMMA Stays ==
    ASSUME IInv, NEW p \in Sups, NEW j \in Tasks, job[p][j] # "idle",
           NEW failed, Prespawned(p, j, failed)
    PROVE  /\ stage' \in [Sups -> Stages]
           /\ \/ stage'[p] = stage[p]
              \/ j = Main /\ stage[p] = "prespawn" /\ stage'[p] = "persist"
           /\ \A q \in Sups : q # p => stage'[q] = stage[q]
<1>0. TypeOK /\ Local
  BY DEF IInv
<1>1. PICK w : /\ w = (IF j = Main /\ (failed \/ seq[p] >= Prespawn) THEN "persist" ELSE stage[p])
               /\ stage' = [stage EXCEPT ![p] = w]
  BY DEF Prespawned
<1>2. w \in Stages /\ (w = stage[p] \/ (j = Main /\ w = "persist"))
  <2>1. stage[p] \in Stages
    BY <1>0, Typing DEF Typed
  <2>. QED  BY <1>1, <2>1 DEF Stages
<1>3. j = Main => stage[p] = "prespawn"
  BY <1>0 DEF Local, InPhase
<1>. QED  BY <1>0, <1>1, <1>2, <1>3, Gotos

LEMMA FailsStep ==
    ASSUME IInv, NEW p \in Sups, NEW j \in Tasks, job[p][j] # "idle", SpawnFails(p, j)
    PROVE  /\ stage' \in [Sups -> Stages]
           /\ \/ stage'[p] = stage[p]
              \/ j = Main /\ stage[p] = "prespawn" /\ stage'[p] = "persist"
           /\ \A q \in Sups : q # p => stage'[q] = stage[q]
           /\ job' \in [Sups -> [Tasks -> Works]] /\ job'[p][j] = "idle"
           /\ \A k \in Tasks : k # j => job'[p][k] = job[p][k]
           /\ \A q \in Sups : q # p => job'[q] = job[q]
           /\ id' \in [Sups -> [Tasks -> Ids \cup {None}]]
           /\ \A k \in Tasks : k # j => id'[p][k] = id[p][k]
           /\ \A q \in Sups : q # p => id'[q] = id[q]
           /\ untidy' \in [Sups -> BOOLEAN] /\ untidy'[p]
           /\ \A q \in Sups : q # p => untidy'[q] = untidy[q]
<1>0. TypeOK
  BY DEF IInv
<1>1. /\ stage' \in [Sups -> Stages]
      /\ \/ stage'[p] = stage[p]
         \/ j = Main /\ stage[p] = "prespawn" /\ stage'[p] = "persist"
      /\ \A q \in Sups : q # p => stage'[q] = stage[q]
  BY Stays DEF SpawnFails
<1>2. /\ job' \in [Sups -> [Tasks -> Works]] /\ job'[p][j] = "idle"
      /\ \A k \in Tasks : k # j => job'[p][k] = job[p][k]
      /\ \A q \in Sups : q # p => job'[q] = job[q]
  BY <1>0, Ats DEF SpawnFails, Done, Works
<1>3. /\ id' \in [Sups -> [Tasks -> Ids \cup {None}]]
      /\ \A k \in Tasks : k # j => id'[p][k] = id[p][k]
      /\ \A q \in Sups : q # p => id'[q] = id[q]
  BY <1>0, Naming DEF SpawnFails, Done
<1>4. /\ untidy' \in [Sups -> BOOLEAN] /\ untidy'[p]
      /\ \A q \in Sups : q # p => untidy'[q] = untidy[q]
  <2>1. untidy \in [Sups -> BOOLEAN] /\ untidy' = [untidy EXCEPT ![p] = TRUE]
    BY <1>0, Typing DEF Typed, SpawnFails
  <2>. QED  BY <2>1
<1>. QED  BY <1>1, <1>2, <1>3, <1>4

\* A task that works at an agent has its id.
LEMMA HasId ==
    ASSUME IInv, NEW p \in Sups, NEW j \in Tasks, job[p][j] # "idle"
    PROVE  id[p][j] \in Ids
<1>1. seq[p] \in 0..MaxSeq /\ id[p][j] \in 1..seq[p] /\ MaxSeq \in Nat
  BY Names DEF IInv, TypeOK, Local, OwnIds
<1>. QED  BY <1>1 DEF Ids

-----------------------------------------------------------------------------
(* What each action does, name by name.                                    *)

\* A step of p leaves the others' own state alone.
OthersKeep(p) ==
    \A q \in Sups : q # p =>
        UNCHANGED <<stage[q], pool[q], seq[q], mutex[q], job[q], id[q], untidy[q]>>

\* And that of j those of the other tasks.
RestKeep(p, j) ==
    \A k \in Tasks : k # j => UNCHANGED <<job[p][k], id[p][k]>>

LEMMA DataAt ==
    ASSUME TypeOK, NEW a \in Ids, NEW v \in Sups \cup {None}, data' = [data EXCEPT ![a] = v]
    PROVE  /\ data' \in [Ids -> Sups \cup {None}] /\ data'[a] = v
           /\ \A b \in Ids : b # a => data'[b] = data[b]
<1>1. data \in [Ids -> Sups \cup {None}]
  BY Typing DEF Typed
<1>. QED  BY <1>1, Update

LEMMA PoolAt ==
    ASSUME TypeOK, NEW p \in Sups, NEW P \in SUBSET Ids, pool' = [pool EXCEPT ![p] = P]
    PROVE  /\ pool' \in [Sups -> SUBSET Ids] /\ pool'[p] = P
           /\ \A q \in Sups : q # p => pool'[q] = pool[q]
<1>1. pool \in [Sups -> SUBSET Ids]
  BY Typing DEF Typed
<1>. QED  BY <1>1, Update

LEMMA MutexAt ==
    ASSUME TypeOK, NEW p \in Sups, NEW m \in Tasks \cup {None}, mutex' = [mutex EXCEPT ![p] = m]
    PROVE  /\ mutex' \in [Sups -> Tasks \cup {None}] /\ mutex'[p] = m
           /\ \A q \in Sups : q # p => mutex'[q] = mutex[q]
<1>1. mutex \in [Sups -> Tasks \cup {None}]
  BY Typing DEF Typed
<1>. QED  BY <1>1, Update

\* A task that is done is idle, and names nobody.
LEMMA Ends ==
    ASSUME TypeOK, NEW p \in Sups, NEW j \in Tasks, Done(p, j)
    PROVE  /\ job' \in [Sups -> [Tasks -> Works]] /\ job'[p][j] = "idle"
           /\ id' \in [Sups -> [Tasks -> Ids \cup {None}]]
           /\ RestKeep(p, j)
           /\ \A q \in Sups : q # p => UNCHANGED <<job[q], id[q]>>
<1>1. /\ job' \in [Sups -> [Tasks -> Works]] /\ job'[p][j] = "idle"
      /\ \A k \in Tasks : k # j => job'[p][k] = job[p][k]
      /\ \A q \in Sups : q # p => job'[q] = job[q]
  BY Ats DEF Done, Works
<1>2. /\ id' \in [Sups -> [Tasks -> Ids \cup {None}]]
      /\ \A k \in Tasks : k # j => id'[p][k] = id[p][k]
      /\ \A q \in Sups : q # p => id'[q] = id[q]
  BY Naming DEF Done
<1>. QED  BY <1>1, <1>2 DEF RestKeep

LEMMA ClearDoes ==
    ASSUME IInv, NEW p \in Sups, NEW j \in Tasks, Clear(p, j)
    PROVE  /\ Typed' /\ OthersKeep(p) /\ RestKeep(p, j)
           /\ job[p][j] = "clear" /\ job'[p][j] = "bind" /\ id[p][j] \in Ids
           /\ data'[id[p][j]] = None /\ \A a \in Ids : a # id[p][j] => data'[a] = data[a]
           /\ UNCHANGED <<control, state, stage, poolVars, id, history>>
<1>0. TypeOK /\ Typed /\ job[p][j] = "clear"
  BY Typing DEF IInv, Clear
<1>1. id[p][j] \in Ids
  BY <1>0, HasId
<1>2. /\ data' \in [Ids -> Sups \cup {None}] /\ data'[id[p][j]] = None
      /\ \A a \in Ids : a # id[p][j] => data'[a] = data[a]
  BY <1>0, <1>1, DataAt DEF Clear
<1>3. /\ job' \in [Sups -> [Tasks -> Works]] /\ job'[p][j] = "bind"
      /\ \A k \in Tasks : k # j => job'[p][k] = job[p][k]
      /\ \A q \in Sups : q # p => job'[q] = job[q]
  BY <1>0, Ats DEF Clear, Works
<1>4. UNCHANGED <<control, state, stage, poolVars, id, history>>
  BY DEF Clear
<1>5. Typed'
  BY <1>0, <1>2, <1>3, <1>4 DEF Typed, poolVars, history
<1>. QED  BY <1>0, <1>1, <1>2, <1>3, <1>4, <1>5 DEF OthersKeep, RestKeep, poolVars, history

\* A spawn that fails, whatever it has bound.
LEMMA FailDoes ==
    ASSUME IInv, NEW p \in Sups, NEW j \in Tasks, job[p][j] # "idle", SpawnFails(p, j),
           UNCHANGED <<fileVars, poolVars, raced>>
    PROVE  /\ Typed' /\ OthersKeep(p) /\ RestKeep(p, j)
           /\ job'[p][j] = "idle" /\ untidy'[p]
           /\ \/ stage'[p] = stage[p]
              \/ j = Main /\ stage[p] = "prespawn" /\ stage'[p] = "persist"
<1>0. Typed
  BY Typing DEF IInv
<1>1. Typed'
  BY <1>0, FailsStep DEF Typed, fileVars, poolVars
<1>. QED  BY <1>1, FailsStep DEF OthersKeep, RestKeep, poolVars

LEMMA BindDataDoes ==
    ASSUME IInv, NEW p \in Sups, NEW j \in Tasks, BindData(p, j)
    PROVE  \/ /\ Typed' /\ OthersKeep(p) /\ RestKeep(p, j)
              /\ job[p][j] = "bind" /\ job'[p][j] = "child" /\ id[p][j] \in Ids
              /\ data'[id[p][j]] = p /\ \A a \in Ids : a # id[p][j] => data'[a] = data[a]
              /\ UNCHANGED <<control, state, stage, poolVars, id, history>>
           \/ /\ Typed' /\ OthersKeep(p) /\ RestKeep(p, j)
              /\ job[p][j] = "bind" /\ job'[p][j] = "idle" /\ untidy'[p]
              /\ \/ stage'[p] = stage[p]
                 \/ j = Main /\ stage[p] = "prespawn" /\ stage'[p] = "persist"
              /\ UNCHANGED <<fileVars, poolVars, raced>>
<1>0. TypeOK /\ Typed /\ job[p][j] = "bind"
  BY Typing DEF IInv, BindData
<1>1. id[p][j] \in Ids
  BY <1>0, HasId
<1>2. CASE data[id[p][j]] = None
  <2>1. /\ data' \in [Ids -> Sups \cup {None}] /\ data'[id[p][j]] = p
        /\ \A a \in Ids : a # id[p][j] => data'[a] = data[a]
    BY <1>0, <1>1, <1>2, DataAt DEF BindData
  <2>2. /\ job' \in [Sups -> [Tasks -> Works]] /\ job'[p][j] = "child"
        /\ \A k \in Tasks : k # j => job'[p][k] = job[p][k]
        /\ \A q \in Sups : q # p => job'[q] = job[q]
    BY <1>0, <1>2, Ats DEF BindData, Works
  <2>3. UNCHANGED <<control, state, stage, poolVars, id, history>>
    BY <1>2 DEF BindData, history
  <2>4. Typed'
    BY <1>0, <2>1, <2>2, <2>3 DEF Typed, poolVars, history
  <2>. QED  BY <1>0, <1>1, <2>1, <2>2, <2>3, <2>4 DEF OthersKeep, RestKeep, poolVars, history
<1>3. CASE data[id[p][j]] # None
  <2>1. SpawnFails(p, j) /\ UNCHANGED <<fileVars, poolVars, raced>>
    BY <1>3 DEF BindData, fileVars
  <2>. QED  BY <1>0, <2>1, FailDoes
<1>. QED  BY <1>2, <1>3

LEMMA ChildDoes ==
    ASSUME IInv, NEW p \in Sups, NEW j \in Tasks, Child(p, j)
    PROVE  \/ /\ Typed' /\ OthersKeep(p) /\ RestKeep(p, j)
              /\ job[p][j] = "child" /\ job'[p][j] = "insert"
              /\ UNCHANGED <<fileVars, stage, poolVars, id, history>>
           \/ /\ Typed' /\ OthersKeep(p) /\ RestKeep(p, j)
              /\ job[p][j] = "child" /\ job'[p][j] = "idle" /\ untidy'[p]
              /\ \/ stage'[p] = stage[p]
                 \/ j = Main /\ stage[p] = "prespawn" /\ stage'[p] = "persist"
              /\ UNCHANGED <<fileVars, poolVars, raced>>
<1>0. TypeOK /\ Typed /\ job[p][j] = "child" /\ UNCHANGED <<fileVars, poolVars, raced>>
  BY Typing DEF IInv, Child
<1>1. CASE At(p, j, "insert") /\ UNCHANGED <<stage, id, untidy>>
  <2>1. /\ job' \in [Sups -> [Tasks -> Works]] /\ job'[p][j] = "insert"
        /\ \A k \in Tasks : k # j => job'[p][k] = job[p][k]
        /\ \A q \in Sups : q # p => job'[q] = job[q]
    BY <1>0, <1>1, Ats DEF Works
  <2>2. Typed'
    BY <1>0, <1>1, <2>1 DEF Typed, fileVars, poolVars
  <2>. QED  BY <1>0, <1>1, <2>1, <2>2 DEF OthersKeep, RestKeep, poolVars, history
<1>2. CASE SpawnFails(p, j)
  BY <1>0, <1>2, FailDoes
<1>. QED  BY <1>1, <1>2 DEF Child

LEMMA InsertDoes ==
    ASSUME IInv, NEW p \in Sups, NEW j \in Tasks, Insert(p, j)
    PROVE  /\ Typed' /\ OthersKeep(p) /\ RestKeep(p, j)
           /\ job[p][j] = "insert" /\ mutex[p] = None /\ id[p][j] \in Ids
           /\ pool'[p] = pool[p] \cup {id[p][j]}
           /\ \/ j = Main /\ job'[p][j] = "idle"
              \/ j \in Jobs /\ job'[p][j] = "persist" /\ UNCHANGED id
           /\ \/ stage'[p] = stage[p]
              \/ j = Main /\ stage[p] = "prespawn" /\ stage'[p] = "persist"
           /\ UNCHANGED <<fileVars, seq, mutex, history>>
<1>0. TypeOK /\ Typed /\ job[p][j] = "insert" /\ mutex[p] = None
  BY Typing DEF IInv, Insert
<1>1. id[p][j] \in Ids
  BY <1>0, HasId
<1>2. /\ pool' \in [Sups -> SUBSET Ids] /\ pool'[p] = pool[p] \cup {id[p][j]}
      /\ \A q \in Sups : q # p => pool'[q] = pool[q]
  <2>1. pool[p] \cup {id[p][j]} \in SUBSET Ids
    BY <1>0, <1>1 DEF Typed
  <2>2. pool' = [pool EXCEPT ![p] = pool[p] \cup {id[p][j]}]
    BY DEF Insert
  <2>. QED  BY <1>0, <2>1, <2>2, PoolAt
<1>3. /\ stage' \in [Sups -> Stages]
      /\ \/ stage'[p] = stage[p]
         \/ j = Main /\ stage[p] = "prespawn" /\ stage'[p] = "persist"
      /\ \A q \in Sups : q # p => stage'[q] = stage[q]
  BY <1>0, Stays DEF Insert
<1>4. /\ job' \in [Sups -> [Tasks -> Works]] /\ id' \in [Sups -> [Tasks -> Ids \cup {None}]]
      /\ \/ j = Main /\ job'[p][j] = "idle"
         \/ j \in Jobs /\ job'[p][j] = "persist" /\ UNCHANGED id
      /\ RestKeep(p, j)
      /\ \A q \in Sups : q # p => UNCHANGED <<job[q], id[q]>>
  <2>1. CASE j = Main
    BY <1>0, <2>1, Ends DEF Insert
  <2>2. CASE j # Main
    <3>1. At(p, j, "persist") /\ UNCHANGED id /\ j \in Jobs
      BY <2>2, Names DEF Insert, ThenPersist
    <3>2. /\ job' \in [Sups -> [Tasks -> Works]] /\ job'[p][j] = "persist"
          /\ \A k \in Tasks : k # j => job'[p][k] = job[p][k]
          /\ \A q \in Sups : q # p => job'[q] = job[q]
      BY <1>0, <3>1, Ats DEF Works
    <3>. QED  BY <1>0, <3>1, <3>2 DEF RestKeep, Typed
  <2>. QED  BY <2>1, <2>2
<1>5. UNCHANGED <<fileVars, seq, mutex, history>>
  BY DEF Insert
<1>6. Typed'
  BY <1>0, <1>2, <1>3, <1>4, <1>5 DEF Typed, fileVars, history
<1>7. OthersKeep(p)
  BY <1>2, <1>3, <1>4, <1>5 DEF OthersKeep, history
<1>. QED  BY <1>0, <1>1, <1>2, <1>3, <1>4, <1>5, <1>6, <1>7

LEMMA KilledDoes ==
    ASSUME IInv, NEW p \in Sups, NEW j \in Tasks, Killed(p, j)
    PROVE  /\ Typed' /\ OthersKeep(p) /\ RestKeep(p, j)
           /\ job[p][j] = "kill" /\ job'[p][j] = "persist" /\ id[p][j] \in Ids
           /\ data'[id[p][j]] = None /\ \A a \in Ids : a # id[p][j] => data'[a] = data[a]
           /\ mutex'[p] = None
           /\ UNCHANGED <<control, state, stage, pool, seq, id, history>>
<1>0. TypeOK /\ Typed /\ job[p][j] = "kill"
  BY Typing DEF IInv, Killed
<1>1. id[p][j] \in Ids
  BY <1>0, HasId
<1>2. /\ data' \in [Ids -> Sups \cup {None}] /\ data'[id[p][j]] = None
      /\ \A a \in Ids : a # id[p][j] => data'[a] = data[a]
  BY <1>0, <1>1, DataAt DEF Killed
<1>3. /\ job' \in [Sups -> [Tasks -> Works]] /\ job'[p][j] = "persist"
      /\ \A k \in Tasks : k # j => job'[p][k] = job[p][k]
      /\ \A q \in Sups : q # p => job'[q] = job[q]
  BY <1>0, Ats DEF Killed, ThenPersist, Works
<1>4. /\ mutex' \in [Sups -> Tasks \cup {None}] /\ mutex'[p] = None
      /\ \A q \in Sups : q # p => mutex'[q] = mutex[q]
  BY <1>0, MutexAt DEF Killed, Dropped
<1>5. UNCHANGED <<control, state, stage, pool, seq, id, history>>
  BY DEF Killed, ThenPersist
<1>6. Typed'
  BY <1>0, <1>2, <1>3, <1>4, <1>5 DEF Typed, history
<1>. QED  BY <1>0, <1>1, <1>2, <1>3, <1>4, <1>5, <1>6 DEF OthersKeep, RestKeep, history

LEMMA Saves ==
    ASSUME TypeOK, NEW p \in Sups, Save(p)
    PROVE  /\ mutex[p] = None /\ state' = [of |-> p, agents |-> pool[p]] /\ state' \in State
<1>1. pool[p] \in SUBSET Ids
  BY Typing DEF Typed
<1>. QED  BY <1>1 DEF Save, State

LEMMA PersistDoes ==
    ASSUME IInv, NEW p \in Sups, NEW j \in Tasks, Persist(p, j)
    PROVE  /\ Typed' /\ OthersKeep(p) /\ RestKeep(p, j)
           /\ job[p][j] = "persist" /\ job'[p][j] = "idle"
           /\ mutex[p] = None /\ state' = [of |-> p, agents |-> pool[p]]
           /\ UNCHANGED <<control, data, stage, poolVars, history>>
<1>0. TypeOK /\ Typed /\ job[p][j] = "persist"
  BY Typing DEF IInv, Persist
<1>1. mutex[p] = None /\ state' = [of |-> p, agents |-> pool[p]] /\ state' \in State
  BY <1>0, Saves DEF Persist
<1>2. /\ job' \in [Sups -> [Tasks -> Works]] /\ job'[p][j] = "idle"
      /\ id' \in [Sups -> [Tasks -> Ids \cup {None}]]
      /\ RestKeep(p, j)
      /\ \A q \in Sups : q # p => UNCHANGED <<job[q], id[q]>>
  BY <1>0, Ends DEF Persist
<1>3. UNCHANGED <<control, data, stage, poolVars, history>>
  BY DEF Persist
<1>4. Typed'
  BY <1>0, <1>1, <1>2, <1>3 DEF Typed, poolVars, history
<1>. QED  BY <1>0, <1>1, <1>2, <1>3, <1>4 DEF OthersKeep, poolVars, history

LEMMA SpawnDoes ==
    ASSUME IInv, NEW p \in Sups, NEW j \in Tasks, Spawn(p, j)
    PROVE  /\ Typed' /\ OthersKeep(p) /\ RestKeep(p, j)
           /\ job[p][j] = "idle" /\ job'[p][j] = "clear"
           /\ seq[p] \in Nat /\ seq'[p] = seq[p] + 1 /\ id'[p][j] = seq[p] + 1
           /\ UNCHANGED <<fileVars, stage, pool, mutex, history>>
<1>0. Typed
  BY Typing DEF IInv
<1>1. Typed'
  BY <1>0, Spawns DEF Typed, fileVars, history
<1>. QED  BY <1>1, Spawns DEF OthersKeep, RestKeep, history

LEMMA KillDoes ==
    ASSUME IInv, NEW p \in Sups, NEW j \in Jobs, NEW a \in Ids, Kill(p, j, a)
    PROVE  /\ Typed' /\ OthersKeep(p) /\ RestKeep(p, j)
           /\ job[p][j] = "idle" /\ job'[p][j] = "kill" /\ mutex[p] = None /\ mutex'[p] = j
           /\ a \in pool[p] /\ pool'[p] = pool[p] \ {a} /\ id'[p][j] = a
           /\ UNCHANGED <<fileVars, stage, seq, history>>
<1>0. TypeOK /\ Typed /\ job[p][j] = "idle" /\ mutex[p] = None /\ a \in pool[p] /\ j \in Tasks
  BY Typing, Names DEF IInv, Kill
<1>1. /\ pool' \in [Sups -> SUBSET Ids] /\ pool'[p] = pool[p] \ {a}
      /\ \A q \in Sups : q # p => pool'[q] = pool[q]
  <2>1. pool[p] \ {a} \in SUBSET Ids
    BY <1>0 DEF Typed
  <2>2. pool' = [pool EXCEPT ![p] = pool[p] \ {a}]
    BY DEF Kill
  <2>. QED  BY <1>0, <2>1, <2>2, PoolAt
<1>2. /\ mutex' \in [Sups -> Tasks \cup {None}] /\ mutex'[p] = j
      /\ \A q \in Sups : q # p => mutex'[q] = mutex[q]
  BY <1>0, MutexAt DEF Kill
<1>3. /\ job' \in [Sups -> [Tasks -> Works]] /\ job'[p][j] = "kill"
      /\ \A k \in Tasks : k # j => job'[p][k] = job[p][k]
      /\ \A q \in Sups : q # p => job'[q] = job[q]
  BY <1>0, Ats DEF Kill, Works
<1>4. /\ id' \in [Sups -> [Tasks -> Ids \cup {None}]] /\ id'[p][j] = a
      /\ \A k \in Tasks : k # j => id'[p][k] = id[p][k]
      /\ \A q \in Sups : q # p => id'[q] = id[q]
  BY <1>0, Naming DEF Kill
<1>5. UNCHANGED <<fileVars, stage, seq, history>>
  BY DEF Kill
<1>6. Typed'
  BY <1>0, <1>1, <1>2, <1>3, <1>4, <1>5 DEF Typed, fileVars, history
<1>. QED  BY <1>0, <1>1, <1>2, <1>3, <1>4, <1>5, <1>6 DEF OthersKeep, RestKeep, history

\* run_supervisor goes on, and only that.
LEMMA Moves ==
    ASSUME TypeOK, NEW p \in Sups, NEW where \in Stages, Goto(p, where),
           UNCHANGED <<poolVars, taskVars, untidy>>
    PROVE  stage' \in [Sups -> Stages] /\ stage'[p] = where /\ OthersKeep(p)
<1>1. /\ stage' \in [Sups -> Stages] /\ stage'[p] = where
      /\ \A q \in Sups : q # p => stage'[q] = stage[q]
  BY Gotos DEF Goto
<1>. QED  BY <1>1 DEF OthersKeep, poolVars, taskVars

\* A move is well typed when the files are.
LEMMA MovesTyped ==
    ASSUME TypeOK, stage' \in [Sups -> Stages], UNCHANGED <<poolVars, taskVars, untidy>>,
           control' \in Sups \cup {None}, data' = data, state' \in State \cup {None},
           raced' \in BOOLEAN
    PROVE  Typed'
<1>1. Typed
  BY Typing
<1>. QED  BY <1>1 DEF Typed, poolVars, taskVars

LEMMA ExitDoes ==
    ASSUME TypeOK, NEW p \in Sups, NEW how \in {"down", "crashed"}, Exit(p, how),
           UNCHANGED <<fileVars, history>>
    PROVE  /\ Typed' /\ OthersKeep(p)
           /\ stage'[p] = how /\ pool'[p] = {} /\ mutex'[p] = None
           /\ \A j \in Tasks : job'[p][j] = "idle"
<1>0. Typed
  BY Typing
<1>1. Typed'
  BY <1>0, Exits DEF Typed, fileVars, history
<1>. QED  BY <1>1, Exits DEF OthersKeep, history

LEMMA LaunchDoes ==
    ASSUME IInv, NEW p \in Sups, Launch(p)
    PROVE  /\ Typed' /\ OthersKeep(p) /\ UNCHANGED <<fileVars, poolVars, taskVars, untidy>>
           /\ stage[p] = "off"
           /\ IF SomeoneAnswers
              THEN stage'[p] = "refused" /\ UNCHANGED raced
              ELSE /\ stage'[p] \in {"clean", "prespawn", "persist"}
                   /\ stage'[p] # "clean" => control = None
                   /\ raced' = (raced \/ \E q \in Sups \ {p} : Unguarded(q))
<1>0. TypeOK /\ Typed /\ UNCHANGED <<fileVars, poolVars, taskVars, untidy>> /\ stage[p] = "off"
  BY Typing DEF IInv, Launch
<1>1. CASE SomeoneAnswers
  <2>1. Goto(p, "refused") /\ raced' = raced /\ "refused" \in Stages
    BY <1>1 DEF Launch, Stages
  <2>2. stage' \in [Sups -> Stages] /\ stage'[p] = "refused" /\ OthersKeep(p)
    BY <1>0, <2>1, Moves
  <2>3. Typed'
    BY <1>0, <2>1, <2>2, MovesTyped DEF Typed, fileVars
  <2>. QED  BY <1>0, <1>1, <2>1, <2>2, <2>3
<1>2. CASE ~SomeoneAnswers
  <2>1. PICK w : /\ w = (IF control = None THEN ToPrespawn ELSE "clean") /\ Goto(p, w)
                 /\ raced' = (raced \/ \E q \in Sups \ {p} : Unguarded(q))
    BY <1>2 DEF Launch
  <2>2. w \in Stages /\ w \in {"clean", "prespawn", "persist"} /\ (w # "clean" => control = None)
    BY <2>1 DEF ToPrespawn, Stages
  <2>3. stage' \in [Sups -> Stages] /\ stage'[p] = w /\ OthersKeep(p)
    BY <1>0, <2>1, <2>2, Moves
  <2>4. raced' \in BOOLEAN
    BY <1>0, <2>1 DEF Typed
  <2>5. Typed'
    BY <1>0, <2>3, <2>4, MovesTyped DEF Typed, fileVars
  <2>. QED  BY <1>0, <1>2, <2>1, <2>2, <2>3, <2>5
<1>. QED  BY <1>1, <1>2

LEMMA CleanDoes ==
    ASSUME IInv, NEW p \in Sups, Clean(p)
    PROVE  /\ Typed' /\ OthersKeep(p) /\ UNCHANGED <<data, state, poolVars, taskVars, history>>
           /\ stage[p] = "clean" /\ stage'[p] \in {"prespawn", "persist"} /\ control' = None
<1>0. TypeOK /\ Typed /\ UNCHANGED <<data, state, poolVars, taskVars, history>>
  BY Typing DEF IInv, Clean
<1>1. /\ stage[p] = "clean" /\ Goto(p, ToPrespawn) /\ control' = None
      /\ ToPrespawn \in Stages /\ ToPrespawn \in {"prespawn", "persist"}
  BY DEF Clean, ToPrespawn, Stages, Removed
<1>2. stage' \in [Sups -> Stages] /\ stage'[p] = ToPrespawn /\ OthersKeep(p)
  BY <1>0, <1>1, Moves DEF history
<1>3. Typed'
  BY <1>0, <1>1, <1>2, MovesTyped DEF Typed, history
<1>. QED  BY <1>0, <1>1, <1>2, <1>3

LEMMA FirstPersistDoes ==
    ASSUME IInv, NEW p \in Sups, FirstPersist(p)
    PROVE  /\ Typed' /\ OthersKeep(p) /\ UNCHANGED <<control, data, poolVars, taskVars, history>>
           /\ stage[p] = "persist" /\ stage'[p] = "bind"
           /\ state' = [of |-> p, agents |-> pool[p]]
<1>0. TypeOK /\ Typed /\ UNCHANGED <<control, data, poolVars, taskVars, history>>
  BY Typing DEF IInv, FirstPersist
<1>1. /\ stage[p] = "persist" /\ Goto(p, "bind") /\ "bind" \in Stages
      /\ state' = [of |-> p, agents |-> pool[p]] /\ state' \in State
  BY <1>0, Saves DEF FirstPersist, Stages
<1>2. stage' \in [Sups -> Stages] /\ stage'[p] = "bind" /\ OthersKeep(p)
  BY <1>0, <1>1, Moves DEF history
<1>3. Typed'
  BY <1>0, <1>1, <1>2, MovesTyped DEF Typed, history
<1>. QED  BY <1>0, <1>1, <1>2, <1>3

LEMMA BindControlDoes ==
    ASSUME IInv, NEW p \in Sups, BindControl(p)
    PROVE  \/ /\ Typed' /\ OthersKeep(p)
              /\ UNCHANGED <<data, state, poolVars, taskVars, history>>
              /\ stage[p] = "bind" /\ stage'[p] = "serve" /\ control' = p
           \/ /\ Typed' /\ OthersKeep(p) /\ stage[p] = "bind" /\ control # None
              /\ Exit(p, "down") /\ UNCHANGED <<fileVars, history>>
<1>0. TypeOK /\ Typed /\ stage[p] = "bind" /\ UNCHANGED <<data, state, history>>
  BY Typing DEF IInv, BindControl
<1>1. CASE control = None
  <2>1. Goto(p, "serve") /\ "serve" \in Stages /\ control' = p /\ UNCHANGED <<poolVars, taskVars>>
    BY <1>1 DEF BindControl, Stages
  <2>2. stage' \in [Sups -> Stages] /\ stage'[p] = "serve" /\ OthersKeep(p)
    BY <1>0, <2>1, Moves DEF history
  <2>3. Typed'
    BY <1>0, <2>1, <2>2, MovesTyped DEF Typed, history
  <2>. QED  BY <1>0, <2>1, <2>2, <2>3
<1>2. CASE control # None
  <2>1. Exit(p, "down") /\ UNCHANGED <<fileVars, history>>
    BY <1>0, <1>2 DEF BindControl, fileVars
  <2>. QED  BY <1>0, <1>2, <2>1, ExitDoes
<1>. QED  BY <1>1, <1>2

LEMMA SignalDoes ==
    ASSUME IInv, NEW p \in Sups, Signal(p)
    PROVE  /\ Typed' /\ OthersKeep(p) /\ UNCHANGED <<fileVars, pool, seq, taskVars, raced>>
           /\ stage[p] = "serve" /\ stage'[p] = "drain" /\ mutex[p] = None /\ mutex'[p] = Main
           /\ untidy'[p] <=> untidy[p] \/ \E j \in Jobs : job[p][j] # "idle"
<1>0. /\ TypeOK /\ Typed /\ stage[p] = "serve" /\ mutex[p] = None
      /\ UNCHANGED <<fileVars, pool, seq, taskVars, raced>>
  BY Typing DEF IInv, Signal
<1>1. stage' = [stage EXCEPT ![p] = "drain"] /\ "drain" \in Stages
  BY DEF Signal, Goto, Stages
<1>2. /\ stage' \in [Sups -> Stages] /\ stage'[p] = "drain"
      /\ \A q \in Sups : q # p => stage'[q] = stage[q]
  BY <1>0, <1>1, Gotos
<1>3. /\ mutex' \in [Sups -> Tasks \cup {None}] /\ mutex'[p] = Main
      /\ \A q \in Sups : q # p => mutex'[q] = mutex[q]
  BY <1>0, MutexAt, Names DEF Signal
<1>4. /\ untidy' \in [Sups -> BOOLEAN]
      /\ untidy'[p] <=> untidy[p] \/ \E j \in Jobs : job[p][j] # "idle"
      /\ \A q \in Sups : q # p => untidy'[q] = untidy[q]
  <2>1. PICK u : /\ u = (untidy[p] \/ \E j \in Jobs : job[p][j] # "idle")
                 /\ untidy' = [untidy EXCEPT ![p] = u]
    BY DEF Signal
  <2>2. u \in BOOLEAN /\ untidy \in [Sups -> BOOLEAN]
    BY <1>0, <2>1 DEF Typed
  <2>3. /\ untidy' \in [Sups -> BOOLEAN] /\ untidy'[p] = u
        /\ \A q \in Sups : q # p => untidy'[q] = untidy[q]
    BY <2>1, <2>2
  <2>. QED  BY <2>1, <2>3
<1>5. Typed'
  BY <1>0, <1>2, <1>3, <1>4 DEF Typed, fileVars, taskVars
<1>6. OthersKeep(p)
  BY <1>0, <1>2, <1>3, <1>4 DEF OthersKeep, taskVars
<1>. QED  BY <1>0, <1>2, <1>3, <1>4, <1>5, <1>6

LEMMA DrainOneDoes ==
    ASSUME IInv, NEW p \in Sups, NEW a \in Ids, DrainOne(p, a)
    PROVE  /\ Typed' /\ OthersKeep(p)
           /\ UNCHANGED <<control, state, stage, seq, mutex, taskVars, history>>
           /\ stage[p] = "drain" /\ a \in pool[p] /\ pool'[p] = pool[p] \ {a}
           /\ data'[a] = None /\ \A b \in Ids : b # a => data'[b] = data[b]
<1>0. /\ TypeOK /\ Typed /\ stage[p] = "drain" /\ a \in pool[p]
      /\ UNCHANGED <<control, state, stage, seq, mutex, taskVars, history>>
  BY Typing DEF IInv, DrainOne
<1>1. /\ pool' \in [Sups -> SUBSET Ids] /\ pool'[p] = pool[p] \ {a}
      /\ \A q \in Sups : q # p => pool'[q] = pool[q]
  <2>1. pool[p] \ {a} \in SUBSET Ids
    BY <1>0 DEF Typed
  <2>2. pool' = [pool EXCEPT ![p] = pool[p] \ {a}]
    BY DEF DrainOne
  <2>. QED  BY <1>0, <2>1, <2>2, PoolAt
<1>2. /\ data' \in [Ids -> Sups \cup {None}] /\ data'[a] = None
      /\ \A b \in Ids : b # a => data'[b] = data[b]
  BY <1>0, DataAt DEF DrainOne, WithSocket
<1>3. Typed'
  BY <1>0, <1>1, <1>2 DEF Typed, taskVars, history
<1>4. OthersKeep(p)
  BY <1>0, <1>1 DEF OthersKeep, taskVars, history
<1>. QED  BY <1>0, <1>1, <1>2, <1>3, <1>4

LEMMA DrainedDoes ==
    ASSUME IInv, NEW p \in Sups, Drained(p)
    PROVE  /\ Typed' /\ OthersKeep(p) /\ UNCHANGED <<fileVars, pool, seq, taskVars, history>>
           /\ stage[p] = "drain" /\ stage'[p] = "unlink control"
           /\ pool[p] = {} /\ mutex'[p] = None
<1>0. /\ TypeOK /\ Typed /\ stage[p] = "drain" /\ pool[p] = {}
      /\ UNCHANGED <<fileVars, pool, seq, taskVars, history>>
  BY Typing DEF IInv, Drained
<1>1. stage' = [stage EXCEPT ![p] = "unlink control"] /\ "unlink control" \in Stages
  BY DEF Drained, Goto, Stages
<1>2. /\ stage' \in [Sups -> Stages] /\ stage'[p] = "unlink control"
      /\ \A q \in Sups : q # p => stage'[q] = stage[q]
  BY <1>0, <1>1, Gotos
<1>3. /\ mutex' \in [Sups -> Tasks \cup {None}] /\ mutex'[p] = None
      /\ \A q \in Sups : q # p => mutex'[q] = mutex[q]
  BY <1>0, MutexAt DEF Drained
<1>4. Typed'
  BY <1>0, <1>2, <1>3 DEF Typed, fileVars, taskVars, history
<1>5. OthersKeep(p)
  BY <1>0, <1>2, <1>3 DEF OthersKeep, taskVars, history
<1>. QED  BY <1>0, <1>2, <1>3, <1>4, <1>5

LEMMA UnlinkControlDoes ==
    ASSUME IInv, NEW p \in Sups, UnlinkControl(p)
    PROVE  /\ Typed' /\ OthersKeep(p) /\ UNCHANGED <<data, state, poolVars, taskVars, history>>
           /\ stage[p] = "unlink control" /\ stage'[p] = "unlink state" /\ control' = None
<1>0. TypeOK /\ Typed /\ UNCHANGED <<data, state, poolVars, taskVars, history>>
  BY Typing DEF IInv, UnlinkControl
<1>1. /\ stage[p] = "unlink control" /\ Goto(p, "unlink state") /\ control' = None
      /\ "unlink state" \in Stages
  BY DEF UnlinkControl, Stages
<1>2. stage' \in [Sups -> Stages] /\ stage'[p] = "unlink state" /\ OthersKeep(p)
  BY <1>0, <1>1, Moves DEF history
<1>3. Typed'
  BY <1>0, <1>1, <1>2, MovesTyped DEF Typed, history
<1>. QED  BY <1>0, <1>1, <1>2, <1>3

LEMMA UnlinkStateDoes ==
    ASSUME IInv, NEW p \in Sups, UnlinkState(p)
    PROVE  /\ Typed' /\ OthersKeep(p) /\ UNCHANGED <<control, data, poolVars, taskVars, history>>
           /\ stage[p] = "unlink state" /\ stage'[p] = "exit" /\ state' = None
<1>0. TypeOK /\ Typed /\ UNCHANGED <<control, data, poolVars, taskVars, history>>
  BY Typing DEF IInv, UnlinkState
<1>1. /\ stage[p] = "unlink state" /\ Goto(p, "exit") /\ state' = None /\ "exit" \in Stages
  BY DEF UnlinkState, Stages
<1>2. stage' \in [Sups -> Stages] /\ stage'[p] = "exit" /\ OthersKeep(p)
  BY <1>0, <1>1, Moves DEF history
<1>3. Typed'
  BY <1>0, <1>1, <1>2, MovesTyped DEF Typed, history
<1>. QED  BY <1>0, <1>1, <1>2, <1>3

LEMMA StepKeeps == ASSUME IInv, NEW p \in Sups, Step(p) PROVE Typed' /\ OthersKeep(p)
<1>0. TypeOK
  BY DEF IInv
<1>1. CASE Launch(p)
  BY <1>1, LaunchDoes
<1>2. CASE Clean(p) \/ FirstPersist(p) \/ BindControl(p)
  BY <1>2, CleanDoes, FirstPersistDoes, BindControlDoes
<1>3. CASE SpawnNext(p)
  BY <1>3, SpawnDoes, Names DEF SpawnNext
<1>4. CASE (\E a \in Ids : DrainOne(p, a)) \/ Drained(p)
  BY <1>4, DrainOneDoes, DrainedDoes
<1>5. CASE UnlinkControl(p) \/ UnlinkState(p)
  BY <1>5, UnlinkControlDoes, UnlinkStateDoes
<1>6. CASE Return(p) \/ Crash(p)
  BY <1>0, <1>6, ExitDoes DEF Return, Crash
<1>7. CASE Signal(p)
  BY <1>7, SignalDoes
<1>8. ASSUME NEW j \in Jobs, Request(p, j) PROVE Typed' /\ OthersKeep(p)
  <2>1. CASE Spawn(p, j)
    BY <2>1, SpawnDoes, Names
  <2>2. ASSUME NEW a \in Ids, Kill(p, j, a) PROVE Typed' /\ OthersKeep(p)
    BY <2>2, KillDoes
  <2>. QED  BY <1>8, <2>1, <2>2 DEF Request
<1>9. ASSUME NEW j \in Tasks, TaskStep(p, j) PROVE Typed' /\ OthersKeep(p)
  <2>1. CASE Clear(p, j) \/ BindData(p, j) \/ Child(p, j)
    BY <2>1, ClearDoes, BindDataDoes, ChildDoes
  <2>2. CASE Insert(p, j) \/ Killed(p, j) \/ Persist(p, j)
    BY <2>2, InsertDoes, KilledDoes, PersistDoes
  <2>. QED  BY <1>9, <2>1, <2>2 DEF TaskStep
<1>. QED  BY <1>1, <1>2, <1>3, <1>4, <1>5, <1>6, <1>7, <1>8, <1>9 DEF Step, MainStep

\* What a supervisor keeps to by itself.
OfItself(p) == Locked(p) /\ OwnIds(p) /\ InPhase(p)

\* It does, as long as its own state is left alone.
LEMMA LeftAlone ==
    ASSUME NEW q \in Sups, OfItself(q),
           UNCHANGED <<stage[q], pool[q], seq[q], mutex[q], job[q], id[q], untidy[q]>>
    PROVE  OfItself(q)'
<1>1. Locked(q)'
  BY DEF OfItself, Locked
<1>2. OwnIds(q)'
  BY DEF OfItself, OwnIds
<1>3. InPhase(q)'
  BY DEF OfItself, InPhase, Alive, Listening
<1>. QED  BY <1>1, <1>2, <1>3 DEF OfItself

LEMMA Itself == ASSUME IInv, NEW p \in Sups PROVE OfItself(p)
  BY TypeParts DEF IInv, Local, OfItself

\* A task that spawns goes on spawning, or fails.
LEMMA SpawningItself ==
    ASSUME IInv, NEW p \in Sups, NEW j \in Tasks, RestKeep(p, j),
           job[p][j] \in Spawning,
           \/ job'[p][j] \in Spawning /\ UNCHANGED <<stage, id, untidy>>
           \/ /\ job'[p][j] = "idle" /\ untidy'[p]
              /\ \/ stage'[p] = stage[p]
                 \/ j = Main /\ stage[p] = "prespawn" /\ stage'[p] = "persist",
           UNCHANGED poolVars
    PROVE  OfItself(p)'
<1>0. OfItself(p)
  BY Itself
<1>1. Locked(p)'
  <2>1. mutex' = mutex /\ Locked(p)
    BY <1>0 DEF OfItself, poolVars
  <2>2. job[p][j] # "kill" /\ job'[p][j] # "kill"
    BY DEF Spawning
  <2>3. \A k \in Jobs : job'[p][k] = "kill" <=> job[p][k] = "kill"
    BY <2>2, Names DEF RestKeep
  <2>4. stage[p] = "drain" <=> stage'[p] = "drain"
    OBVIOUS
  <2>. QED  BY <2>1, <2>3, <2>4 DEF Locked
<1>2. OwnIds(p)'
  BY <1>0 DEF OfItself, OwnIds, RestKeep, poolVars, Spawning
<1>3. InPhase(p)'
  BY <1>0, Names DEF OfItself, InPhase, RestKeep, poolVars, Spawning, Alive, Listening
<1>. QED  BY <1>1, <1>2, <1>3 DEF OfItself

LEMMA InsertItself ==
    ASSUME IInv, NEW p \in Sups, NEW j \in Tasks, Insert(p, j)
    PROVE  OfItself(p)'
<1>0. /\ OfItself(p) /\ RestKeep(p, j) /\ TypeOK
      /\ job[p][j] = "insert" /\ mutex[p] = None
      /\ pool'[p] = pool[p] \cup {id[p][j]}
      /\ \/ j = Main /\ job'[p][j] = "idle"
         \/ j \in Jobs /\ job'[p][j] = "persist" /\ UNCHANGED id
      /\ \/ stage'[p] = stage[p]
         \/ j = Main /\ stage[p] = "prespawn" /\ stage'[p] = "persist"
      /\ UNCHANGED <<seq, mutex, untidy>>
  BY Itself, InsertDoes DEF history, IInv
<1>1. j = Main => stage[p] = "prespawn"
  BY <1>0 DEF OfItself, InPhase
<1>2. j # Main => stage[p] \in {"serve", "unlink control", "unlink state", "exit"}
  BY <1>0, Names DEF OfItself, InPhase, Locked, Listening
<1>3. Locked(p)'
  BY <1>0, <1>1, Names DEF OfItself, Locked, RestKeep
<1>4. OwnIds(p)'
  BY <1>0 DEF OfItself, OwnIds, RestKeep, Spawning
<1>5. InPhase(p)'
  BY <1>0, <1>1, <1>2, Names DEF OfItself, InPhase, RestKeep, Spawning, Alive, Listening
<1>. QED  BY <1>3, <1>4, <1>5 DEF OfItself

LEMMA TaskItself ==
    ASSUME IInv, NEW p \in Sups, NEW j \in Tasks, TaskStep(p, j)
    PROVE  OfItself(p)'
<1>0. OfItself(p)
  BY Itself
<1>1. CASE Clear(p, j)
  <2>1. /\ RestKeep(p, j) /\ job[p][j] = "clear" /\ job'[p][j] = "bind"
        /\ UNCHANGED <<stage, poolVars, id, untidy>>
    BY <1>1, ClearDoes DEF history
  <2>. QED  BY <2>1, SpawningItself DEF Spawning
<1>2. CASE BindData(p, j)
  <2>1. RestKeep(p, j) /\ job[p][j] \in Spawning /\ UNCHANGED poolVars
    BY <1>2, BindDataDoes DEF Spawning
  <2>2. \/ job'[p][j] \in Spawning /\ UNCHANGED <<stage, id, untidy>>
        \/ /\ job'[p][j] = "idle" /\ untidy'[p]
           /\ \/ stage'[p] = stage[p]
              \/ j = Main /\ stage[p] = "prespawn" /\ stage'[p] = "persist"
    BY <1>2, BindDataDoes DEF Spawning, history
  <2>. QED  BY <2>1, <2>2, SpawningItself
<1>3. CASE Child(p, j)
  <2>1. RestKeep(p, j) /\ job[p][j] \in Spawning /\ UNCHANGED poolVars
    BY <1>3, ChildDoes DEF Spawning
  <2>2. \/ job'[p][j] \in Spawning /\ UNCHANGED <<stage, id, untidy>>
        \/ /\ job'[p][j] = "idle" /\ untidy'[p]
           /\ \/ stage'[p] = stage[p]
              \/ j = Main /\ stage[p] = "prespawn" /\ stage'[p] = "persist"
    BY <1>3, ChildDoes DEF Spawning, history
  <2>. QED  BY <2>1, <2>2, SpawningItself
<1>4. CASE Killed(p, j)
  <2>1. /\ RestKeep(p, j) /\ job[p][j] = "kill" /\ job'[p][j] = "persist" /\ mutex'[p] = None
        /\ UNCHANGED <<stage, pool, seq, id, untidy>>
    BY <1>4, KilledDoes DEF history
  <2>2. j \in Jobs /\ mutex[p] = j
    BY <1>0, <2>1, Names DEF OfItself, Locked, InPhase, Spawning
  <2>3. Locked(p)'
    BY <1>0, <2>1, <2>2, Names DEF OfItself, Locked, RestKeep
  <2>4. OwnIds(p)'
    BY <1>0, <2>1 DEF OfItself, OwnIds, RestKeep, Spawning
  <2>5. InPhase(p)'
    BY <1>0, <2>1, <2>2, Names DEF OfItself, InPhase, RestKeep, Spawning, Alive, Listening
  <2>. QED  BY <2>3, <2>4, <2>5 DEF OfItself
<1>5. CASE Persist(p, j)
  <2>1. /\ RestKeep(p, j) /\ job[p][j] = "persist" /\ job'[p][j] = "idle"
        /\ UNCHANGED <<stage, poolVars, untidy>>
    BY <1>5, PersistDoes DEF history
  <2>2. Locked(p)'
    BY <1>0, <2>1, Names DEF OfItself, Locked, RestKeep, poolVars
  <2>3. OwnIds(p)'
    BY <1>0, <2>1 DEF OfItself, OwnIds, RestKeep, Spawning, poolVars
  <2>4. InPhase(p)'
    BY <1>0, <2>1, Names DEF OfItself, InPhase, RestKeep, Spawning, Alive, Listening, poolVars
  <2>. QED  BY <2>2, <2>3, <2>4 DEF OfItself
<1>. QED  BY <1>1, <1>2, <1>3, <1>4, <1>5, InsertItself DEF TaskStep

LEMMA SpawnItself ==
    ASSUME IInv, NEW p \in Sups, NEW j \in Tasks, Spawn(p, j),
           IF j = Main THEN stage[p] = "prespawn" ELSE stage[p] = "serve"
    PROVE  OfItself(p)'
<1>0. /\ OfItself(p) /\ RestKeep(p, j) /\ job[p][j] = "idle" /\ job'[p][j] = "clear"
      /\ seq[p] \in Nat /\ seq'[p] = seq[p] + 1 /\ id'[p][j] = seq[p] + 1
      /\ UNCHANGED <<stage, pool, mutex, untidy>>
  BY Itself, SpawnDoes DEF history
<1>1. Locked(p)'
  BY <1>0, Names DEF OfItself, Locked, RestKeep
<1>2. pool'[p] \subseteq 1..seq'[p] /\ \A k \in Tasks : job'[p][k] # "idle" => id'[p][k] \in 1..seq'[p]
  BY <1>0 DEF OfItself, OwnIds, RestKeep
<1>3. id'[p][j] \notin pool[p] /\ \A k \in Tasks : k # j /\ job[p][k] # "idle" => id[p][k] # id'[p][j]
  BY <1>0 DEF OfItself, OwnIds
<1>4. OwnIds(p)'
  BY <1>0, <1>2, <1>3 DEF OfItself, OwnIds, RestKeep, Spawning
<1>5. InPhase(p)'
  BY <1>0, Names DEF OfItself, InPhase, RestKeep, Spawning, Alive, Listening
<1>. QED  BY <1>1, <1>4, <1>5 DEF OfItself

LEMMA KillItself ==
    ASSUME IInv, NEW p \in Sups, NEW j \in Jobs, NEW a \in Ids, Kill(p, j, a), stage[p] = "serve"
    PROVE  OfItself(p)'
<1>0. /\ OfItself(p) /\ RestKeep(p, j) /\ job[p][j] = "idle" /\ job'[p][j] = "kill"
      /\ mutex[p] = None /\ mutex'[p] = j
      /\ a \in pool[p] /\ pool'[p] = pool[p] \ {a} /\ id'[p][j] = a
      /\ UNCHANGED <<stage, seq, untidy>>
  BY Itself, KillDoes DEF history
<1>1. Locked(p)'
  BY <1>0, Names DEF OfItself, Locked, RestKeep
<1>2. OwnIds(p)'
  BY <1>0, Names DEF OfItself, OwnIds, RestKeep, Spawning
<1>3. InPhase(p)'
  BY <1>0, Names DEF OfItself, InPhase, RestKeep, Spawning, Alive, Listening
<1>. QED  BY <1>1, <1>2, <1>3 DEF OfItself

LEMMA MovesItself ==
    ASSUME IInv, NEW p \in Sups, UNCHANGED <<poolVars, taskVars, untidy>>,
           \/ stage[p] = "off" /\ stage'[p] \in {"refused", "clean", "prespawn", "persist"}
           \/ stage[p] = "clean" /\ stage'[p] \in {"prespawn", "persist"}
           \/ stage[p] = "persist" /\ stage'[p] = "bind"
           \/ stage[p] = "bind" /\ stage'[p] = "serve"
           \/ stage[p] = "unlink control" /\ stage'[p] = "unlink state"
           \/ stage[p] = "unlink state" /\ stage'[p] = "exit"
    PROVE  OfItself(p)'
<1>0. OfItself(p)
  BY Itself
<1>1. Locked(p)'
  BY <1>0 DEF OfItself, Locked, poolVars, taskVars
<1>2. OwnIds(p)'
  BY <1>0 DEF OfItself, OwnIds, poolVars, taskVars
<1>3. InPhase(p)'
  BY <1>0 DEF OfItself, InPhase, poolVars, taskVars, Alive, Listening
<1>. QED  BY <1>1, <1>2, <1>3 DEF OfItself

LEMMA ExitItself ==
    ASSUME IInv, NEW p \in Sups, NEW how \in {"down", "crashed"}, Exit(p, how)
    PROVE  OfItself(p)'
<1>1. /\ stage'[p] = how /\ pool'[p] = {} /\ mutex'[p] = None
      /\ \A j \in Tasks : job'[p][j] = "idle"
  BY Exits DEF IInv
<1>2. Locked(p)'
  BY <1>1, Names DEF Locked
<1>3. OwnIds(p)'
  BY <1>1 DEF OwnIds, Spawning
<1>4. InPhase(p)'
  BY <1>1, Names DEF InPhase
<1>. QED  BY <1>2, <1>3, <1>4 DEF OfItself

LEMMA MainItself ==
    ASSUME IInv, NEW p \in Sups, Launch(p) \/ MainStep(p) \/ Signal(p) \/ Crash(p)
    PROVE  OfItself(p)'
<1>0. OfItself(p)
  BY Itself
<1>1. CASE Launch(p)
  BY <1>1, LaunchDoes, MovesItself
<1>2. CASE Clean(p)
  BY <1>2, CleanDoes, MovesItself DEF history
<1>3. CASE SpawnNext(p)
  BY <1>3, SpawnItself, Names DEF SpawnNext
<1>4. CASE FirstPersist(p)
  BY <1>4, FirstPersistDoes, MovesItself DEF history
<1>5. CASE BindControl(p)
  BY <1>5, BindControlDoes, MovesItself, ExitItself DEF history
<1>6. ASSUME NEW a \in Ids, DrainOne(p, a) PROVE OfItself(p)'
  <2>1. /\ UNCHANGED <<stage, seq, mutex, taskVars, untidy>>
        /\ stage[p] = "drain" /\ pool'[p] = pool[p] \ {a}
    BY <1>6, DrainOneDoes DEF history
  <2>. QED  BY <1>0, <2>1 DEF OfItself, Locked, OwnIds, InPhase, taskVars, Alive, Listening
<1>7. CASE Drained(p)
  <2>1. /\ UNCHANGED <<pool, seq, taskVars, untidy>>
        /\ stage[p] = "drain" /\ stage'[p] = "unlink control" /\ mutex[p] = Main /\ mutex'[p] = None
    BY <1>0, <1>7, DrainedDoes DEF history, OfItself, Locked
  <2>. QED  BY <1>0, <2>1, Names DEF OfItself, Locked, OwnIds, InPhase, taskVars, Alive, Listening
<1>8. CASE UnlinkControl(p)
  BY <1>8, UnlinkControlDoes, MovesItself DEF history
<1>9. CASE UnlinkState(p)
  BY <1>9, UnlinkStateDoes, MovesItself DEF history
<1>10. CASE Return(p) \/ Crash(p)
  BY <1>10, ExitItself DEF Return, Crash
<1>11. CASE Signal(p)
  <2>1. /\ UNCHANGED <<pool, seq, taskVars>>
        /\ stage[p] = "serve" /\ stage'[p] = "drain" /\ mutex[p] = None /\ mutex'[p] = Main
        /\ untidy'[p] <=> untidy[p] \/ \E j \in Jobs : job[p][j] # "idle"
    BY <1>11, SignalDoes
  <2>2. Locked(p)'
    BY <1>0, <2>1, Names DEF OfItself, Locked, taskVars
  <2>3. OwnIds(p)'
    BY <1>0, <2>1 DEF OfItself, OwnIds, taskVars
  <2>4. InPhase(p)'
    BY <1>0, <2>1, Names DEF OfItself, InPhase, taskVars, Alive, Listening
  <2>. QED  BY <2>2, <2>3, <2>4 DEF OfItself
<1>. QED  BY <1>1, <1>2, <1>3, <1>4, <1>5, <1>6, <1>7, <1>8, <1>9, <1>10, <1>11 DEF MainStep

LEMMA OfItselfStep == ASSUME IInv, [Next]_vars PROVE TypeOK' /\ Local'
<1>1. ASSUME NEW p \in Sups, Step(p) PROVE Typed' /\ \A q \in Sups : OfItself(q)'
  <2>1. Typed' /\ OthersKeep(p)
    BY <1>1, StepKeeps
  <2>2. OfItself(p)'
    <3>1. ASSUME NEW j \in Jobs, Request(p, j) PROVE OfItself(p)'
      BY <3>1, SpawnItself, KillItself, Names DEF Request, Accepts
    <3>2. ASSUME NEW j \in Tasks, TaskStep(p, j) PROVE OfItself(p)'
      BY <3>2, TaskItself
    <3>. QED  BY <1>1, <3>1, <3>2, MainItself DEF Step
  <2>3. ASSUME NEW q \in Sups, q # p PROVE OfItself(q)'
    <3>1. OfItself(q)
      BY Itself
    <3>2. UNCHANGED <<stage[q], pool[q], seq[q], mutex[q], job[q], id[q], untidy[q]>>
      BY <2>1, <2>3 DEF OthersKeep
    <3>. QED  BY <3>1, <3>2, LeftAlone
  <2>. QED  BY <2>1, <2>2, <2>3
<1>2. ASSUME UNCHANGED vars PROVE Typed' /\ \A q \in Sups : OfItself(q)'
  <2>1. Typed'
    BY <1>2, Typing DEF IInv, Typed, vars, fileVars, poolVars, taskVars, history
  <2>2. ASSUME NEW q \in Sups PROVE OfItself(q)'
    <3>1. UNCHANGED <<stage[q], pool[q], seq[q], mutex[q], job[q], id[q], untidy[q]>>
      BY <1>2 DEF vars, poolVars, taskVars, history
    <3>. QED  BY <3>1, Itself, LeftAlone
  <2>. QED  BY <2>1, <2>2
<1>3. Typed' /\ \A q \in Sups : OfItself(q)'
  BY <1>1, <1>2 DEF Next, Step
<1>4. (Typed /\ \A p \in Sups : Locked(p))' => TypeOK'
  <2>1. TypeOK' <=> (Typed /\ \A p \in Sups : Locked(p))'
    BY DEF TypeOK, Typed, Stages, Works, Locked
  <2>. QED  BY <2>1
<1>. QED  BY <1>3, <1>4 DEF OfItself, Local

-----------------------------------------------------------------------------
(* The control socket, and who is alive.                                   *)

\* The way of a supervisor, after its launch.
LEMMA Progress ==
    ASSUME IInv, NEW p \in Sups, Step(p), ~Launch(p)
    PROVE  /\ raced' = raced
           /\ \/ stage'[p] = stage[p] /\ control' = control
              \/ stage[p] = "clean" /\ stage'[p] \in {"prespawn", "persist"} /\ control' = None
              \/ stage[p] = "prespawn" /\ stage'[p] = "persist" /\ control' = control
              \/ stage[p] = "persist" /\ stage'[p] = "bind" /\ control' = control
              \/ stage[p] = "bind" /\ stage'[p] = "serve" /\ control' = p
              \/ stage[p] = "serve" /\ stage'[p] = "drain" /\ control' = control
              \/ stage[p] = "drain" /\ stage'[p] = "unlink control" /\ control' = control
              \/ stage[p] = "unlink control" /\ stage'[p] = "unlink state" /\ control' = None
              \/ stage[p] = "unlink state" /\ stage'[p] = "exit" /\ control' = control
              \/ stage[p] \in {"bind", "exit"} /\ control' = control /\ stage'[p] = "down"
              \/ Alive(p) /\ control' = control /\ stage'[p] = "crashed"
<1> DEFINE P == raced' = raced
           Q == \/ stage'[p] = stage[p] /\ control' = control
                \/ stage[p] = "clean" /\ stage'[p] \in {"prespawn", "persist"} /\ control' = None
                \/ stage[p] = "prespawn" /\ stage'[p] = "persist" /\ control' = control
                \/ stage[p] = "persist" /\ stage'[p] = "bind" /\ control' = control
                \/ stage[p] = "bind" /\ stage'[p] = "serve" /\ control' = p
                \/ stage[p] = "serve" /\ stage'[p] = "drain" /\ control' = control
                \/ stage[p] = "drain" /\ stage'[p] = "unlink control" /\ control' = control
                \/ stage[p] = "unlink control" /\ stage'[p] = "unlink state" /\ control' = None
                \/ stage[p] = "unlink state" /\ stage'[p] = "exit" /\ control' = control
                \/ stage[p] \in {"bind", "exit"} /\ control' = control /\ stage'[p] = "down"
                \/ Alive(p) /\ control' = control /\ stage'[p] = "crashed"
<1>0. TypeOK
  BY DEF IInv
<1>1. ASSUME Clean(p) \/ FirstPersist(p) PROVE P /\ Q
  BY <1>1, CleanDoes, FirstPersistDoes DEF history
<1>2. ASSUME BindControl(p) PROVE P /\ Q
  <2>1. CASE Exit(p, "down") /\ UNCHANGED <<fileVars, history>>
    <3>1. stage'[p] = "down" /\ stage[p] = "bind"
      BY <1>0, <1>2, <2>1, ExitDoes DEF BindControl
    <3>. QED  BY <2>1, <3>1 DEF fileVars, history
  <2>. QED  BY <1>2, <2>1, BindControlDoes DEF history
<1>3. ASSUME SpawnNext(p) PROVE P /\ Q
  BY <1>3, SpawnDoes, Names DEF SpawnNext, history, fileVars
<1>4. ASSUME (\E a \in Ids : DrainOne(p, a)) \/ Drained(p) PROVE P /\ Q
  BY <1>4, DrainOneDoes, DrainedDoes DEF history, fileVars
<1>5. ASSUME UnlinkControl(p) \/ UnlinkState(p) PROVE P /\ Q
  BY <1>5, UnlinkControlDoes, UnlinkStateDoes DEF history
<1>6. ASSUME Return(p) \/ Crash(p) PROVE P /\ Q
  <2>1. PICK how \in {"down", "crashed"} :
            /\ Exit(p, how) /\ UNCHANGED <<fileVars, history>> /\ Alive(p)
            /\ how = "down" => stage[p] = "exit"
    BY <1>6 DEF Return, Crash, Alive
  <2>2. stage'[p] = how
    BY <1>0, <2>1, ExitDoes
  <2>. QED  BY <2>1, <2>2 DEF fileVars, history
<1>7. ASSUME Signal(p) PROVE P /\ Q
  BY <1>7, SignalDoes DEF fileVars
<1>8. ASSUME NEW j \in Jobs, Request(p, j) PROVE P /\ Q
  <2>1. CASE Spawn(p, j)
    BY <2>1, SpawnDoes, Names DEF history, fileVars
  <2>2. ASSUME NEW a \in Ids, Kill(p, j, a) PROVE P /\ Q
    BY <2>2, KillDoes DEF history, fileVars
  <2>. QED  BY <1>8, <2>1, <2>2 DEF Request
<1>9. ASSUME NEW j \in Tasks, TaskStep(p, j) PROVE P /\ Q
  <2>1. CASE Clear(p, j) \/ BindData(p, j) \/ Child(p, j)
    BY <2>1, ClearDoes, BindDataDoes, ChildDoes DEF history, fileVars
  <2>2. CASE Insert(p, j) \/ Killed(p, j) \/ Persist(p, j)
    BY <2>2, InsertDoes, KilledDoes, PersistDoes DEF history, fileVars
  <2>. QED  BY <1>9, <2>1, <2>2 DEF TaskStep
<1>. HIDE DEF P, Q
<1>10. P /\ Q
  BY <1>1, <1>2, <1>3, <1>4, <1>5, <1>6, <1>7, <1>8, <1>9 DEF Step, MainStep
<1>. QED  BY <1>10 DEF P, Q

LEMMA OwnControlStep == ASSUME IInv, [Next]_vars PROVE OwnControl'
<1>0. OwnControl
  BY DEF IInv
<1>1. ASSUME NEW p \in Sups, Step(p) PROVE OwnControl'
  <2>1. \A q \in Sups : q # p => stage'[q] = stage[q]
    BY <1>1, StepKeeps DEF OthersKeep
  <2>2. CASE Launch(p)
    <3>1. control' = control /\ stage[p] = "off"
      BY <2>2, LaunchDoes DEF fileVars
    <3>. QED  BY <1>0, <2>1, <3>1 DEF OwnControl
  <2>3. CASE ~Launch(p)
    <3>1. control' = p => stage'[p] \in {"serve", "drain", "unlink control", "crashed"}
      BY <1>0, <1>1, <2>3, Progress, Names DEF OwnControl
    <3>2. ASSUME NEW q \in Sups, q # p, control' = q PROVE control = q
      BY <1>1, <2>3, <3>2, Progress, Names
    <3>. QED  BY <1>0, <2>1, <3>1, <3>2 DEF OwnControl
  <2>. QED  BY <2>2, <2>3
<1>2. ASSUME UNCHANGED vars PROVE OwnControl'
  BY <1>0, <1>2 DEF OwnControl, vars, fileVars
<1>. QED  BY <1>1, <1>2 DEF Next, Step

LEMMA AloneStep == ASSUME IInv, [Next]_vars PROVE Alone'
<1>0. TypeOK /\ Typed /\ OwnControl /\ Alone
  BY Typing DEF IInv
<1>1. ASSUME NEW p \in Sups, Launch(p) PROVE Alone'
  <2>1. OthersKeep(p) /\ stage[p] = "off" /\ control' = control
    BY <1>1, LaunchDoes DEF fileVars
  <2>2. \A q \in Sups : q # p => (Alive(q)' <=> Alive(q))
    BY <2>1 DEF OthersKeep, Alive
  <2>3. CASE SomeoneAnswers
    <3>1. raced' = raced /\ ~Alive(p)'
      BY <1>1, <2>3, LaunchDoes DEF Alive
    <3>. QED  BY <1>0, <2>2, <3>1 DEF Alone
  <2>4. CASE ~SomeoneAnswers
    <3>1. SUFFICES ASSUME ~raced', NEW q \in Sups, Alive(q), q # p PROVE FALSE
      BY <2>2 DEF Alone
    <3>2. control = q
      BY <1>1, <2>4, <3>1, LaunchDoes DEF Unguarded
    <3>3. Listening(q)
      BY <1>0, <3>1, <3>2 DEF OwnControl, Typed, Stages, Alive, Listening
    <3>. QED  BY <2>4, <3>2, <3>3, Names DEF SomeoneAnswers
  <2>. QED  BY <2>3, <2>4
<1>2. ASSUME NEW p \in Sups, Step(p), ~Launch(p) PROVE Alone'
  <2>1. raced' = raced /\ (Alive(p)' => Alive(p))
    BY <1>2, Progress DEF Alive
  <2>2. \A q \in Sups : q # p => (Alive(q)' <=> Alive(q))
    BY <1>2, StepKeeps DEF OthersKeep, Alive
  <2>. QED  BY <1>0, <2>1, <2>2 DEF Alone
<1>3. ASSUME UNCHANGED vars PROVE Alone'
  BY <1>0, <1>3 DEF Alone, vars, history, Alive
<1>. QED  BY <1>1, <1>2, <1>3 DEF Next, Step

-----------------------------------------------------------------------------
(* The files of a supervisor that is alone.                                *)

\* A supervisor that is not there takes no step but its launch.
LEMMA OnlyTheLiving ==
    ASSUME IInv, NEW p \in Sups, Step(p), ~Launch(p)
    PROVE  Alive(p)
<1>0. InPhase(p)
  BY DEF IInv, Local
<1>1. ASSUME NEW j \in Tasks, TaskStep(p, j) PROVE Alive(p)
  <2>1. job[p][j] # "idle"
    BY <1>1 DEF TaskStep, Clear, BindData, Child, Insert, Killed, Persist
  <2>. QED  BY <1>0, <2>1, Names DEF InPhase, Listening, Alive
<1>2. ASSUME NEW j \in Jobs, Request(p, j) PROVE Alive(p)
  BY <1>2 DEF Request, Accepts, Alive
<1>3. CASE MainStep(p) \/ Signal(p) \/ Crash(p)
  BY <1>3 DEF MainStep, Clean, SpawnNext, FirstPersist, BindControl, DrainOne, Drained, UnlinkControl,
              UnlinkState, Return, Signal, Crash, Alive
<1>. QED  BY <1>1, <1>2, <1>3 DEF Step

\* A step of p makes files p's, or removes them, or leaves them.
LEMMA FilesTouched ==
    ASSUME IInv, NEW p \in Sups, Step(p)
    PROVE  /\ \A a \in Ids : data'[a] \in {data[a], None, p}
           /\ state' = state \/ state' = None \/ state'.of = p
<1> DEFINE P == \A a \in Ids : data'[a] \in {data[a], None, p}
           Q == state' = state \/ state' = None \/ state'.of = p
<1>1. ASSUME Launch(p) \/ Clean(p) \/ FirstPersist(p) PROVE P /\ Q
  BY <1>1, LaunchDoes, CleanDoes, FirstPersistDoes DEF fileVars
<1>2. ASSUME BindControl(p) PROVE P /\ Q
  BY <1>2 DEF BindControl
<1>3. ASSUME SpawnNext(p) PROVE P /\ Q
  BY <1>3 DEF SpawnNext, Spawn, fileVars
<1>4. ASSUME (\E a \in Ids : DrainOne(p, a)) \/ Drained(p) PROVE P /\ Q
  BY <1>4, DrainOneDoes, DrainedDoes DEF fileVars
<1>5. ASSUME UnlinkControl(p) \/ UnlinkState(p) PROVE P /\ Q
  BY <1>5, UnlinkControlDoes, UnlinkStateDoes
<1>6. ASSUME Return(p) \/ Crash(p) \/ Signal(p) PROVE P /\ Q
  BY <1>6 DEF Return, Crash, Signal, fileVars
<1>7. ASSUME NEW j \in Jobs, Request(p, j) PROVE P /\ Q
  BY <1>7 DEF Request, Spawn, Kill, fileVars
<1>8. ASSUME NEW j \in Tasks, TaskStep(p, j) PROVE P /\ Q
  <2>1. CASE Clear(p, j) \/ BindData(p, j) \/ Killed(p, j)
    BY <2>1, ClearDoes, BindDataDoes, KilledDoes DEF fileVars
  <2>2. CASE Child(p, j) \/ Insert(p, j) \/ Persist(p, j)
    BY <2>2, ChildDoes, InsertDoes, PersistDoes DEF fileVars
  <2>. QED  BY <1>8, <2>1, <2>2 DEF TaskStep
<1>. HIDE DEF P, Q
<1>9. P /\ Q
  BY <1>1, <1>2, <1>3, <1>4, <1>5, <1>6, <1>7, <1>8 DEF Step, MainStep
<1>. QED  BY <1>9 DEF P, Q

\* What a supervisor's files are to it.
Files(p) == Reaches(p) /\ Listens(p) /\ Tells(p) /\ Cleans(p)

\* The files of one supervisor do not suffer from the step of another, if no
\* window was open.
LEMMA OthersFiles ==
    ASSUME IInv, ~raced, NEW p \in Sups, Step(p), NEW q \in Sups, q # p
    PROVE  Files(q)'
<1>0. /\ Reaches(q) /\ Listens(q) /\ Tells(q) /\ Cleans(q)
      /\ UNCHANGED <<stage[q], pool[q], seq[q], mutex[q], job[q], id[q], untidy[q]>>
      /\ \A r, s \in Sups : Alive(r) /\ Alive(s) => r = s
  BY StepKeeps DEF IInv, Owner, Alone, OthersKeep
<1>1. Cleans(q)'
  <2>1. SUFFICES ASSUME ~untidy[q], stage[q] # "crashed" PROVE Cleans(q)'
    BY <1>0 DEF Cleans
  <2>2. \A a \in Ids : data'[a] = q => data[a] = q
    BY FilesTouched, Names
  <2>3. \A a \in Ids : /\ HasListener(q, a)' <=> HasListener(q, a)
                       /\ IsRemoving(q, a)' <=> IsRemoving(q, a)
    BY <1>0 DEF HasListener, IsRemoving
  <2>4. state' = state \/ state' = None \/ state'.of # q
    BY FilesTouched
  <2>. QED  BY <1>0, <2>1, <2>2, <2>3, <2>4 DEF Cleans
<1>2. CASE ~Alive(q)
  BY <1>0, <1>1, <1>2 DEF Files, Reaches, Listens, Tells, Alive
<1>3. CASE Alive(q)
  <2>1. Launch(p)
    BY <1>0, <1>3, OnlyTheLiving
  <2>2. UNCHANGED <<control, data, state>>
    BY <2>1, LaunchDoes DEF fileVars
  <2>3. Reaches(q)' /\ Tells(q)'
    BY <1>0, <2>2 DEF Reaches, Tells
  <2>4. Listens(q)'
    BY <1>0, <2>2 DEF Listens, HasListener, Alive
  <2>. QED  BY <1>1, <2>3, <2>4 DEF Files
<1>. QED  BY <1>2, <1>3

\* A supervisor goes its way.
LEMMA OwnWay ==
    ASSUME IInv, ~raced', NEW p \in Sups, Step(p)
    PROVE  ~raced /\ Reaches(p)'
<1>0. ~raced => Reaches(p)
  BY DEF IInv, Owner
<1>1. CASE Launch(p)
  <2>1. ~raced
    BY <1>1, LaunchDoes DEF history
  <2>2. \/ stage'[p] \in {"refused", "clean"}
        \/ stage'[p] \in {"prespawn", "persist"} /\ control = None
    BY <1>1, LaunchDoes
  <2>3. control' = control
    BY <1>1, LaunchDoes DEF fileVars
  <2>. QED  BY <2>1, <2>2, <2>3 DEF Reaches
<1>2. CASE ~Launch(p)
  BY <1>0, <1>2, Progress DEF Reaches
<1>. QED  BY <1>1, <1>2

\* What is known of p's files before a step.
LEMMA Known ==
    ASSUME IInv, ~raced, NEW p \in Sups
    PROVE  Files(p) /\ OfItself(p)
  BY Itself DEF IInv, Owner, Files

LEMMA ClearFiles ==
    ASSUME IInv, ~raced, NEW p \in Sups, NEW j \in Tasks, Clear(p, j)
    PROVE  Listens(p)' /\ Tells(p)' /\ Cleans(p)'
<1>0. Files(p) /\ OfItself(p)
  BY Known
<1>1. /\ RestKeep(p, j) /\ job[p][j] = "clear" /\ job'[p][j] = "bind" /\ id[p][j] \in Ids
      /\ data'[id[p][j]] = None /\ \A a \in Ids : a # id[p][j] => data'[a] = data[a]
      /\ UNCHANGED <<state, stage, pool, id, untidy>>
  BY ClearDoes DEF poolVars, history
<1>2. \A a \in Ids : HasListener(p, a)' <=> HasListener(p, a)
  BY <1>1 DEF HasListener, RestKeep
<1>3. \A a \in Ids : IsRemoving(p, a)' <=> IsRemoving(p, a)
  BY <1>1 DEF IsRemoving, RestKeep
<1>4. ~HasListener(p, id[p][j])
  BY <1>0, <1>1 DEF OfItself, OwnIds, HasListener, Spawning
<1>5. Listens(p)'
  BY <1>0, <1>1, <1>2, <1>4 DEF Files, Listens, Alive
<1>6. Tells(p)'
  <2>1. \A k \in Jobs : job'[p][k] \in {"kill", "persist"} <=> job[p][k] \in {"kill", "persist"}
    BY <1>1, Names DEF RestKeep
  <2>. QED  BY <1>0, <1>1, <2>1 DEF Files, Tells
<1>7. Cleans(p)'
  BY <1>0, <1>1, <1>2, <1>3, Names DEF Files, Cleans
<1>. QED  BY <1>5, <1>6, <1>7

LEMMA BindDataFiles ==
    ASSUME IInv, ~raced, NEW p \in Sups, NEW j \in Tasks, BindData(p, j)
    PROVE  Listens(p)' /\ Tells(p)' /\ Cleans(p)'
<1>0. Files(p) /\ OfItself(p)
  BY Known
<1>1. CASE /\ RestKeep(p, j) /\ job[p][j] = "bind" /\ job'[p][j] = "child" /\ id[p][j] \in Ids
           /\ data'[id[p][j]] = p /\ \A a \in Ids : a # id[p][j] => data'[a] = data[a]
           /\ UNCHANGED <<state, stage, pool, id, untidy>>
  <2>1. \A a \in Ids : HasListener(p, a)' <=> HasListener(p, a) \/ a = id[p][j]
    BY <1>1 DEF HasListener, RestKeep
  <2>2. \A a \in Ids : IsRemoving(p, a)' <=> IsRemoving(p, a)
    BY <1>1 DEF IsRemoving, RestKeep
  <2>3. Listens(p)'
    BY <1>0, <1>1, <2>1 DEF Files, Listens, Alive
  <2>4. Tells(p)'
    <3>1. \A k \in Jobs : job'[p][k] \in {"kill", "persist"} <=> job[p][k] \in {"kill", "persist"}
      BY <1>1, Names DEF RestKeep
    <3>. QED  BY <1>0, <1>1, <3>1 DEF Files, Tells
  <2>5. Cleans(p)'
    BY <1>0, <1>1, <2>1, <2>2 DEF Files, Cleans
  <2>. QED  BY <2>3, <2>4, <2>5
<1>2. CASE /\ RestKeep(p, j) /\ job[p][j] = "bind" /\ job'[p][j] = "idle" /\ untidy'[p]
           /\ \/ stage'[p] = stage[p]
              \/ j = Main /\ stage[p] = "prespawn" /\ stage'[p] = "persist"
           /\ UNCHANGED <<data, state, pool>>
  <2>1. \A a \in Ids : HasListener(p, a)' => HasListener(p, a)
    BY <1>2 DEF HasListener, RestKeep
  <2>2. Listens(p)'
    BY <1>0, <1>2, <2>1 DEF Files, Listens, Alive
  <2>3. Tells(p)'
    <3>1. \A k \in Jobs : job'[p][k] \in {"kill", "persist"} <=> job[p][k] \in {"kill", "persist"}
      BY <1>2, Names DEF RestKeep
    <3>. QED  BY <1>0, <1>2, <3>1 DEF Files, Tells
  <2>4. Cleans(p)'
    BY <1>2 DEF Cleans
  <2>. QED  BY <2>2, <2>3, <2>4
<1>. QED  BY <1>1, <1>2, BindDataDoes DEF poolVars, history, fileVars

LEMMA ChildFiles ==
    ASSUME IInv, ~raced, NEW p \in Sups, NEW j \in Tasks, Child(p, j)
    PROVE  Listens(p)' /\ Tells(p)' /\ Cleans(p)'
<1>0. Files(p) /\ OfItself(p)
  BY Known
<1>1. /\ RestKeep(p, j) /\ job[p][j] = "child" /\ UNCHANGED <<data, state, pool>>
      /\ \/ job'[p][j] = "insert" /\ UNCHANGED <<stage, id, untidy>>
         \/ /\ job'[p][j] = "idle" /\ untidy'[p]
            /\ \/ stage'[p] = stage[p]
               \/ j = Main /\ stage[p] = "prespawn" /\ stage'[p] = "persist"
  BY ChildDoes DEF poolVars, history, fileVars
<1>2. \A a \in Ids : HasListener(p, a)' => HasListener(p, a)
  BY <1>1 DEF HasListener, RestKeep
<1>3. Listens(p)'
  BY <1>0, <1>1, <1>2 DEF Files, Listens, Alive
<1>4. Tells(p)'
  <2>1. \A k \in Jobs : job'[p][k] \in {"kill", "persist"} <=> job[p][k] \in {"kill", "persist"}
    BY <1>1, Names DEF RestKeep
  <2>. QED  BY <1>0, <1>1, <2>1 DEF Files, Tells
<1>5. Cleans(p)'
  <2>1. CASE job'[p][j] = "insert" /\ UNCHANGED <<stage, id, untidy>>
    <3>1. \A a \in Ids : HasListener(p, a) => HasListener(p, a)'
      BY <1>1, <2>1 DEF HasListener, RestKeep
    <3>2. \A a \in Ids : IsRemoving(p, a) => IsRemoving(p, a)'
      BY <1>1, <2>1 DEF IsRemoving, RestKeep
    <3>. QED  BY <1>0, <1>1, <2>1, <3>1, <3>2 DEF Files, Cleans
  <2>2. CASE untidy'[p]
    BY <2>2 DEF Cleans
  <2>. QED  BY <1>1, <2>1, <2>2
<1>. QED  BY <1>3, <1>4, <1>5

LEMMA InsertFiles ==
    ASSUME IInv, ~raced, NEW p \in Sups, NEW j \in Tasks, Insert(p, j)
    PROVE  Listens(p)' /\ Tells(p)' /\ Cleans(p)'
<1>0. Files(p) /\ OfItself(p)
  BY Known
<1>1. /\ RestKeep(p, j) /\ job[p][j] = "insert" /\ id[p][j] \in Ids
      /\ pool'[p] = pool[p] \cup {id[p][j]}
      /\ \/ j = Main /\ job'[p][j] = "idle"
         \/ j \in Jobs /\ job'[p][j] = "persist"
      /\ \/ stage'[p] = stage[p]
         \/ j = Main /\ stage[p] = "prespawn" /\ stage'[p] = "persist"
      /\ UNCHANGED <<data, state, untidy>>
  BY InsertDoes DEF fileVars, history
<1>2. \A a \in Ids : HasListener(p, a)' <=> HasListener(p, a)
  BY <1>1 DEF HasListener, RestKeep
<1>3. \A a \in Ids : IsRemoving(p, a)' <=> IsRemoving(p, a)
  BY <1>1 DEF IsRemoving, RestKeep
<1>4. Listens(p)'
  BY <1>0, <1>1, <1>2 DEF Files, Listens, Alive
<1>5. Tells(p)'
  <2>1. CASE j = Main
    <3>1. stage'[p] \in {"prespawn", "persist"}
      BY <1>0, <1>1, <2>1 DEF OfItself, InPhase
    <3>. QED  BY <3>1 DEF Tells
  <2>2. CASE j \in Jobs
    <3>1. job'[p][j] = "persist" /\ stage'[p] # "bind"
      BY <1>0, <1>1, <2>2, Names DEF OfItself, InPhase, Listening
    <3>. QED  BY <2>2, <3>1 DEF Tells
  <2>. QED  BY <1>1, <2>1, <2>2
<1>6. Cleans(p)'
  <2>1. stage'[p] \in {"unlink control", "unlink state", "exit"} => untidy[p]
    BY <1>0, <1>1 DEF OfItself, InPhase
  <2>. QED  BY <1>0, <1>1, <1>2, <1>3, <2>1 DEF Files, Cleans
<1>. QED  BY <1>4, <1>5, <1>6

LEMMA KilledFiles ==
    ASSUME IInv, ~raced, NEW p \in Sups, NEW j \in Tasks, Killed(p, j)
    PROVE  Listens(p)' /\ Tells(p)' /\ Cleans(p)'
<1>0. Files(p) /\ OfItself(p)
  BY Known
<1>1. /\ RestKeep(p, j) /\ job[p][j] = "kill" /\ job'[p][j] = "persist" /\ id[p][j] \in Ids
      /\ data'[id[p][j]] = None /\ \A a \in Ids : a # id[p][j] => data'[a] = data[a]
      /\ UNCHANGED <<state, stage, pool, id, untidy>>
  BY KilledDoes DEF history
<1>2. \A a \in Ids : HasListener(p, a)' <=> HasListener(p, a)
  BY <1>1 DEF HasListener, RestKeep
<1>3. \A a \in Ids : IsRemoving(p, a) => IsRemoving(p, a)' \/ a = id[p][j]
  BY <1>1 DEF IsRemoving, RestKeep
<1>4. ~HasListener(p, id[p][j])
  BY <1>0, <1>1 DEF OfItself, OwnIds, HasListener, Spawning
<1>5. Listens(p)'
  BY <1>0, <1>1, <1>2, <1>4 DEF Files, Listens, Alive
<1>6. Tells(p)'
  <2>1. j \in Jobs /\ stage'[p] # "bind"
    BY <1>0, <1>1, Names DEF OfItself, InPhase, Spawning, Listening
  <2>. QED  BY <1>1, <2>1 DEF Tells
<1>7. Cleans(p)'
  BY <1>0, <1>1, <1>2, <1>3, Names DEF Files, Cleans
<1>. QED  BY <1>5, <1>6, <1>7

LEMMA PersistFiles ==
    ASSUME IInv, ~raced, NEW p \in Sups, NEW j \in Tasks, Persist(p, j)
    PROVE  Listens(p)' /\ Tells(p)' /\ Cleans(p)'
<1>0. Files(p) /\ OfItself(p)
  BY Known
<1>1. /\ RestKeep(p, j) /\ job[p][j] = "persist" /\ job'[p][j] = "idle"
      /\ state' = [of |-> p, agents |-> pool[p]]
      /\ UNCHANGED <<data, stage, pool, untidy>>
  BY PersistDoes DEF poolVars, history
<1>2. \A a \in Ids : HasListener(p, a)' <=> HasListener(p, a)
  BY <1>1 DEF HasListener, RestKeep
<1>3. \A a \in Ids : IsRemoving(p, a)' <=> IsRemoving(p, a)
  BY <1>1 DEF IsRemoving, RestKeep
<1>4. Listens(p)'
  BY <1>0, <1>1, <1>2 DEF Files, Listens, Alive
<1>5. Tells(p)'
  BY <1>1 DEF Tells
<1>6. Cleans(p)'
  <2>1. stage'[p] \in {"off", "refused", "exit", "down"} => untidy[p]
    BY <1>0, <1>1, Names DEF OfItself, InPhase, Spawning, Listening
  <2>. QED  BY <1>0, <1>1, <1>2, <1>3, <2>1 DEF Files, Cleans
<1>. QED  BY <1>4, <1>5, <1>6

LEMMA SpawnFiles ==
    ASSUME IInv, ~raced, NEW p \in Sups, NEW j \in Tasks, Spawn(p, j)
    PROVE  Listens(p)' /\ Tells(p)' /\ Cleans(p)'
<1>0. Files(p)
  BY Known
<1>1. /\ RestKeep(p, j) /\ job[p][j] = "idle" /\ job'[p][j] = "clear"
      /\ UNCHANGED <<data, state, stage, pool, untidy>>
  BY SpawnDoes DEF fileVars, history
<1>2. \A a \in Ids : HasListener(p, a)' <=> HasListener(p, a)
  BY <1>1 DEF HasListener, RestKeep
<1>3. \A a \in Ids : IsRemoving(p, a)' <=> IsRemoving(p, a)
  BY <1>1 DEF IsRemoving, RestKeep
<1>4. Listens(p)'
  BY <1>0, <1>1, <1>2 DEF Files, Listens, Alive
<1>5. Tells(p)'
  <2>1. \A k \in Jobs : job'[p][k] \in {"kill", "persist"} <=> job[p][k] \in {"kill", "persist"}
    BY <1>1, Names DEF RestKeep
  <2>. QED  BY <1>0, <1>1, <2>1 DEF Files, Tells
<1>6. Cleans(p)'
  BY <1>0, <1>1, <1>2, <1>3 DEF Files, Cleans
<1>. QED  BY <1>4, <1>5, <1>6

LEMMA KillFiles ==
    ASSUME IInv, ~raced, NEW p \in Sups, NEW j \in Jobs, NEW a \in Ids, Kill(p, j, a),
           stage[p] = "serve"
    PROVE  Listens(p)' /\ Tells(p)' /\ Cleans(p)'
<1>0. Files(p) /\ j \in Tasks
  BY Known, Names
<1>1. /\ RestKeep(p, j) /\ job[p][j] = "idle" /\ job'[p][j] = "kill"
      /\ a \in pool[p] /\ pool'[p] = pool[p] \ {a} /\ id'[p][j] = a
      /\ UNCHANGED <<data, state, stage, untidy>>
  BY KillDoes DEF fileVars, history
<1>2. \A b \in Ids : /\ HasListener(p, b)' => HasListener(p, b)
                     /\ HasListener(p, b) => HasListener(p, b)' \/ b = a
  BY <1>0, <1>1 DEF HasListener, RestKeep
<1>3. \A b \in Ids : IsRemoving(p, b) \/ b = a => IsRemoving(p, b)'
  BY <1>0, <1>1 DEF IsRemoving, RestKeep
<1>4. Listens(p)'
  BY <1>0, <1>1, <1>2 DEF Files, Listens, Alive
<1>5. Tells(p)'
  BY <1>1 DEF Tells
<1>6. Cleans(p)'
  BY <1>0, <1>1, <1>2, <1>3 DEF Files, Cleans
<1>. QED  BY <1>4, <1>5, <1>6

\* run_supervisor's moves, before it serves and after.
LEMMA MovesFiles ==
    ASSUME IInv, ~raced, NEW p \in Sups,
           UNCHANGED <<data, pool, taskVars>>, untidy[p] => untidy'[p], Alive(p),
           stage'[p] # "off",
           stage'[p] \in {"refused", "exit", "down"} =>
               untidy[p] \/ state' = None \/ state'.of # p,
           stage'[p] \in {"unlink control", "unlink state", "exit"} => untidy[p] \/ pool[p] = {},
           Tells(p)'
    PROVE  Listens(p)' /\ Tells(p)' /\ Cleans(p)'
<1>0. Files(p)
  BY Known
<1>1. \A a \in Ids : /\ HasListener(p, a)' <=> HasListener(p, a)
                     /\ IsRemoving(p, a)' <=> IsRemoving(p, a)
  BY DEF HasListener, IsRemoving, taskVars
<1>2. Listens(p)'
  BY <1>0, <1>1 DEF Files, Listens
<1>3. Cleans(p)'
  BY <1>0, <1>1 DEF Files, Cleans, Alive
<1>. QED  BY <1>2, <1>3

LEMMA LaunchFiles ==
    ASSUME IInv, ~raced', NEW p \in Sups, Launch(p)
    PROVE  Listens(p)' /\ Tells(p)' /\ Cleans(p)'
<1>1. ~raced
  BY LaunchDoes
<1>2. Files(p) /\ OfItself(p)
  BY <1>1, Known
<1>3. /\ stage[p] = "off" /\ stage'[p] \in {"refused", "clean", "prespawn", "persist"}
      /\ UNCHANGED <<data, state, pool, taskVars, untidy>>
  BY LaunchDoes DEF fileVars, poolVars
<1>4. pool[p] = {} /\ \A j \in Tasks : job[p][j] = "idle"
  BY <1>2, <1>3, Names DEF OfItself, InPhase, Alive, Listening
<1>5. \A a \in Ids : ~HasListener(p, a)' /\ ~IsRemoving(p, a) /\ ~HasListener(p, a)
  BY <1>3, <1>4 DEF HasListener, IsRemoving, taskVars
<1>6. Listens(p)'
  BY <1>5 DEF Listens
<1>7. Tells(p)'
  BY <1>3 DEF Tells
<1>8. Cleans(p)'
  BY <1>2, <1>3, <1>5 DEF Files, Cleans
<1>. QED  BY <1>6, <1>7, <1>8

LEMMA DrainOneFiles ==
    ASSUME IInv, ~raced, NEW p \in Sups, NEW a \in Ids, DrainOne(p, a)
    PROVE  Listens(p)' /\ Tells(p)' /\ Cleans(p)'
<1>0. Files(p) /\ OfItself(p)
  BY Known
<1>1. /\ UNCHANGED <<state, stage, taskVars, untidy>>
      /\ stage[p] = "drain" /\ a \in pool[p] /\ pool'[p] = pool[p] \ {a}
      /\ data'[a] = None /\ \A b \in Ids : b # a => data'[b] = data[b]
  BY DrainOneDoes DEF history
<1>2. ~untidy[p] => \A j \in Tasks : job[p][j] = "idle"
  BY <1>0, <1>1 DEF OfItself, InPhase
<1>3. \A j \in Tasks : job[p][j] \in {"child", "insert"} => id[p][j] # a
  BY <1>0, <1>1 DEF OfItself, OwnIds, Spawning
<1>4. \A b \in Ids : HasListener(p, b)' => HasListener(p, b) /\ b # a
  BY <1>1, <1>3 DEF HasListener, taskVars
<1>5. \A b \in Ids : b # a /\ HasListener(p, b) => HasListener(p, b)'
  BY <1>1 DEF HasListener, taskVars
<1>6. \A b \in Ids : IsRemoving(p, b)' <=> IsRemoving(p, b)
  BY <1>1 DEF IsRemoving, taskVars
<1>7. Listens(p)'
  BY <1>0, <1>1, <1>4 DEF Files, Listens, Alive
<1>8. Tells(p)'
  BY <1>1 DEF Tells
<1>9. Cleans(p)'
  BY <1>0, <1>1, <1>5, <1>6, Names DEF Files, Cleans
<1>. QED  BY <1>7, <1>8, <1>9

LEMMA ReturnFiles ==
    ASSUME IInv, ~raced, NEW p \in Sups, Return(p) \/ Crash(p)
    PROVE  Listens(p)' /\ Tells(p)' /\ Cleans(p)'
<1>0. Files(p) /\ OfItself(p) /\ TypeOK
  BY Known DEF IInv
<1>1. CASE Crash(p)
  <2>1. stage'[p] = "crashed"
    BY <1>0, <1>1, ExitDoes DEF Crash
  <2>. QED  BY <2>1 DEF Listens, Tells, Cleans, Alive
<1>2. CASE Return(p)
  <2>1. stage[p] = "exit" /\ stage'[p] = "down" /\ UNCHANGED <<data, state, untidy>>
    BY <1>0, <1>2, ExitDoes DEF Return, fileVars, history
  <2>2. ~untidy[p] => \A a \in Ids : ~HasListener(p, a) /\ ~IsRemoving(p, a)
    BY <1>0, <2>1 DEF OfItself, InPhase, Files, Cleans, HasListener, IsRemoving
  <2>3. Cleans(p)'
    BY <1>0, <2>1, <2>2 DEF Files, Cleans
  <2>. QED  BY <2>1, <2>3 DEF Listens, Tells, Alive
<1>. QED  BY <1>1, <1>2

LEMMA MainFiles ==
    ASSUME IInv, ~raced, NEW p \in Sups, MainStep(p) \/ Signal(p) \/ Crash(p)
    PROVE  Listens(p)' /\ Tells(p)' /\ Cleans(p)'
<1>0. Files(p)
  BY Known
<1>1. CASE Clean(p)
  <2>1. /\ UNCHANGED <<data, pool, taskVars, untidy>> /\ Alive(p)
        /\ stage'[p] \in {"prespawn", "persist"}
    BY <1>1, CleanDoes DEF poolVars, history, Alive
  <2>2. Tells(p)'
    BY <2>1 DEF Tells
  <2>. QED  BY <2>1, <2>2, MovesFiles
<1>2. CASE SpawnNext(p)
  BY <1>2, SpawnFiles, Names DEF SpawnNext
<1>3. CASE FirstPersist(p)
  <2>1. /\ UNCHANGED <<data, pool, taskVars, untidy>> /\ Alive(p) /\ stage'[p] = "bind"
        /\ state' = [of |-> p, agents |-> pool[p]]
    BY <1>3, FirstPersistDoes DEF poolVars, history, Alive
  <2>2. Tells(p)'
    BY <2>1 DEF Tells
  <2>. QED  BY <2>1, <2>2, MovesFiles
<1>4. CASE BindControl(p)
  <2>1. stage[p] = "bind" /\ control = None
    BY <1>0, <1>4 DEF BindControl, Files, Reaches
  <2>2. /\ UNCHANGED <<data, state, pool, taskVars, untidy>> /\ Alive(p) /\ stage'[p] = "serve"
    BY <1>4, <2>1, BindControlDoes DEF poolVars, history, Alive
  <2>3. Tells(p)'
    BY <1>0, <2>1, <2>2 DEF Files, Tells
  <2>. QED  BY <2>2, <2>3, MovesFiles
<1>5. CASE \E a \in Ids : DrainOne(p, a)
  BY <1>5, DrainOneFiles
<1>6. CASE Drained(p)
  <2>1. /\ UNCHANGED <<data, pool, taskVars, untidy>> /\ Alive(p) /\ stage'[p] = "unlink control"
        /\ pool[p] = {}
    BY <1>6, DrainedDoes DEF fileVars, history, Alive
  <2>2. Tells(p)'
    BY <2>1 DEF Tells
  <2>. QED  BY <2>1, <2>2, MovesFiles
<1>7. CASE UnlinkControl(p)
  <2>1. /\ UNCHANGED <<data, pool, taskVars, untidy>> /\ Alive(p) /\ stage'[p] = "unlink state"
        /\ stage[p] = "unlink control"
    BY <1>7, UnlinkControlDoes DEF poolVars, history, Alive
  <2>2. untidy[p] \/ pool[p] = {}
    BY <1>0, <2>1 DEF Files, Cleans
  <2>3. Tells(p)'
    BY <2>1 DEF Tells
  <2>. QED  BY <2>1, <2>2, <2>3, MovesFiles
<1>8. CASE UnlinkState(p)
  <2>1. /\ UNCHANGED <<data, pool, taskVars, untidy>> /\ Alive(p) /\ stage'[p] = "exit"
        /\ stage[p] = "unlink state" /\ state' = None
    BY <1>8, UnlinkStateDoes DEF poolVars, history, Alive
  <2>2. untidy[p] \/ pool[p] = {}
    BY <1>0, <2>1 DEF Files, Cleans
  <2>3. Tells(p)'
    BY <2>1 DEF Tells
  <2>. QED  BY <2>1, <2>2, <2>3, MovesFiles
<1>9. CASE Return(p) \/ Crash(p)
  BY <1>9, ReturnFiles
<1>10. CASE Signal(p)
  <2>1. /\ UNCHANGED <<data, pool, taskVars>> /\ (untidy[p] => untidy'[p]) /\ Alive(p)
        /\ stage'[p] = "drain"
    BY <1>10, SignalDoes DEF fileVars, Alive
  <2>2. Tells(p)'
    BY <2>1 DEF Tells
  <2>. QED  BY <2>1, <2>2, MovesFiles
<1>. QED  BY <1>1, <1>2, <1>3, <1>4, <1>5, <1>6, <1>7, <1>8, <1>9, <1>10 DEF MainStep

LEMMA OwnerStep == ASSUME IInv, [Next]_vars PROVE Owner'
<1>1. ASSUME ~raced', NEW p \in Sups, Step(p) PROVE \A q \in Sups : Files(q)'
  <2>1. ~raced /\ Reaches(p)'
    BY <1>1, OwnWay
  <2>2. Listens(p)' /\ Tells(p)' /\ Cleans(p)'
    <3>1. ASSUME NEW j \in Jobs, Request(p, j) PROVE Listens(p)' /\ Tells(p)' /\ Cleans(p)'
      BY <2>1, <3>1, SpawnFiles, KillFiles, Names DEF Request, Accepts
    <3>2. ASSUME NEW j \in Tasks, TaskStep(p, j) PROVE Listens(p)' /\ Tells(p)' /\ Cleans(p)'
      BY <2>1, <3>2, ClearFiles, BindDataFiles, ChildFiles, InsertFiles, KilledFiles, PersistFiles
         DEF TaskStep
    <3>. QED  BY <1>1, <2>1, <3>1, <3>2, LaunchFiles, MainFiles DEF Step
  <2>3. \A q \in Sups : q # p => Files(q)'
    BY <1>1, <2>1, OthersFiles
  <2>. QED  BY <2>1, <2>2, <2>3 DEF Files
<1>2. ASSUME UNCHANGED vars, ~raced' PROVE \A q \in Sups : Files(q)'
  <2>1. ASSUME NEW q \in Sups PROVE Files(q)'
    <3>1. Files(q)
      BY <1>2, Known DEF vars, history
    <3>. QED  BY <1>2, <3>1 DEF Files, Reaches, Listens, Tells, Cleans, HasListener, IsRemoving, Alive,
                            vars, fileVars, poolVars, taskVars, history
  <2>. QED  BY <2>1
<1>. QED  BY <1>1, <1>2 DEF Next, Step, Owner, Files

-----------------------------------------------------------------------------
(* The theorems.                                                           *)

LEMMA Inductive == Spec => []IInv
<1>1. ASSUME Init PROVE IInv
  <2>1. TypeOK
    <3>1. 0 \in 0..MaxSeq /\ "idle" \in Works /\ "off" \in Stages
      BY SeqAssumption DEF Works, Stages
    <3>2. Typed
      BY <1>1, <3>1 DEF Init, Typed
    <3>3. \A p \in Sups : Locked(p)
      BY <1>1, Names DEF Init, Locked
    <3>. QED  BY <3>2, <3>3, TypeParts
  <2>2. Local
    BY <1>1, Names DEF Init, Local, OwnIds, InPhase, Spawning
  <2>3. OwnControl /\ Alone
    BY <1>1, Names DEF Init, OwnControl, Alone, Alive
  <2>4. Owner
    BY <1>1, Names DEF Init, Owner, Reaches, Listens, Tells, Cleans, Alive
  <2>. QED  BY <2>1, <2>2, <2>3, <2>4 DEF IInv
<1>2. ASSUME IInv, [Next]_vars PROVE IInv'
  BY <1>2, OfItselfStep, OwnControlStep, AloneStep, OwnerStep DEF IInv
<1>. QED  BY <1>1, <1>2, PTL DEF Spec

\* The files, the pools and the tasks keep to their types, and the lock of a
\* pool is kept by whoever kills or drains.
THEOREM PoolTypeCorrect == Spec => []TypeOK
<1>1. IInv => TypeOK
  BY DEF IInv
<1>. QED  BY <1>1, Inductive, PTL

\* The files tell of the supervisor that serves and of its pool
\* (supervisor.rs:54-55, 108-117, 200-212), for any number of supervisors,
\* handlers and agents, in whatever order they spawn, kill and persist and
\* whatever was left by those that were killed before.
THEOREM PoolIsTold == Spec => []FilesTellPool
<1>1. ASSUME IInv PROVE FilesTellPool
  <2>1. ServingIsReachable
    BY <1>1 DEF IInv, Owner, Reaches, ServingIsReachable
  <2>2. PathLeadsToAgent
    <3>1. SUFFICES ASSUME ~raced, NEW p \in Sups, NEW a \in pool[p] PROVE data[a] = p
      BY DEF PathLeadsToAgent
    <3>2. a \in Ids
      BY <1>1, <3>1, Typing DEF IInv, Typed
    <3>3. Alive(p)
      BY <1>1, <3>1 DEF IInv, Local, InPhase
    <3>. QED  BY <1>1, <3>1, <3>2, <3>3 DEF IInv, Owner, Listens, HasListener
  <2>3. StateMatchesPool
    BY <1>1 DEF IInv, Owner, Tells, StateMatchesPool
  <2>. QED  BY <2>1, <2>2, <2>3 DEF FilesTellPool
<1>. QED  BY <1>1, Inductive, PTL

\* The teardown leaves neither sockets nor state (supervisor.rs:154), whatever
\* other supervisors are launched or killed meanwhile.
THEOREM PoolTeardownIsClean == Spec => []TeardownLeavesNothing
<1>1. ASSUME IInv PROVE TeardownLeavesNothing
  <2>1. SUFFICES ASSUME NEW p \in Sups, stage[p] = "down", ~untidy[p], ~raced
                 PROVE  /\ control # p
                        /\ \A a \in Ids : data[a] # p
                        /\ state # None => state.of # p
    BY DEF TeardownLeavesNothing
  <2>2. control # p
    BY <1>1, <2>1 DEF IInv, OwnControl
  <2>3. \A a \in Ids : ~HasListener(p, a) /\ ~IsRemoving(p, a)
    BY <1>1, <2>1, Names DEF IInv, Local, InPhase, Alive, Listening, HasListener, IsRemoving
  <2>. QED  BY <1>1, <2>1, <2>2, <2>3 DEF IInv, Owner, Cleans
<1>. QED  BY <1>1, Inductive, PTL
=============================================================================

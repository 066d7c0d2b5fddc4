------------------------- MODULE SessionFilesProofs -------------------------
(***************************************************************************)
(* What TLAPS proves of SessionFiles: the types, that the files tell of    *)
(* the daemon that serves, and that a teardown leaves nothing behind.      *)
(***************************************************************************)
EXTENDS SessionFiles, TLAPS

-----------------------------------------------------------------------------
(* The inductive invariant.                                                *)

Before == {"off", "clean", "spawn", "write", "bind", "bound"}

\* A worker knows and saves nothing before its daemon serves and when the
\* process is gone, and it is waited for before the socket goes.
Saving ==
    \A d \in Daemons :
        /\ up[d] \in Before \/ ~Alive(d) =>
               ~known[d] /\ saving[d] = None /\ late[d] = None /\ ~cut[d]
        /\ saving[d] # None => up[d] \in {"serve", "join"} /\ known[d]
        /\ late[d] # None => cut[d]

\* A socket leads to a daemon that has bound it.
OwnSocket == \A d \in Daemons : sock = d => up[d] \notin Before \ {"bound"}

\* Whatever the windows: one daemon at a time, and none while a down cleans up.
Alone ==
    ~raced =>
        /\ \A d, e \in Daemons : Alive(d) /\ Alive(e) => d = e
        /\ \A c \in Downs : Cleaning(c) => \A d \in Daemons : ~Alive(d)

Own(r, d) == r # None /\ r.pid = d

\* The daemon that is alone owns the files from their making to their removal,
\* and what its worker is about to write names it and has the id.
Owns(d) ==
    /\ up[d] \in {"bound", "serve", "join", "unlink sock"} => sock = d
    /\ up[d] \in {"unlink state", "exit"} => sock # d
    /\ up[d] \in {"bind", "bound", "serve", "join", "unlink sock", "unlink state"} =>
           Own(state, d)
    /\ up[d] = "exit" => state = None \/ cut[d]
    /\ saving[d] \notin {None, Unread} => Own(saving[d], d) /\ saving[d].id
    /\ late[d] # None => Own(late[d], d)
    /\ up[d] = "serve" /\ known[d] /\ saving[d] = None => state.id \/ cut[d]

Owner == ~raced => \A d \in Daemons : Owns(d)

IInv == TypeOK /\ Saving /\ OwnSocket /\ Alone /\ Owner

LEMMA Unreads ==
    /\ Unread \in [pid : {None}, id : BOOLEAN] /\ Unread # None /\ None \notin Record
    /\ \A r \in Record : r # Unread /\ r.pid \in Daemons
    /\ \A d \in Daemons : AtStartUp(d) \in Record /\ AtStartUp(d).pid = d
  BY ProcessAssumption, RecordAssumption DEF Unread, Record, AtStartUp

LEMMA Merges ==
    ASSUME TypeOK, NEW d \in Daemons
    PROVE  /\ Merged(d) \in Record /\ Merged(d).id
           /\ state = None => Merged(d).pid = d
           /\ state # None => Merged(d).pid = state.pid
  BY DEF TypeOK, Merged, Record

-----------------------------------------------------------------------------
(* One step.                                                               *)

LEMMA TypeStep == ASSUME IInv, [Next]_vars PROVE TypeOK'
<1>0. TypeOK /\ Saving
  BY DEF IInv
<1>1. CASE UNCHANGED vars
  BY <1>0, <1>1 DEF TypeOK, vars, files, worker, command
<1>2. ASSUME NEW d \in Daemons, NEW how \in {"failed", "down", "crashed"}, Exit(d, how)
      PROVE  /\ up' \in [Daemons -> {"off", "clean", "spawn", "write", "bind", "bound", "serve",
                           "join", "unlink sock", "unlink state", "exit",
                           "refused", "failed", "down", "crashed"}]
             /\ known' \in [Daemons -> BOOLEAN] /\ held' \in [Daemons -> BOOLEAN]
             /\ saving' \in [Daemons -> Record \cup {None, Unread}]
             /\ late' \in [Daemons -> Record \cup {None}]
             /\ sigterm' \in [Daemons -> BOOLEAN] /\ cut' \in [Daemons -> BOOLEAN]
  BY <1>0, <1>2 DEF TypeOK, Exit, Goto
<1>3. ASSUME NEW d \in Daemons, Launch(d) \/ Clean(d) \/ InstallHandler(d) \/ Stop(d) \/ StopTold(d)
      PROVE  TypeOK'
  <2>1. PICK w \in {"refused", "spawn", "clean", "serve", "join"} : Goto(d, w)
    BY <1>3 DEF Launch, Clean, InstallHandler, Stop, StopTold
  <2>2. UNCHANGED <<state, worker, sigterm, command>> /\ sock' \in {sock, None} /\ raced' \in BOOLEAN
    BY <1>0, <1>3 DEF Launch, Clean, InstallHandler, Stop, StopTold, files, TypeOK
  <2>. QED  BY <1>0, <2>1, <2>2 DEF TypeOK, Goto, worker, command
<1>4. ASSUME NEW d \in Daemons, SpawnClaude(d) PROVE TypeOK'
  <2>1. CASE Goto(d, "write") /\ UNCHANGED <<worker, sigterm>>
    BY <1>0, <1>4, <2>1 DEF SpawnClaude, Goto, TypeOK, worker, command, files
  <2>2. CASE Exit(d, "failed")
    BY <1>0, <1>2, <1>4, <2>2 DEF SpawnClaude, TypeOK, command, files
  <2>. QED  BY <1>4, <2>1, <2>2 DEF SpawnClaude
<1>5. ASSUME NEW d \in Daemons, WriteState(d) PROVE TypeOK'
  BY <1>0, <1>5, Unreads DEF WriteState, Goto, TypeOK, worker, command
<1>6. ASSUME NEW d \in Daemons, Bind(d) PROVE TypeOK'
  <2>1. CASE sock' = d /\ Goto(d, "bound") /\ UNCHANGED <<worker, sigterm>>
    BY <1>0, <1>6, <2>1 DEF Bind, Goto, TypeOK, worker, command
  <2>2. CASE Exit(d, "failed") /\ UNCHANGED sock
    BY <1>0, <1>2, <1>6, <2>2 DEF Bind, TypeOK, command
  <2>. QED  BY <1>6, <2>1, <2>2 DEF Bind
<1>7. ASSUME NEW d \in Daemons, Connect(d) \/ HandlersReturn(d) PROVE TypeOK'
  BY <1>0, <1>7 DEF Connect, HandlersReturn, TypeOK, files, command
<1>8. ASSUME NEW d \in Daemons, Join(d) \/ UnlinkSock(d) \/ UnlinkState(d) PROVE TypeOK'
  <2>1. PICK w \in {"unlink sock", "unlink state", "exit"} : Goto(d, w)
    BY <1>8 DEF Join, UnlinkSock, UnlinkState
  <2>2. /\ UNCHANGED <<worker, sigterm, command, raced>> /\ sock' \in {sock, None}
        /\ state' \in {state, None}
    BY <1>8 DEF Join, UnlinkSock, UnlinkState, files
  <2>. QED  BY <1>0, <2>1, <2>2 DEF TypeOK, Goto, worker, command
<1>9. ASSUME NEW d \in Daemons, Return(d) \/ Crash(d) PROVE TypeOK'
  BY <1>0, <1>2, <1>9 DEF Return, Crash, TypeOK, files, command
<1>10. ASSUME NEW d \in Daemons, LearnId(d) PROVE TypeOK'
  BY <1>0, <1>10 DEF LearnId, TypeOK, files, command
<1>11. ASSUME NEW d \in Daemons, ReadForSave(d) PROVE TypeOK'
  BY <1>0, <1>11, Merges DEF ReadForSave, TypeOK, files, command
<1>12. ASSUME NEW d \in Daemons, WriteSaved(d) PROVE TypeOK'
  BY <1>0, <1>12 DEF WriteSaved, TypeOK, files, command
<1>13. ASSUME NEW d \in Daemons, TimeoutCutsSave(d) PROVE TypeOK'
  <2>1. late' \in [Daemons -> Record \cup {None}]
    BY <1>0, <1>13 DEF TimeoutCutsSave, TypeOK
  <2>. QED  BY <1>0, <1>13, <2>1 DEF TimeoutCutsSave, TypeOK, files, command
<1>14. ASSUME NEW d \in Daemons, RenameLands(d) PROVE TypeOK'
  BY <1>0, <1>14 DEF RenameLands, TypeOK, files, command
<1>15. ASSUME NEW c \in Downs, ReadState(c) PROVE TypeOK'
  <2>1. CASE Say(c, "no such session") /\ UNCHANGED pid
    BY <1>0, <1>15, <2>1 DEF ReadState, Say, TypeOK, files, worker
  <2>2. CASE state # None /\ Say(c, "kill") /\ pid' = [pid EXCEPT ![c] = state.pid]
    <3>1. state.pid \in Daemons
      BY <1>0, <2>2 DEF TypeOK, Record
    <3>2. pid' \in [Downs -> Daemons \cup {None}] /\ pid'[c] \in Daemons
      BY <1>0, <2>2, <3>1 DEF TypeOK
    <3>3. \A e \in Downs : down'[e] = "kill" => pid'[e] # None
      BY <1>0, <2>2, <3>2, ProcessAssumption DEF TypeOK, Say
    <3>. QED  BY <1>0, <1>15, <2>2, <3>2, <3>3 DEF ReadState, Say, TypeOK, files, worker
  <2>. QED  BY <1>15, <2>1, <2>2 DEF ReadState
<1>16. ASSUME NEW c \in Downs, Kill(c) PROVE TypeOK'
  <2>1. PICK d \in Daemons : d = pid[c]
    BY <1>0, <1>16 DEF Kill, TypeOK
  <2>2. CASE sigterm' = [sigterm EXCEPT ![d] = TRUE] /\ UNCHANGED <<up, worker>>
    BY <1>0, <1>16, <2>2 DEF Kill, Say, TypeOK, files, worker
  <2>3. CASE Exit(d, "crashed")
    BY <1>0, <1>2, <1>16, <2>3 DEF Kill, Say, TypeOK, files
  <2>. QED  BY <1>16, <2>1, <2>2, <2>3 DEF Kill
<1>17. ASSUME NEW c \in Downs, KillFails(c) \/ RemoveSock(c) \/ RemoveState(c) PROVE TypeOK'
  <2>1. PICK w \in {"unlink sock", "unlink state", "cleaned up"} : Say(c, w)
    BY <1>17 DEF KillFails, RemoveSock, RemoveState
  <2>2. /\ UNCHANGED <<up, worker, sigterm, pid>> /\ sock' \in {sock, None}
        /\ state' \in {state, None} /\ raced' \in BOOLEAN
    BY <1>0, <1>17 DEF KillFails, RemoveSock, RemoveState, files, TypeOK
  <2>. QED  BY <1>0, <2>1, <2>2 DEF TypeOK, Say, worker
<1>. QED  BY <1>1, <1>3, <1>4, <1>5, <1>6, <1>7, <1>8, <1>9, <1>10, <1>11, <1>12, <1>13, <1>14, <1>15,
             <1>16, <1>17
          DEF Next, UpStep, WorkerStep, DownStep

\* What the process of d does when it ends.
LEMMA Exits ==
    ASSUME TypeOK, NEW d \in Daemons, NEW how \in {"failed", "down", "crashed"}, Exit(d, how)
    PROVE  /\ ~Alive(d)' /\ up'[d] = how
           /\ ~known'[d] /\ saving'[d] = None /\ late'[d] = None /\ ~cut'[d]
           /\ \A e \in Daemons : e # d =>
                  /\ UNCHANGED <<up[e], known[e], saving[e], late[e], cut[e]>>
                  /\ Alive(e)' <=> Alive(e)
  BY DEF TypeOK, Exit, Goto, Alive

\* What it does when it goes on.
LEMMA Goes ==
    ASSUME TypeOK, NEW d \in Daemons, NEW where, Goto(d, where)
    PROVE  /\ up'[d] = where
           /\ \A e \in Daemons : e # d => up'[e] = up[e] /\ (Alive(e)' <=> Alive(e))
  BY DEF TypeOK, Goto, Alive

LEMMA SavingStep == ASSUME IInv, [Next]_vars PROVE Saving'
<1>0. TypeOK /\ Saving
  BY DEF IInv
<1>1. ASSUME UNCHANGED <<up, worker>> PROVE Saving'
  BY <1>0, <1>1 DEF Saving, worker, Alive
<1>2. ASSUME NEW d \in Daemons, NEW how \in {"failed", "down", "crashed"}, Exit(d, how) PROVE Saving'
  BY <1>0, <1>2, Exits DEF Saving, Alive
<1>3. ASSUME NEW d \in Daemons, NEW w, Goto(d, w), UNCHANGED worker,
             \/ up[d] \in Before /\ w \in Before \cup {"refused", "serve"}
             \/ up[d] \notin Before /\ w \notin Before /\ saving[d] = None
                /\ w \in {"unlink sock", "unlink state", "exit"}
             \/ up[d] = "serve" /\ w = "join"
      PROVE  Saving'
  <2>1. /\ up'[d] = w /\ \A e \in Daemons : e # d => up'[e] = up[e] /\ (Alive(e)' <=> Alive(e))
        /\ UNCHANGED worker
    BY <1>0, <1>3, Goes
  <2>2. up'[d] \in Before \/ ~Alive(d)' =>
           ~known'[d] /\ saving'[d] = None /\ late'[d] = None /\ ~cut'[d]
    <3>1. up'[d] \in Before \/ ~Alive(d)' => up[d] \in Before
      BY <1>3, <2>1 DEF Before, Alive
    <3>. QED  BY <1>0, <2>1, <3>1 DEF Saving, worker
  <2>3. /\ saving'[d] # None => up'[d] \in {"serve", "join"} /\ known'[d]
        /\ late'[d] # None => cut'[d]
    BY <1>0, <1>3, <2>1 DEF Saving, worker, Before
  <2>4. ASSUME NEW e \in Daemons, e # d
        PROVE  /\ up'[e] \in Before \/ ~Alive(e)' =>
                      ~known'[e] /\ saving'[e] = None /\ late'[e] = None /\ ~cut'[e]
               /\ saving'[e] # None => up'[e] \in {"serve", "join"} /\ known'[e]
               /\ late'[e] # None => cut'[e]
    BY <1>0, <2>1, <2>4 DEF Saving, worker
  <2>. QED  BY <2>2, <2>3, <2>4 DEF Saving
<1>4. ASSUME NEW d \in Daemons, Launch(d) \/ Clean(d) \/ InstallHandler(d) \/ Stop(d) \/ StopTold(d)
      PROVE  Saving'
  BY <1>3, <1>4 DEF Launch, Clean, InstallHandler, Stop, StopTold, Before
<1>5. ASSUME NEW d \in Daemons, SpawnClaude(d) \/ WriteState(d) \/ Bind(d) PROVE Saving'
  BY <1>2, <1>3, <1>5 DEF SpawnClaude, WriteState, Bind, Before
<1>6. ASSUME NEW d \in Daemons, Join(d) \/ UnlinkSock(d) \/ UnlinkState(d) PROVE Saving'
  <2>1. saving[d] = None
    BY <1>0, <1>6 DEF Join, UnlinkSock, UnlinkState, WorkerEnded, Saving
  <2>. QED  BY <1>3, <1>6, <2>1 DEF Join, UnlinkSock, UnlinkState, Before
<1>7. ASSUME NEW d \in Daemons, Return(d) \/ Crash(d) PROVE Saving'
  BY <1>2, <1>7 DEF Return, Crash
<1>8. ASSUME NEW d \in Daemons, Connect(d) \/ HandlersReturn(d) PROVE Saving'
  BY <1>0, <1>8 DEF Connect, HandlersReturn, Saving, Alive
<1>9. ASSUME NEW d \in Daemons, LearnId(d) PROVE Saving'
  BY <1>0, <1>9 DEF LearnId, Saving, TypeOK, Alive, Before
<1>10. ASSUME NEW d \in Daemons, ReadForSave(d) \/ WriteSaved(d) PROVE Saving'
  <2>1. /\ UNCHANGED <<up, known, late, cut>> /\ saving[d] # None
        /\ \A e \in Daemons : e # d => saving'[e] = saving[e]
    BY <1>0, <1>10, Unreads DEF ReadForSave, WriteSaved, TypeOK
  <2>. QED  BY <1>0, <2>1 DEF Saving, Alive, Before
<1>11. ASSUME NEW d \in Daemons, TimeoutCutsSave(d) PROVE Saving'
  BY <1>0, <1>11 DEF TimeoutCutsSave, Saving, TypeOK, Alive, Before
<1>12. ASSUME NEW d \in Daemons, RenameLands(d) PROVE Saving'
  BY <1>0, <1>12 DEF RenameLands, Saving, TypeOK, Alive, Before
<1>13. ASSUME NEW c \in Downs, ReadState(c) \/ DownStep(c) PROVE Saving'
  <2>1. CASE Kill(c) /\ ~UNCHANGED <<up, worker>>
    <3>1. pid[c] \in Daemons /\ Exit(pid[c], "crashed")
      BY <1>0, <2>1 DEF Kill, TypeOK
    <3>. QED  BY <1>2, <3>1
  <2>. QED  BY <1>1, <1>13, <2>1 DEF ReadState, DownStep, Kill, KillFails, RemoveSock, RemoveState
<1>14. CASE UNCHANGED vars
  BY <1>1, <1>14 DEF vars
<1>. QED  BY <1>4, <1>5, <1>6, <1>7, <1>8, <1>9, <1>10, <1>11, <1>12, <1>13, <1>14
          DEF Next, UpStep, WorkerStep
LEMMA OwnSocketStep == ASSUME IInv, [Next]_vars PROVE OwnSocket'
<1>0. TypeOK /\ OwnSocket
  BY DEF IInv
<1>. USE ProcessAssumption DEF OwnSocket, Before
<1>1. ASSUME UNCHANGED up, sock' \in {sock, None} PROVE OwnSocket'
  BY <1>0, <1>1
<1>2. ASSUME NEW d \in Daemons, NEW how \in {"failed", "down", "crashed"}, Exit(d, how), UNCHANGED sock
      PROVE  OwnSocket'
  BY <1>0, <1>2, Exits
<1>3. ASSUME NEW d \in Daemons, NEW w, Goto(d, w), sock' \in {sock, None},
             up[d] \notin Before \ {"bound"} => w \notin Before \ {"bound"}
      PROVE  OwnSocket'
  BY <1>0, <1>3, Goes
<1>4. ASSUME NEW d \in Daemons, Launch(d) \/ Clean(d) \/ InstallHandler(d) \/ Stop(d) \/ StopTold(d)
      PROVE  OwnSocket'
  BY <1>3, <1>4 DEF Launch, Clean, InstallHandler, Stop, StopTold, files
<1>5. ASSUME NEW d \in Daemons, SpawnClaude(d) \/ WriteState(d) PROVE OwnSocket'
  BY <1>2, <1>3, <1>5 DEF SpawnClaude, WriteState, files
<1>6. ASSUME NEW d \in Daemons, Bind(d) PROVE OwnSocket'
  <2>1. CASE sock' = d /\ Goto(d, "bound")
    BY <1>0, <2>1, Goes
  <2>. QED  BY <1>2, <1>6, <2>1 DEF Bind
<1>7. ASSUME NEW d \in Daemons, Join(d) \/ UnlinkSock(d) \/ UnlinkState(d) PROVE OwnSocket'
  BY <1>3, <1>7 DEF Join, UnlinkSock, UnlinkState, files
<1>8. ASSUME NEW d \in Daemons, Return(d) \/ Crash(d) PROVE OwnSocket'
  BY <1>2, <1>8 DEF Return, Crash, files
<1>9. ASSUME NEW d \in Daemons,
             Connect(d) \/ HandlersReturn(d) \/ LearnId(d) \/ WorkerStep(d) \/ TimeoutCutsSave(d)
      PROVE  OwnSocket'
  BY <1>1, <1>9
     DEF Connect, HandlersReturn, LearnId, WorkerStep, ReadForSave, WriteSaved, RenameLands,
         TimeoutCutsSave, files
<1>10. ASSUME NEW c \in Downs, ReadState(c) \/ DownStep(c) PROVE OwnSocket'
  <2>1. CASE Kill(c) /\ ~UNCHANGED up
    <3>1. pid[c] \in Daemons /\ Exit(pid[c], "crashed") /\ UNCHANGED sock
      BY <1>0, <2>1 DEF Kill, TypeOK, files
    <3>. QED  BY <1>2, <3>1
  <2>. QED  BY <1>1, <1>10, <2>1
            DEF ReadState, DownStep, Kill, KillFails, RemoveSock, RemoveState, files
<1>11. CASE UNCHANGED vars
  BY <1>1, <1>11 DEF vars, files
<1>. QED  BY <1>4, <1>5, <1>6, <1>7, <1>8, <1>9, <1>10, <1>11 DEF Next, UpStep

LEMMA AloneStep == ASSUME IInv, [Next]_vars PROVE Alone'
<1>0. TypeOK /\ OwnSocket /\ Alone /\ Owner
  BY DEF IInv
<1>1. ASSUME \A d \in Daemons : Alive(d)' => Alive(d), raced' = raced,
             \A c \in Downs : Cleaning(c)' => Cleaning(c)
      PROVE  Alone'
  BY <1>0, <1>1 DEF Alone
<1>2. ASSUME UNCHANGED down PROVE \A c \in Downs : Cleaning(c)' => Cleaning(c)
  BY <1>2 DEF Cleaning
<1>3. ASSUME UNCHANGED up PROVE \A d \in Daemons : Alive(d)' => Alive(d)
  BY <1>3 DEF Alive
<1>4. ASSUME NEW d \in Daemons, NEW how \in {"failed", "down", "crashed"}, Exit(d, how)
      PROVE  \A e \in Daemons : Alive(e)' => Alive(e)
  BY <1>0, <1>4, Exits
<1>5. ASSUME NEW d \in Daemons, NEW w, Goto(d, w), Alive(d)
      PROVE  \A e \in Daemons : Alive(e)' => Alive(e)
  BY <1>0, <1>5, Goes
<1>6. ASSUME NEW d \in Daemons, Launch(d) PROVE Alone'
  <2>1. CASE SomeoneAnswers
    <3>1. Goto(d, "refused") /\ UNCHANGED <<raced, command>>
      BY <1>6, <2>1 DEF Launch
    <3>2. ~Alive(d)'
      BY <1>0, <3>1, Goes DEF Alive
    <3>. QED  BY <1>0, <1>1, <1>2, <3>1, <3>2, Goes DEF command
  <2>2. CASE ~SomeoneAnswers
    <3>1. SUFFICES ASSUME ~raced' PROVE Alone'
      BY DEF Alone
    <3>2. /\ ~raced
          /\ \A q \in Daemons \ {d} : ~Unguarded(q)
          /\ \A c \in Downs : ~Cleaning(c)
          /\ UNCHANGED <<sock, down>> /\ \E w : Goto(d, w)
      BY <1>0, <1>6, <2>2, <3>1 DEF Launch, TypeOK, command, files
    <3>3. ASSUME NEW q \in Daemons, q # d PROVE ~Alive(q)
      <4>1. SUFFICES ASSUME Alive(q) PROVE FALSE
        OBVIOUS
      <4>2. sock = q
        BY <3>2, <3>3, <4>1 DEF Unguarded
      <4>3. Listening(q)
        BY <1>0, <4>1, <4>2 DEF OwnSocket, Before, Alive, Listening, TypeOK
      <4>. QED  BY <2>2, <4>2, <4>3, ProcessAssumption DEF SomeoneAnswers
    <3>4. \A q \in Daemons : Alive(q)' => q = d
      BY <1>0, <3>2, <3>3, Goes
    <3>5. \A c \in Downs : ~Cleaning(c)'
      <4>1. UNCHANGED down
        BY <3>2
      <4>. QED  BY <3>2, <4>1 DEF Cleaning
    <3>. QED  BY <3>4, <3>5 DEF Alone
  <2>. QED  BY <2>1, <2>2
<1>7. ASSUME NEW d \in Daemons,
             \/ Clean(d) \/ WriteState(d) \/ InstallHandler(d) \/ Stop(d) \/ StopTold(d)
             \/ Join(d) \/ UnlinkSock(d) \/ UnlinkState(d)
      PROVE  Alone'
  <2>1. Alive(d) /\ UNCHANGED <<raced, command>> /\ \E w : Goto(d, w)
    BY <1>7 DEF Clean, WriteState, InstallHandler, Stop, StopTold, Join, UnlinkSock, UnlinkState, Alive
  <2>. QED  BY <1>1, <1>2, <1>5, <2>1 DEF command
<1>8. ASSUME NEW d \in Daemons, SpawnClaude(d) \/ Bind(d) PROVE Alone'
  <2>1. /\ Alive(d) /\ UNCHANGED <<raced, command>>
        /\ Exit(d, "failed") \/ \E w : Goto(d, w)
    BY <1>8 DEF SpawnClaude, Bind, Alive
  <2>. QED  BY <1>1, <1>2, <1>4, <1>5, <2>1 DEF command
<1>9. ASSUME NEW d \in Daemons, Return(d) \/ Crash(d) PROVE Alone'
  BY <1>1, <1>2, <1>4, <1>9 DEF Return, Crash, command
<1>10. ASSUME NEW d \in Daemons,
              Connect(d) \/ HandlersReturn(d) \/ LearnId(d) \/ WorkerStep(d) \/ TimeoutCutsSave(d)
       PROVE  Alone'
  BY <1>1, <1>2, <1>3, <1>10
     DEF Connect, HandlersReturn, LearnId, WorkerStep, ReadForSave, WriteSaved, RenameLands,
         TimeoutCutsSave, command
<1>11. ASSUME NEW c \in Downs, ReadState(c) \/ Kill(c) PROVE Alone'
  <2>1. \A e \in Downs : Cleaning(e)' => Cleaning(e)
    BY <1>0, <1>11 DEF ReadState, Kill, Say, Cleaning, TypeOK
  <2>2. CASE Kill(c) /\ ~UNCHANGED up
    <3>1. pid[c] \in Daemons /\ Exit(pid[c], "crashed") /\ UNCHANGED raced
      BY <1>0, <2>2 DEF Kill, TypeOK
    <3>. QED  BY <1>1, <1>4, <2>1, <3>1
  <2>. QED  BY <1>1, <1>3, <1>11, <2>1, <2>2 DEF ReadState, Kill
<1>12. ASSUME NEW c \in Downs, KillFails(c) PROVE Alone'
  BY <1>0, <1>12 DEF KillFails, Alone, Alive, TypeOK
<1>13. ASSUME NEW c \in Downs, RemoveSock(c) \/ RemoveState(c) PROVE Alone'
  <2>1. \A e \in Downs : Cleaning(e)' => Cleaning(e)
    BY <1>0, <1>13 DEF RemoveSock, RemoveState, Say, Cleaning, TypeOK
  <2>. QED  BY <1>1, <1>3, <1>13, <2>1 DEF RemoveSock, RemoveState
<1>14. CASE UNCHANGED vars
  BY <1>1, <1>2, <1>3, <1>14 DEF vars, command
<1>. QED  BY <1>6, <1>7, <1>8, <1>9, <1>10, <1>11, <1>12, <1>13, <1>14
          DEF Next, UpStep, DownStep
\* A daemon that is not there owns nothing and claims nothing.
LEMMA GoneOwnsNothing ==
    ASSUME Saving, NEW d \in Daemons, ~Alive(d)
    PROVE  Owns(d)
  BY DEF Saving, Alive, Owns

LEMMA OwnerStep == ASSUME IInv, [Next]_vars PROVE Owner'
<1>0. TypeOK /\ Saving /\ OwnSocket /\ Alone /\ Owner
  BY DEF IInv
<1>1. Saving' /\ Alone' /\ TypeOK'
  BY SavingStep, AloneStep, TypeStep
<1>2. SUFFICES ASSUME ~raced', NEW e \in Daemons, Alive(e)' PROVE Owns(e)'
  <2>1. ASSUME NEW d \in Daemons, ~Alive(d)' PROVE Owns(d)'
    BY <1>1, <2>1 DEF Saving, Alive, Owns
  <2>. QED  BY <2>1 DEF Owner
<1>3. ~raced
  BY <1>0, <1>2 DEF Next, Launch, UpStep, Clean, SpawnClaude, WriteState, Bind, InstallHandler, StopTold,
        Stop, Join, UnlinkSock, UnlinkState, Return, Crash, Connect, HandlersReturn, LearnId,
        WorkerStep, ReadForSave, WriteSaved, RenameLands, TimeoutCutsSave, ReadState, DownStep,
        Kill, KillFails, RemoveSock, RemoveState, vars, TypeOK
<1>4. Owns(e)
  BY <1>0, <1>3 DEF Owner
<1>5. ASSUME NEW d \in Daemons, Alive(d), Alive(e) PROVE e = d
  BY <1>0, <1>3, <1>5 DEF Alone
<1>6. ASSUME NEW d \in Daemons, NEW how \in {"failed", "down", "crashed"}, Alive(d), Exit(d, how)
      PROVE  FALSE
  BY <1>0, <1>2, <1>5, <1>6, Exits
<1>7. ASSUME NEW d \in Daemons, NEW w, Alive(d), Goto(d, w)
      PROVE  e = d /\ up'[e] = w
  BY <1>0, <1>2, <1>5, <1>7, Goes
<1>8. ASSUME UNCHANGED <<up, files, worker>> PROVE Owns(e)'
  BY <1>4, <1>8 DEF Owns, files, worker
<1>. USE DEF Owns
<1>9. ASSUME NEW d \in Daemons, Launch(d) PROVE Owns(e)'
  <2>1. PICK w : Goto(d, w) /\ w \in {"refused", "spawn", "clean"}
    BY <1>9 DEF Launch
  <2>2. UNCHANGED <<files, worker>>
    BY <1>9 DEF Launch
  <2>3. CASE e = d
    <3>1. up[d] = "off" /\ up'[d] = w
      BY <1>0, <1>9, <2>1, Goes DEF Launch
    <3>2. saving'[e] = None /\ late'[e] = None
      BY <1>0, <2>2, <2>3, <3>1 DEF Saving, Before, worker
    <3>. QED  BY <2>1, <2>2, <2>3, <3>1, <3>2
  <2>4. CASE e # d
    <3>1. up'[e] = up[e]
      BY <1>0, <2>1, <2>4, Goes
    <3>. QED  BY <1>4, <2>2, <3>1 DEF files, worker
  <2>. QED  BY <2>3, <2>4
<1>10. ASSUME NEW d \in Daemons, Clean(d) PROVE Owns(e)'
  <2>1. e = d /\ up'[e] = "spawn" /\ up[d] = "clean" /\ UNCHANGED worker
    BY <1>7, <1>10 DEF Clean, Alive
  <2>. QED  BY <1>0, <2>1 DEF Saving, Before, worker
<1>11. ASSUME NEW d \in Daemons, SpawnClaude(d) PROVE Owns(e)'
  <2>1. Alive(d)
    BY <1>11 DEF SpawnClaude, Alive
  <2>2. e = d /\ up'[e] = "write" /\ up[d] = "spawn" /\ UNCHANGED worker
    BY <1>6, <1>7, <1>11, <2>1 DEF SpawnClaude
  <2>. QED  BY <1>0, <2>2 DEF Saving, Before, worker
<1>12. ASSUME NEW d \in Daemons, WriteState(d) PROVE Owns(e)'
  <2>1. e = d /\ up'[e] = "bind" /\ up[d] = "write" /\ UNCHANGED worker /\ state' = AtStartUp(d)
    BY <1>7, <1>12 DEF WriteState, Alive
  <2>2. Own(state', d)
    <3>1. AtStartUp(d) # None /\ AtStartUp(d).pid = d
      BY Unreads
    <3>. QED  BY <2>1, <3>1 DEF Own
  <2>. QED  BY <1>0, <2>1, <2>2 DEF Saving, Before, worker, Own
<1>13. ASSUME NEW d \in Daemons, Bind(d) PROVE Owns(e)'
  <2>1. Alive(d)
    BY <1>13 DEF Bind, Alive
  <2>2. /\ e = d /\ up'[e] = "bound" /\ up[d] = "bind" /\ UNCHANGED <<worker, state>>
        /\ sock' = d
    BY <1>6, <1>7, <1>13, <2>1 DEF Bind
  <2>. QED  BY <1>0, <1>4, <2>2 DEF Saving, Before, worker, Own
<1>14. ASSUME NEW d \in Daemons, InstallHandler(d) PROVE Owns(e)'
  <2>1. e = d /\ up'[e] = "serve" /\ up[d] = "bound" /\ UNCHANGED <<worker, sock, state>>
    BY <1>7, <1>14 DEF InstallHandler, Alive, files
  <2>2. ~known'[e]
    BY <1>0, <2>1 DEF Saving, Before, worker
  <2>. QED  BY <1>4, <2>1, <2>2 DEF worker, Own
<1>15. ASSUME NEW d \in Daemons, Stop(d) PROVE Owns(e)'
  <2>1. e = d /\ up'[e] = "join" /\ up[d] = "serve" /\ UNCHANGED <<worker, sock, state>>
    BY <1>7, <1>15 DEF Stop, Alive, files
  <2>. QED  BY <1>4, <2>1 DEF worker, Own
<1>16. ASSUME NEW d \in Daemons, Join(d) PROVE Owns(e)'
  <2>1. e = d /\ up'[e] = "unlink sock" /\ up[d] = "join" /\ UNCHANGED <<worker, sock, state>>
    BY <1>7, <1>16 DEF Join, Alive, files
  <2>. QED  BY <1>4, <2>1 DEF worker, Own
<1>17. ASSUME NEW d \in Daemons, UnlinkSock(d) PROVE Owns(e)'
  <2>1. /\ e = d /\ up'[e] = "unlink state" /\ up[d] = "unlink sock" /\ UNCHANGED <<worker, state>>
        /\ sock' = None
    BY <1>7, <1>17 DEF UnlinkSock, Alive
  <2>. QED  BY <1>4, <2>1, ProcessAssumption DEF worker, Own
<1>18. ASSUME NEW d \in Daemons, UnlinkState(d) PROVE Owns(e)'
  <2>1. /\ e = d /\ up'[e] = "exit" /\ up[d] = "unlink state" /\ UNCHANGED <<worker, sock>>
        /\ state' = None
    BY <1>7, <1>18 DEF UnlinkState, Alive
  <2>. QED  BY <1>4, <2>1 DEF worker, Own
<1>19. ASSUME NEW d \in Daemons, Return(d) \/ Crash(d) PROVE Owns(e)'
  <2>1. Alive(d)
    BY <1>19 DEF Return, Crash, Alive
  <2>. QED  BY <1>6, <1>19, <2>1 DEF Return, Crash
<1>20. ASSUME NEW d \in Daemons, Connect(d) \/ HandlersReturn(d) PROVE Owns(e)'
  BY <1>4, <1>20 DEF Connect, HandlersReturn, files
<1>21. ASSUME UNCHANGED up PROVE Alive(e)
  BY <1>2, <1>21 DEF Alive
<1>22. ASSUME NEW d \in Daemons, LearnId(d) PROVE Owns(e)'
  <2>1. /\ e = d /\ UNCHANGED <<up, sock, state, late, cut>>
        /\ saving'[e] = Unread /\ up[d] \in {"serve", "join"}
    BY <1>0, <1>5, <1>21, <1>22 DEF LearnId, Alive, files, TypeOK
  <2>. QED  BY <1>4, <2>1, Unreads
<1>23. ASSUME NEW d \in Daemons, saving[d] # None PROVE Alive(d) /\ up[d] \in {"serve", "join"} /\ known[d]
  BY <1>0, <1>23 DEF Saving, Alive
<1>24. ASSUME NEW d \in Daemons, ReadForSave(d) PROVE Owns(e)'
  <2>1. saving[d] # None
    BY <1>24, Unreads DEF ReadForSave
  <2>2. e = d /\ UNCHANGED <<up, sock, state, late, cut, known>> /\ saving'[e] = Merged(d)
    BY <1>0, <1>5, <1>21, <1>23, <1>24, <2>1 DEF ReadForSave, files, TypeOK
  <2>3. Merged(d) # None /\ Merged(d).pid = d /\ Merged(d).id
    <3>1. Own(state, d)
      BY <1>4, <1>23, <2>1, <2>2
    <3>. QED  BY <1>0, <3>1, Merges, Unreads DEF Own
  <2>4. Own(saving'[e], e) /\ saving'[e].id
    BY <2>2, <2>3 DEF Own
  <2>. QED  BY <1>4, <2>2, <2>3, <2>4
<1>25. ASSUME NEW d \in Daemons, WriteSaved(d) PROVE Owns(e)'
  <2>1. saving[d] \notin {None, Unread}
    BY <1>25 DEF WriteSaved
  <2>2. /\ e = d /\ UNCHANGED <<up, sock, late, cut, known>> /\ saving'[e] = None
        /\ state' = saving[e]
    BY <1>0, <1>5, <1>21, <1>23, <1>25, <2>1 DEF WriteSaved, TypeOK
  <2>3. Own(state', e) /\ state'.id /\ up[e] \in {"serve", "join"}
    BY <1>4, <1>23, <2>1, <2>2
  <2>. QED  BY <1>4, <2>2, <2>3
<1>26. ASSUME NEW d \in Daemons, TimeoutCutsSave(d) PROVE Owns(e)'
  <2>1. saving[d] # None
    BY <1>26 DEF TimeoutCutsSave
  <2>2. /\ e = d /\ UNCHANGED <<up, sock, state, known>> /\ saving'[e] = None /\ cut'[e]
        /\ late'[e] = late[e] \/ (saving[e] # Unread /\ late'[e] = saving[e])
    <3>1. e = d /\ UNCHANGED <<up, sock, state, known>>
      BY <1>5, <1>21, <1>23, <1>26, <2>1 DEF TimeoutCutsSave, files
    <3>2. saving'[d] = None /\ cut'[d]
      BY <1>0, <1>26 DEF TimeoutCutsSave, TypeOK
    <3>3. late'[d] = late[d] \/ (saving[d] # Unread /\ late'[d] = saving[d])
      BY <1>0, <1>26 DEF TimeoutCutsSave, TypeOK
    <3>. QED  BY <3>1, <3>2, <3>3
  <2>3. late'[e] # None => Own(late'[e], e)
    BY <1>4, <2>1, <2>2
  <2>. QED  BY <1>4, <2>2, <2>3
<1>27. ASSUME NEW d \in Daemons, RenameLands(d) PROVE Owns(e)'
  <2>1. Alive(d) /\ cut[d] /\ late[d] # None
    BY <1>0, <1>27 DEF RenameLands, Saving
  <2>2. e = d /\ UNCHANGED <<up, sock, saving, cut, known>> /\ late'[e] = None /\ state' = late[e]
    BY <1>0, <1>5, <1>21, <1>27, <2>1 DEF RenameLands, TypeOK
  <2>3. Own(state', e)
    BY <1>4, <2>1, <2>2
  <2>. QED  BY <1>4, <2>1, <2>2, <2>3
<1>28. ASSUME NEW c \in Downs, ReadState(c) PROVE Owns(e)'
  BY <1>8, <1>28 DEF ReadState
<1>29. ASSUME NEW c \in Downs, Kill(c) PROVE Owns(e)'
  <2>1. PICK d \in Daemons : d = pid[c] /\ Alive(d)
    BY <1>0, <1>29 DEF Kill, TypeOK
  <2>2. CASE UNCHANGED <<up, worker>>
    BY <1>8, <1>29, <2>2 DEF Kill
  <2>3. CASE Exit(d, "crashed")
    BY <1>6, <2>1, <2>3
  <2>. QED  BY <1>29, <2>1, <2>2, <2>3 DEF Kill
<1>30. ASSUME NEW c \in Downs, KillFails(c) PROVE Owns(e)'
  BY <1>8, <1>30 DEF KillFails
<1>31. ASSUME NEW c \in Downs, RemoveSock(c) \/ RemoveState(c) PROVE Owns(e)'
  <2>1. Cleaning(c) /\ UNCHANGED up
    BY <1>31 DEF RemoveSock, RemoveState, Cleaning
  <2>. QED  BY <1>0, <1>3, <1>21, <2>1 DEF Alone
<1>32. CASE UNCHANGED vars
  BY <1>8, <1>32 DEF vars
<1>. HIDE DEF Owns
<1>. QED  BY <1>9, <1>10, <1>11, <1>12, <1>13, <1>14, <1>15, <1>16, <1>17, <1>18, <1>19, <1>20, <1>22,
             <1>24, <1>25, <1>26, <1>27, <1>28, <1>29, <1>30, <1>31, <1>32
          DEF Next, UpStep, StopTold, WorkerStep, DownStep

-----------------------------------------------------------------------------
(* The theorems.                                                           *)

LEMMA Inductive == Spec => []IInv
<1>1. ASSUME Init PROVE IInv
  <2>1. TypeOK
    BY <1>1 DEF Init, TypeOK
  <2>2. Saving /\ OwnSocket /\ Alone
    BY <1>1, ProcessAssumption DEF Init, Saving, OwnSocket, Alone, Alive, Cleaning
  <2>3. Owner
    BY <1>1 DEF Init, Owner, Owns
  <2>. QED  BY <2>1, <2>2, <2>3 DEF IInv
<1>2. ASSUME IInv, [Next]_vars PROVE IInv'
  BY <1>2, TypeStep, SavingStep, OwnSocketStep, AloneStep, OwnerStep DEF IInv
<1>. QED  BY <1>1, <1>2, PTL DEF Spec

\* The daemons, the commands and the two files keep to their types.
THEOREM SessionTypeCorrect == Spec => []TypeOK
<1>1. IInv => TypeOK
  BY DEF IInv
<1>. QED  BY <1>1, Inductive, PTL

\* A live daemon is found by its files (daemon.rs:53-62), for any number of
\* daemons and commands, whatever crashes there are and wherever in its
\* start-up or teardown a signal finds one; and the state file has the id
\* that status and --resume look for (daemon.rs:391-398).
THEOREM DaemonIsFound == Spec => []FilesTellDaemon
<1>1. ASSUME IInv PROVE FilesTellDaemon
  <2>1. ServingIsFound
    BY <1>1 DEF IInv, Owner, Owns, Own, ServingIsFound
  <2>2. IdIsSaved
    BY <1>1 DEF IInv, Owner, Owns, Own, IdIsSaved
  <2>. QED  BY <2>1, <2>2 DEF FilesTellDaemon
<1>. QED  BY <1>1, Inductive, PTL

\* The teardown leaves neither socket nor state (daemon.rs:99-104).
THEOREM TeardownIsClean == Spec => []TeardownLeavesNothing
<1>1. ASSUME IInv PROVE TeardownLeavesNothing
  BY <1>1 DEF IInv, Owner, Owns, TeardownLeavesNothing
<1>. QED  BY <1>1, Inductive, PTL
=============================================================================

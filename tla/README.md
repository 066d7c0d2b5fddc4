# claude-pipe: a TLA+ model of its concurrent core

claude-pipe keeps agent processes warm and lends each of them to one client at
a time. It is a Rust supervisor with one relay per agent, an older daemon that
drives one `claude` process a request at a time (v1), and channels-kit, a Node
bridge that makes a live Claude session look like an ACP agent. This directory
holds TLA+ modules for the parts in which several tasks share state, the
configurations TLC checks them with, and theorems TLAPS has proved.

`tlc -config <file>.cfg <module>` repeats a run; `tlapm <component>Proofs.tla`
repeats the proofs about a component. `PROJECT.json` lists the runs, what each definition models
(file and lines), the hazards of the code, and for every checked property a
plausible bug in the code that would violate it.

## 1. The system

### Components

| Component | Source | State it keeps | Operations |
|---|---|---|---|
| Relay: lease, turns, steal | `src/relay.rs`, accept loop in `src/supervisor.rs` | the lease with its stop switches, `open_turns`, `open_callbacks`, `agent_dead`, `intended_holder`, the stdin channel | attach (with a steal), detach, read a client's frames, write to the agent, demultiplex the agent's frames, forward, notice death |
| Relay: forward queues | `src/relay.rs` | one lane per session with its `pressured` flag, `drain_order`, `torn`, the session of each open turn | choose the lane of a frame or a reply, push with soft and hard bound, round-robin drain, write of a batch |
| Supervisor: control plane | `src/supervisor.rs` | the pool under one mutex, `next_seq` | list, attach, detach, kill, spawn, events; accept loop of each data socket |
| Supervisor: life and files | `src/supervisor.rs`, `src/protocol.rs` | control socket, data sockets, state file | start-up check, prespawn, persist, teardown |
| v1 daemon: turns | `src/daemon.rs` | job channel, the worker's debt of a late result, the known session id | accept, handle a request, run a turn, drain, save, tear down |
| v1 session: files | `src/daemon.rs`, `src/client.rs`, `src/protocol.rs` | socket, state file, a pending SIGTERM | up, save the session id, down |
| ACP framing | `src/acp.rs` | none | split a buffer into lines; read id, session, method, stop reason |
| channels-kit: facade | `channels-kit/acp-facade.mjs` | open turns, their timers, recently closed sessions, pending permissions | prompt, cancel, tool call, permission, close, teardown |
| channels-kit: transports, channel server | `channels-kit/transports.mjs`, `channel-server.mjs` | outbox, current connection, half-read lines | push, verdict, tool call, adopt, close, error of a connection |
| channels-kit: lifecycle, host | `channels-kit/lifecycle.mjs`, `index.mjs`, `cli.mjs` | the Claude process, the two confirmation timers | spawn, confirm, exit, close, signal |
| Command line, recipes, scripts, tests | `src/control.rs`, `src/main.rs`, `src/recipe.rs`, `scripts/`, `tests/` | none | one request and its answer; tables; processes |

### How they interact

An orchestrator asks the supervisor over `control.sock` to attach it to an
agent. The handler takes the pool's mutex, tells the agent's relay who is coming
(`SetIntendedHolder`) over its command channel, waits for the acknowledgement,
and answers with the path of the agent's data socket. The orchestrator connects
there; the accept loop of that socket hands the stream to the relay as an
`Attach` command and waits for the outcome before it accepts again. The relay
serves its commands one after the other. If somebody holds the lease it waits
for a boundary (no open turn, no fresh call), is woken by the demultiplexer
through a `Notify`, and gives up after `STEAL_WAIT`. A lease is two tasks: a
reader, which registers prompts in `open_turns` and puts frames into the channel
of the single stdin writer, and a forwarder, which drains the lanes the
demultiplexer fills. `RelayState` is shared under one mutex that is never held
across a write.

The v1 daemon has a handler per connection and one worker behind a channel; a
reply comes back over a oneshot. Daemons of one session, and the `down` command,
know each other only through a socket and a state file named after the session.
In channels-kit the facade, one JavaScript thread, talks to Claude through a
bus; Claude answers by tool calls that are routed back to the session's open
turn. The bus is a unix socket on which Claude's channel server dials in, again
after each restart of it; the host around it types the confirmation Claude asks
for at its start, and ends with Claude.

### What is hard about it

- Steals: a check under a lock and an act after it; a reader that is stopped
  with frames in its hands; turns whose end only the agent's reply tells.
- Two forwarders that drain the same lanes for a while, bounds that cut lanes,
  a flag that must stop a stream and not the next one.
- A mutex of the pool that is held while a relay is asked, which may itself be
  waiting for thirty seconds, or have ended.
- Replies that name no session and are told apart by their ids, which two
  clients may give twice.
- Supervisors, and daemons of a session, that follow or overlap each other on
  the same files; a `down` that believes a file whose writer is gone.
- Timeouts that leave the late result of one turn in front of the next.
- Tool calls that arrive for a turn which is over, and timers which close a
  session's turn, whichever it is.
- Connections that replace each other with lines half read and pushes waiting.

### What makes each part correct

- *Relay*: one client at a time; no steal while a turn is on its way anywhere;
  no finished turn refuses steals; every connection gets an answer; a registered
  prompt reaches the agent that reads.
- *Queues*: every frame and every reply once and in its session's order, as long
  as no two open prompts have one id; a cut ends the stream; sessions get equal
  shares and none waits for ever.
- *Control plane*: leases carry the tag of who connected; a path is of an agent
  in the pool; every request and every connection is answered.
- *Life and files*: the supervisor that serves is the one clients reach; a path
  leads to the agent's own listener; the state file tells the pool; a teardown
  leaves nothing; what a killed supervisor left stops nobody.
- *Daemon*: a client gets its own reply; turns do not overlap on the stream;
  every request is answered.
- *Session files*: the socket and the state file are those of the daemon that
  serves, with the id it knows; a teardown leaves nothing; a daemon that was
  signalled ends.
- *Facade*: a call reaches the turn of its task; a timer belongs to an open
  turn; a cancel is answered as one; nothing is allowed that nobody allowed;
  every prompt and every permission request is answered, unless the client puts
  its answer off for ever.
- *Host*: one connection is live and what is sent on it arrives; Claude's end
  answers the open turns; the picker is confirmed once.

## 2. The modules

An action is what one task does between two awaits (in the facade: one
callback), under the lock it holds there. Actions and variables have the code's
names where TLA+ allows it; `PROJECT.json` has the lines of each. Definitions
whose comment begins with `Fault:` are not part of a specification: each is the
mutated form of the definition after it, as a bug would have it.

**RelayLease** has `relay_main` with `do_attach`, `do_detach` and
`wait_turn_boundary` (`relay` is where the command loop stands: `select`,
`check`, `arm`, `parked`, `grant`, `drain`, `ended`), a reader, a forwarder and
a connection per client, the stdin channel and its writer, the demultiplexer,
and the agent. Between `check` and `parked` lies the window in which a
`notify_waiters` is lost, between `check` and `grant` the one in which the old
reader can still register a prompt. The age of a call is `fresh` or `stale`,
and the deadline a flag: the model has no clock. A prompt has an id that
its client chose (`rpcId`); a client gives no two open prompts the same, two
clients may, and `crossed` remembers the prompts whose entry another's reply
removed.

**ForwardQueues** has the lanes: `DemuxFrame` is the push, with both bounds, of
a frame that names its session, `DemuxReply` that of a reply, whose lane is
found by the id of its turn (`KeyOf`) before the turn is closed. `Prompt`
registers a turn under its id and replaces the entry there is, as the code does:
`crossed` remembers the prompts that were open together with another of their
id, `astray` those whose reply joined a lane that is not their session's.
`StartDrain`, `Visit`, `NextLap` and `EndDrain` are `drain_round_robin` under
the mutex, `Write` and `WriteFails` the write outside it. Leases change hands
at any time. Every frame of a session weighs the same, so that the bound in
frames and the bound in bytes can be reached in either order. **SessionLanes**
is its abstract specification: a sequence per session that is appended to,
taken from the front and, once, cut; what is appended is of the lane's session,
or a reply to a prompt that crossed. `LanesSpec` of ForwardQueues says that it
implements it.

**TurnWorker** has the handlers, the job channel, `worker_loop`,
`run_one_turn`, `drain_pending_result`, `read_until_result` and the teardown.
A line of claude's output comes in two pieces, because a dropped `read_line`
loses the first. The reply to a client is a step of its own (`ReplySent`), after
which the handler lets go of the job channel; a `Silent` client may never send its
request, and may never read its reply.

**SessionFiles** has `run_up` step by step from its look at the socket to the
end of its teardown, the save of the session id as a read and a write that a
timeout may cut, and `run_down`. A restart is the launch of another daemon.

**ChannelsFacade** has prompts, cancels, the timers (turn, cancel, grace),
`resolveTurn` and the tool calls, the four permission modes, and teardown. A
turn's timer fires once it is in `aged`, that is after some of its time has
passed; a cancel sets it anew and takes it out again, as often as the client
likes. The client's answer to a permission request has any `outcome`, or none. A
Claude that is not `Obedient` tags calls as it likes.

**ChannelHost** has what is around the facade: `facadeUnixServer` with its
outbox, its current connection and the half-read line of each, `serverUnixClient`
and the channel server behind it, the 4 s and the 250 ms timer of the picker,
Claude's exit, `close` and the signal handler. A line to the host comes in two
pieces; a line from a server to a connection that is gone is lost and the server
lives on.

**ControlPlane** has the handlers of attach, detach, list, kill and events as processes
that take and keep the pool's mutex, the command channel of each relay, its
`intended_holder`, and the accept loop with the listener's backlog. A list asks
each relay twice (`LeaseHolder`, then `SessionCount`), and the accept loop may
return though its relay is there (`AcceptFails`). How a steal
waits is RelayLease's; here the wait ends with a grant or a refusal.

**PoolFiles** has `run_supervisor` from the check of the control socket to the
exit, the tasks of `spawn_agent` and of kill step by step, the persist, and the
files, which are shared with other supervisors. A restart is the launch of
another supervisor after one has been killed.

The parts meet at narrow interfaces, which is why they are checked apart:
RelayLease takes from the queues only that frames arrive in order
(`FramesIntact`); ForwardQueues takes from the lease only that a stopped
forwarder is one whose lease is over (`ExclusiveLease`); ControlPlane takes
from RelayLease that a steal wait ends (`AttachAnswered`); PoolFiles takes from
ControlPlane that a kill returns (`PeersAnswered`); SessionFiles takes from
TurnWorker that a teardown ends when no connection keeps it (`TeardownEnds`);
ChannelsFacade takes from ChannelHost a bus on which a task or a call is lost
only with its connection (`LinesArrive`), which its Claude that never calls
covers.

## 3. The runs

Runs that pass:

| Run | Instance | States | What it shows |
|---|---|---|---|
| `lease_safety` | 2 connections, 2 prompts with 2 ids, 1 call, stdin 1, pipe 2, chunks of 2, stops and errors, the agent may die | 1 589 000 | `BoundaryIsQuiet`, `OpenTurnIsLive`, `ExclusiveLease` |
| `lease_liveness` | 2 connections of which 1 may hang up, 1 prompt, 1 call, channels of 1, the agent may die | 195 000 | `AttachAnswered`, `ParkedStealGetsLease`, `RegisteredPromptArrives` |
| `queues` | 2 leases, 2 prompts of 2 sessions with 1 id, 3 frames with the replies, both bounds 3, batches of 2, the old client may go away, the agent may die | 428 000 | `FramesIntact` (own lane, order, once, never spliced), `FairShare`, `LanesSpec`, `EligibleLaneDrains` |
| `worker` | 3 clients, one silent, one with a big request, 2 queued jobs, claude may die | 149 000 | `OwnReply`, `OneTurnAtATime`, `EveryRequestAnswered`, `TeardownEnds` |
| `session` | 2 daemons of which 1 may be killed, 2 `down` commands | 153 000 | `FilesTellDaemon` (the files are those of the daemon that serves and hold its id), `TeardownLeavesNothing`, `SignalEndsDaemon` |
| `facade` | 2 sessions, 2 prompts, 1 permission request, any number of cancels, a Claude that tags as it likes | 210 000 | `TimersMatchTurns`, `AllowMeansAsked`, `OwnTurn`, `CancelAnswered`, `EveryoneAnswered` (prompts and permission requests) |
| `host` | 2 channel servers, 2 prompts | 362 000 | `OneConnection`, `LinesArrive`, `TurnsAnswered`, `ConfirmedOnce` |
| `control` | 2 orchestrators, 1 agent, a command channel of 1, the agent may die and `accept` may fail | 156 000 | `TaggedUnlessOverlapped`, `PathOfPooled`, `PeersAnswered` (requests and connections) |
| `pool` | 2 supervisors of which 1 may be killed, each with 2 handlers, 1 prespawned agent, 2 ids | 316 000 | `FilesTellPool` (sockets and state file are those of the supervisor that serves), `TeardownLeavesNothing`, `StartUpServes` |

Runs that find the code at odds with what is said of it:

| Run | Property | What TLC finds |
|---|---|---|
| `lease_mid_turn_steal` | `StealOnlyAtBoundary` | The boundary is checked under the lock and the old reader stopped after it; a prompt registered in between is stolen from (`docs/acp-transport-spec.md:335`). |
| `queues_tear` | `TearEndsOneLease` | `torn` is never reset: one tear ends the forwarder of every later lease (`docs/acp-transport-spec.md:256`). |
| `worker_lost_result` | `FailedDrainMeansWedged` | A timeout in the middle of the result line loses it; the drain waits for a line that is gone and the worker ends beside a healthy claude (`daemon.rs:346-348`, root `README.md:192-194`). |

### The bounds, and why they are enough

Two connections are a holder and a thief, and after a steal the thief is the
next holder, so successive steals occur; what a third connection could add is
covered for the safety properties by the proofs, which hold for any number.
Channels of one or two frames make both the full and the empty channel common;
a chunk of two frames is the least in which a reader can be stopped in the
middle. `lease_safety` uses symmetry (prompts, ids, and clients none of which
may hang up); hang-ups are in `lease_liveness` and in the theorems. Two prompts
and two ids let two clients take the same id, and one client two ids. In
`queues`, frames of weight two for one session and of weight one for the other
reach the hard bound before the soft one and the soft one without the hard one;
a batch of two leaves a frame behind. The two prompts are of different sessions
and have one id, so that their replies can join each other's lanes, or, when the
first has removed the entry, the lane of frames that belong to no session. Three
frames (`TotalBound`) are two replies and one frame before, between or behind
them, or one reply and two frames, or three frames of one lane; a reply that is
due has room kept for it (`Room`). A client prompts while a forwarder was ever
started and the relay is not torn, since before and after it makes no difference;
a client that goes away does so while its forwarder is writing, since a forwarder
learns of it from a write only. Leases are numbered as they are granted,
which loses nothing: connections are otherwise alike. In `worker`, three
clients give a turn, a drain behind it and a job queued behind both; `Piece`
splits each line once, the least that can be lost. In `facade`, a second
prompt is either a re-prompt of the same session or a turn of another; of a
timer's time two moments are told apart, set and `aged`, which is what a cancel
that comes before the timer fires needs. In
`control` there is one agent: a detach without an id and a list over several
relays ask them one by one under the same lock, which one relay shows, but the
early end of a detach after its first success is not exercised. Each
orchestrator connects once, and `Asks` divides the verbs: both attach, one
kills, the other detaches, lists and watches events. In `session`, the daemon
that may be killed leaves its files to the other, and two commands race each
other and the start of a daemon. In `host`, the second server is the restart of
the first, or a stray process. In `pool`, two ids are a prespawned agent and one
that a handler spawns while the first is killed.

Deadlock checking is off in all of them: clients may all be done, and a system
nobody uses stops. That nothing stops too early is what the liveness properties
say.

### Fairness

- *RelayLease*: weak fairness of every task of the relay and of its timer,
  which a tokio runtime that polls what is ready gives. None of agent and
  clients, who need not read: a write returns for certain only when it fails.
  `RegisteredPromptArrives` alone needs an agent that reads its stdin, and names
  it as its hypothesis (`AgentReads`).
- *ForwardQueues*: strong fairness of each forwarder, as the mutex is FIFO and
  the demultiplexer never keeps it. A client that is there reads.
- *TurnWorker*: weak fairness of worker and handlers, of the teardown and of
  the exit's notice; clients that are not silent send or hang up, and read what
  they are answered. None of claude.
- *SessionFiles*: weak fairness of a process's own steps. Nobody need launch a
  daemon, run a command, or close a connection.
- *ChannelHost*: the event loop gets to the callbacks that are due, a server
  reads, and a live Claude starts the servers there are.
- *ChannelsFacade*: time passes, timers that nobody clears fire and awaits
  resume. None of Claude, the client or the host: a client may cancel for ever.
- *ControlPlane*: strong fairness of handlers and accept loops, since tokio's
  mutex and channels serve waiters in turn; weak fairness of the relays, whose
  steal wait ends (`AttachAnswered`). None of orchestrators and agents, and none
  of an `accept` that fails.
- *PoolFiles*: weak fairness of a process's own steps. Nobody need launch,
  signal or kill anything.

### Exceptions in the properties

Where the code gives less than one would like, the property says what it gives
and names the exception; each is a real behaviour:

- `AttachAnswered` allows a refusal after `STEAL_WAIT` when the agent died
  (`relay.rs:385`, `446` promise to unblock at once: `agent_dead` is set by the
  very task that waits), and when a turn stays open, which nothing bounds.
- `BoundaryIsQuiet` excepts turns whose id another client's turn has too, which a
  detach in the middle of a turn makes possible: `open_turns` is keyed by the id
  alone, so the first reply removes the entry of both.
- `OpenTurnIsLive` excepts turns that ended in an error: a JSON-RPC error reply
  carries no `stopReason`, so its entry stays in `open_turns` and refuses every
  later steal, although `relay.rs:117-119` says that an entry is an open turn.
- `RegisteredPromptArrives` speaks of an agent that reads its stdin. `write_all`
  (`relay.rs:482`) has no timeout: in front of an agent that lives and does not
  read, a registered prompt stays in the channel, and its entry in `open_turns`.
- `FramesIntact` and `LanesSpec` except the replies to prompts that were open
  together with another of the same id (`crossed`), as a detach in the middle of
  a turn makes possible: `relay.rs:680-687` replaces the entry, so the first
  reply joins the lane of the later prompt's session and the second, which finds
  no entry, that of no session. Every other reply joins the lane of its own
  session (`InOwnLane`); frames that name their session always do; and what
  joins a lane, of whichever session, keeps that lane's order.
- `FramesIntact` orders a reply with the frames of its session when its turn is
  registered. The reply to `session/load` is not one: it has neither `sessionId`
  nor a turn, goes to the lane of no session, and may overtake the frames it
  ends, which the comment at `relay.rs:535-540` wants ordered.
- `EligibleLaneDrains` excepts lanes that have become pressured: `pressured` is
  set and never reset, so such a lane is never drained again, although
  `docs/acp-transport-spec.md:249-254` expects the orchestrator to drain it.
  Frames of a batch whose write failed are gone with their connection.
- `EveryRequestAnswered` and `TeardownEnds` except a worker in `write_all` to a
  claude that does not read, which `timeout_ms` does not cover, and the teardown
  also a connection that never sends its request or never reads its reply
  (`daemon.rs:465`).
- `FilesTellDaemon`, `TeardownLeavesNothing` (SessionFiles) except two processes
  in their unguarded windows at once (`raced`). Of two `up`s that race, the one
  whose bind fails has already written its own pid into the state file; the next
  `down` finds that pid gone and removes the socket of the daemon that serves,
  which nobody reaches any more. An `up` launched into another's teardown loses
  its files to it. They except a save that a turn's timeout has cut (`cut`): the
  id is set before the await, so it is never saved again, and a rename that was
  already handed to the thread pool may land after the teardown.
- `SignalEndsDaemon` excepts a connection that keeps its sender of the job queue
  (`held`), as `TeardownEnds` does. A signal before the handler is installed ends
  the daemon without a teardown.
- `LinesArrive` excepts what was written to a connection that then ended: the
  outbox has forgotten it.
- `TurnsAnswered` excepts a host that ended before it saw Claude's end: by a
  signal, whose handler closes without the facade's teardown (`index.mjs:91-94`);
  by an error on an accepted socket, which has no handler and ends the process
  (`transports.mjs:86`).
- `ConfirmedOnce` allows the key typed 250 ms after a match to come after Claude's
  exit in an embedded host: the guard `torn` (`lifecycle.mjs:72`, "set on
  exit/kill so a racing timer is a no-op") is on the 4 s timer alone.
- `CancelAnswered` excepts a client that prompts over its own cancelled turn,
  which is answered `end_turn`.
- `EveryoneAnswered` excepts a prompt whose client cancels it again and again
  without end: every `session/cancel` clears the timer of five seconds and sets it
  anew (`acp-facade.mjs:291-296`), so a client that sends one more often than that
  keeps its own turn open. A permission request has no such exception: its
  timeout is set once.
- `AllowMeansAsked` takes an `allow_once` for an allowance whatever its `outcome`
  is, unless that is `cancelled`: `acp-facade.mjs:198` does not ask for
  `selected`, though `:149-150` speaks of an explicit selection. In host mode it
  speaks of the
  requests the client is asked; what the embedder's callback decides is the
  embedder's.
- `OwnTurn` excepts a call Claude has tagged wrongly while several turns are open,
  and a late call for a turn that is over while one other turn is open: that
  turn takes every call, also when the tag is right and names another session
  (`acp-facade.mjs:27-28`, `PARITY.md:62-63`).
- `TaggedUnlessOverlapped` excepts attaches that overlap: `supervisor.rs:418-423`
  promises the real holder, but there is one `intended_holder`, so of two
  attaches before either has connected the first to connect takes the tag of the
  last to attach.
- `PeersAnswered` excepts connections to a pooled agent whose accept loop has
  returned, because its relay ended or because `accept` failed
  (`supervisor.rs:326-329`): the loop is gone, the listener is not, and list and
  attach go on offering the agent (`liveness` is never set to `Dead`).
- The properties of PoolFiles except two supervisors in their unguarded windows
  at once (`raced`): the socket is checked before the pool is spawned and bound
  after it, so two that are launched together remove each other's sockets; and a
  supervisor launched into the end of another's teardown loses its state file.
  `TeardownLeavesNothing` further excepts handlers that are still at work at the
  signal (a spawn inserts into the drained pool, a persist brings the state file
  back) and the socket of a spawn that failed.
- The persisted pool is written and read back by nothing; the model has no
  action that reads `state`.

## 4. What is proved

Every invariant, every action property and the refinement that the runs check on
small instances are theorems, for any value of the constants: any number of
clients, sessions, agents, daemons or supervisors, and any capacities and bounds
above zero. Each component has its proofs in a module of its own, which begins
with the inductive invariant.

| Theorem | Statement |
|---|---|
| RelayLeaseProofs: `TypeCorrect` | `Spec => []TypeOK` |
| `LeaseIsExclusive` | `Spec => []ExclusiveLease`: only the leaseholder's tasks run unstopped |
| `BoundaryMeansQuiet` | `Spec => []BoundaryIsQuiet`: when `open_turns` is empty no prompt is on its way and the agent waits for nobody |
| `EntriesAreLive` | `Spec => []OpenTurnIsLive`: an entry of `open_turns` is that of a turn that goes on, or ended in an error |
| ForwardQueuesProofs: `QueuesTypeCorrect` | `Spec => []TypeOK` |
| `QueuesImplementLanes` | `Spec => LanesSpec`: the queues implement SessionLanes, for any prompts and ids: only replies to prompts that crossed join a lane not their session's |
| `FramesStayIntact` | `Spec => []FramesIntact`: each frame once, in its lane's order, nothing after a gap; each reply in the lane of its session unless its prompt crossed |
| `DrainsAreFair` | `Spec => []FairShare`: sessions get equal shares of a batch |
| TurnWorkerProofs: `WorkerTypeCorrect` | `Spec => []TypeOK` |
| `RepliesAreOwn` | `Spec => []OwnReply`: a client gets the text of its own turn |
| `TurnsDoNotOverlap` | `Spec => []OneTurnAtATime`: a turn begins when nothing of another is on the stream |
| ControlPlaneProofs: `ControlTypeCorrect` | `Spec => []TypeOK` |
| `LeasesAreTagged` | `Spec => []TaggedUnlessOverlapped`: a lease has the tag of who connected |
| `PathsArePooled` | `Spec => PathOfPooled`: a path is given out for an agent in the pool |
| SessionFilesProofs: `SessionTypeCorrect` | `Spec => []TypeOK` |
| `DaemonIsFound` | `Spec => []FilesTellDaemon`: the files are those of the daemon that serves |
| `TeardownIsClean` | `Spec => []TeardownLeavesNothing` |
| PoolFilesProofs: `PoolTypeCorrect` | `Spec => []TypeOK` |
| `PoolIsTold` | `Spec => []FilesTellPool`: the files tell of the supervisor that serves and of its pool |
| `PoolTeardownIsClean` | `Spec => []TeardownLeavesNothing` |
| ChannelsFacadeProofs: `FacadeTypeCorrect` | `Spec => []TypeOK` |
| `TimersAreOfTurns` | `Spec => []TimersMatchTurns`: the timers are those of the open turns |
| `OnlyTheClientAllows` | `Spec => AllowMeansAsked`: where the client decides, a verdict becomes `allow` only in the step that takes the client's `allow_once` |
| `CallsReachTheirTurn` | `Spec => OwnTurn`: a call reaches the turn it is for |
| `CancelsAreAnswered` | `Spec => CancelAnswered`: a cancelled turn is answered as one |
| ChannelHostProofs: `HostTypeCorrect` | `Spec => []TypeOK` |
| `OneServerIsWrittenTo` | `Spec => []OneConnection`: one connection is live and nothing waits while there is one |
| `PickerIsConfirmedOnce` | `Spec => []TypedOnce`: the safe half of `ConfirmedOnce`, the key is typed at most once |

### What is assumed

The constants obey the named assumptions of their modules, which TLC evaluates in
every run. Most say that capacities are positive, that subsets are subsets, that
a prompt has an id and a session (`PromptAssumption` of ForwardQueues; nothing says
that two have not the same), and that `None` is no member of the sets it stands
beside. Some the proofs called for:
the sessions of ForwardQueues are finitely many (`SessionAssumption`), as the
sessions an agent has ever had are; a client of TurnWorker is not the name of a
state (`ClientsAssumption`), and `None` no record of a state file
(`RecordAssumption`, `StateAssumption`), no verdict or stop reason
(`NoneAssumption` of ChannelsFacade) and no answer of a client
(`NoOutcomeAssumption`): the models use one variable for both, where
the code has an `Option` or an enum.

### The arguments

Of the safety properties, `OneConnection` is inductive as it stands. Each invariant below
was checked by TLC before it was proved. A step of the proof is an action; what
an action changes is said once by a lemma, and cited for each conjunct.

*Exclusive lease.* That granting a lease keeps it needs that the connection being
served has no tasks yet. `LeaseInv` adds this: `candidate` is set exactly between
`check` and `grant` and is `pending`, a connection that is not `up` has no tasks
and was not stopped, a leaseholder is `up` and not stopped.

*Boundary is quiet.* That an empty `open_turns` means silence needs to know
where every prompt is. `TurnInv` says so for each queue on the way: a prompt is
at most once in a chunk, in the stdin channel or, as a reply, on stdout, and
its stage is that of the place; chunks hold prompts of their own connection;
the id of every prompt in flight is in `open_turns`, unless another's reply with
the same id has removed it (`crossed`); calls are made by working prompts.
`OpenTurnIsLive` needs none of this: a step adds an entry only with its prompt
and takes a prompt out of flight only with its entry (`KeepingStep`), except for
the reply that is an error.

*Lanes.* A frame is named by its session and its number. The lane of a session
holds the last frames it has sent, without a gap (`LaneIsTail`), so what has left
a lane is known by its number; it was given to a client or dropped, and one
client only (`LeftOnce`, `GivenOnce`, over what a forwarder has in its batch and
what its client has received); drops tear. `Section` says that a drain is a
critical section: no tear falls into one. Order and unbrokenness then follow
step by step, and so does the refinement: a push is an append or a cut, a visit
takes the front, everything else is a stutter. That a reply joins its session's
lane needs the registration of its prompt (`Registered`): an open prompt that has
not crossed is alone under its id, and the entry of the id names its session. A
prompt that is opened beside another of its id makes both crossed and keeps this
for all others; a reply that removes the entry removes it for no other. `FairShare`
needs an invariant of
the lap: what each session has in the batch, by whether its turn in the lap has
been or is still to come.

*Worker.* The stream between worker and claude is known from where the worker
stands: one turn is on its way, of which claude has written `w` pieces and the
worker read `r` (`At`), or nothing is (`Quiet`). The turn is the one being read,
or the one whose result is owed. Four pieces a turn make it a finite case split.

*Tags.* `TaggedUnlessOverlapped` follows an attach on its way: asked, given the
path, connected, in the listener's backlog, in the relay's channel, its
candidate, its lease. `Bound` says that a handler is on that way to an agent,
`Places` that its connection is in one place, `Questions` that the question in a
channel is the one that the handler which holds the pool's lock waits for, of the
two a list has too, so that it is put to an agent that stays in the pool; from
that follows `PathOfPooled`. Unless two were
bound at once (`overlapped`), the intended holder is the one that is (`Tags`).

*Files.* Both file modules say who may write or remove what: unless two processes
raced, at most one is alive between its look at the socket and its end (`Alone`),
and it owns what it has made from the step that makes it to the step that removes
it (`Owner`). In SessionFiles what the worker is about to write names its own
daemon; in PoolFiles a task that spawns or kills has an id for itself, minted
before and in nobody's pool (`OwnIds`), handlers work only once the control socket
is bound (`InPhase`), and a state file that is out of date has a task that
is still to write it (`Tells`).

*Facade.* `TimersMatchTurns` is close to inductive: opening, cancelling and
closing a turn change both sides alike, given that turns have different sessions
and that the timers that have aged are armed (`aged \subseteq timers`, in `TypeOK`).
`OwnTurn` needs that a prompt which was sent and is not answered has its turn
(`Open`). `AllowMeansAsked` is of a step: where the client decides, timeout,
teardown and policy only deny, and the host's callback decides only a request that
was put to it, which is so only where there is one (`HostAsked`).

*Host.* `TypedOnce` needs that the 250 ms timer is armed only before the key is
typed, that both come after `confirmed` is set, and that a host without an embedder
does not outlive `onExit` (`Confirmation`).

### What is only model-checked

All liveness: `AttachAnswered`, `ParkedStealGetsLease`, `RegisteredPromptArrives`,
`EligibleLaneDrains`, `EveryRequestAnswered`, `TeardownEnds`, `SignalEndsDaemon`,
`StartUpServes`, `EveryoneAnswered`, `LinesArrive`, `TurnsAnswered`,
`PeersAnswered`, and of `ConfirmedOnce` that the picker is confirmed at all. They
rest on fairness, and on which actions are enabled, which the prover does not
treat. The three runs that find a violation
are TLC's as well.

## 5. What is not modelled

- The bytes: JSON, and the text of a line, appear as what the relay or the bus
  learns of it. `inspect` and `split_frames` are in the models as the kinds of
  frames and the frames one read completes. `transports.mjs` decodes each read
  by itself, so a character cut by a read is spoilt; the models cut lines but no
  characters. What claude writes to the v1 daemon is taken for UTF-8: a line that
  is not would end a turn with an error that is no timeout (`daemon.rs:373-377`)
  and leave the rest of the turn on the stream.
- An agent that gives its own requests the ids of its client's prompts: the lane
  of such a reply is found through `open_turns` first (`relay.rs:544-551`).
- What an `events` stream carries, telemetry samples other than what was dropped,
  logging.
- Starting processes, detaching, exec and environment (`recipe.rs`, `main.rs`,
  parts of `daemon.rs` and `control.rs`): tables and I/O. `up --detach` takes any
  socket that answers for its daemon's, also that of another.
- `control.rs` and the message types of `protocol.rs`: one request and its
  answer, printed. They keep no state; the orchestrators of ControlPlane are
  their callers.
- `initialize`, `session/new` and the stubs of the facade, which answer from
  constants; which session a permission request names when several turns are
  open (`acp-facade.mjs:112`); the HTTP surface of `cli.mjs`.
- Two writers inside one temporary file (`<name>.tmp`) and a pid that is used
  again.
- `scripts/`, the mocks and the tests.

## 6. The plan

Done, in this order: RelayLease and its first proofs, ForwardQueues with
SessionLanes, TurnWorker, ChannelsFacade, ControlPlane, PoolFiles; the ids of
prompts in RelayLease, the routing of replies in ForwardQueues, SessionFiles,
ChannelHost, and the events verb of ControlPlane; then the proofs of all eight
components.

What is left to prove are the safe cores of liveness properties, as far as a step
or an invariant shows them:

1. RelayLease: a registered prompt whose reader is not done is in its chunk, or
   further on (for `RegisteredPromptArrives`); a steal that waits has a candidate
   and a deadline that is still to come or to be looked at (for `AttachAnswered`).
2. TurnWorker: a request that waits has its job in the queue or with the worker
   (for `EveryRequestAnswered`).
3. ControlPlane: the relay a handler waits for has its question (for
   `PeersAnswered`); this is half of `Questions` already.
4. ChannelsFacade: every open turn has a timer (a part of `TimersMatchTurns`), and
   every unanswered request its decision to come (for `EveryoneAnswered`).

Liveness itself stays with TLC. What is left to model: ControlPlane with two
relays, for the detach that ends at its first success; the framing as operators
over bounded byte strings.

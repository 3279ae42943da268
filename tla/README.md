# Choros in TLA+

Choros is a desktop application in which coding agents and shells work on git
workspaces. This directory models the parts of it where processes, sockets,
databases and callbacks meet: the pty-daemon that keeps shells alive, its upgrade
and its supervision, the way of a shell's output to the panes that show it, the
transport of a chat transcript, the way of a prompt from the composer to the
agent, and the automations that run agents unattended: their schedule and their
executions. TLC checks small instances of every module; TLAPS proves most of the
invariants for all values of the constants.

    tlc -workers 2 -config PtyDaemon.cfg PtyDaemon
    tlc -workers 2 -config PromptDelivery.cfg MCPromptDelivery
    tlapm DaemonHandoffProofs.tla

`PROJECT.json` lists the components, the runs with their properties, the source
lines of every definition, one mutant per property, the hazards, the findings
and the theorems.

## 1. The system

Five kinds of process (`ARCHITECTURE.md`):

| Process | Keeps | Talks to |
|---|---|---|
| Electron main | windows, profiles, the spawn of host-service | renderer (IPC) |
| renderer | panes, the outbox and the transcript snapshot of each chat pane | host-service (HTTP, WebSocket) |
| host-service | host.db, chat.db, terminals, live chat sessions, the supervisor | renderer, pty-daemon (unix socket), agents (stdio) |
| pty-daemon | shells, replay buffers, subscriptions | host-service; a successor (IPC and inherited fds) |
| agent CLIs | threads and turns | host-service, hooks to the notifications server |

### Components

State, operations, what is hard, and what makes it correct. The components that
no module models yet are at the end; `PROJECT.json` gives their sources.

**pty-daemon server** (`packages/pty-daemon/src/{server,handlers,session-store}`).
*State:* a map of session ids to PTYs, per session a replay buffer, per
connection subscriptions, held pauses and the outbound buffer of its socket.
*Operations:* hello, open, close, subscribe (with or without replay),
unsubscribe, PTY output and exit, drain and disconnect. *Hard:* one slow client
must not exhaust memory or freeze a shell for the others; session ids are
recycled while callbacks of the former PTY are still to come. *Correct:* a
served shell is reachable by its id; replay and live output join without gap or
repetition; a shell is paused exactly while somebody needs it, and not for ever.

**pty-daemon handoff** (`server.ts`, `main.ts`, `snapshot.ts`). *State:* which
process holds which master fd, who listens on the path, the pending ack.
*Operations:* snapshot and spawn, adopt, ack or nak, give up, finalize, bind;
sessions open and close meanwhile. *Hard:* two processes with a pipe, a timer, a
shared path and shared file descriptors; either may die. *Correct:* no shell of
the snapshot is hung up, clients reach the daemon that serves, nobody waits for
ever.

**Daemon supervisor** (`packages/host-service/src/daemon`). *State:* the
registered instance, its child handle and polls, pending start and update, the
crash window and the circuit breaker, the manifest file. *Operations:* ensure,
adopt, spawn, exit event, liveness poll, restart, update, host restart. *Hard:*
async methods that overlap, exit events that arrive late, a file and a socket
path that outlive the process. *Correct:* one daemon, and the path leads to it;
the manifest names it; crashes are answered and restarts recover.

**Chat journal, replay, stream hub** (`packages/chat-runtime/src/{journal,replay,
stream,router}`). *State:* an epoch and rows per session, subscribers, deltas
held for 33 ms. *Operations:* append, publish, subscribe at a cursor, page.
*Hard:* cursors of an older epoch, lost or unreadable rows, two sockets of one
pane. *Correct:* a cursor is answered by exactly what follows it.

**Chat client** (`packages/chat/src`). *State:* cursor, socket, frame batch,
snapshot, pending reset. *Operations:* seed, receive, commit per frame,
reconnect, resync, load older. *Hard:* requests and the stream observe different
moments of the journal. *Correct:* the screen is the effect of one window of it.

**Live session, codex adapter, prompt delivery** (`chat-runtime/src/{sessions,
harness,commands}`, `chat/src/core/outbox`). *State:* outbox entries, receipts,
the prompt queue, the prompt that awaits a turn, three notions of the current
turn (pane, session, adapter). *Operations:* send, retry, discard, flush, prompt,
cancel, adapter events, bootstrap, exit. *Hard:* lost answers and repeated
commands, concurrent flushes, turn events that overtake a promise, failure of
each party. *Correct:* a prompt is given once, in order, under its own turn, and
answered; a cancel hits the turn it is meant for.

**Host terminals** (`packages/host-service/src/terminal`, and the renderer's
`lib/terminal`). *State:* session objects, each with an epoch, a ring of retained
output and the position it counts to; one subscription at the daemon; sockets;
per pane a screen, the anchor of what it shows, and a snapshot that outlives the
window. *Operations:* attach with an exact replay, the tail or a re-anchor, adopt
a shell the daemon still has, respawn, hide, release, reload. *Hard:* adoption
and the wait for the daemon's replay are awaits in which the session in the map
changes; a position may be older than the object it is given to; output that was
counted can still be lost on its way into xterm. *Correct:*
nothing is painted twice or out of order, an anchor describes its buffer but for
that, and a pane catches up.

**Automations and executions** (`packages/host-service/src/runtime/{automations,
executions}`, `packages/chat-runtime/src/managed-operations`). *State:* the
automation's row with its cursor and next occurrence, the history of its runs;
per run a row, a journal of the execution, an operation in a second database,
and what the provider is doing in the workspace. *Operations:* the tick, every
command of the user, acceptance, preparation by scripts, dispatch, questions of
the agent, reports, cancel, finish, reconciliation after a restart. *Hard:* two
databases and an agent that no transaction spans, a crash between any two of
them, a pump of awaits that a cancel overtakes, a wall clock that moves back.
*Correct:* scripts and agent start once per run and never for two runs at a time,
a run succeeds only on evidence, a cancel decides, what is due is decided, and
what is enabled has something to wait for.

**Not modelled.** The claude and fake adapters, terminal agents, workspace
cleanup and creation, the worker pool, event bus and git watcher, pull requests,
project and git runtime, setup scripts, port forwarding, process tree and framing
of the daemon, the desktop main process, the pane layout store, the workspace
file system, SDK and CLI, agent setup and authentication, databases and user
interface. Most of these are I/O, rendering or wrappers, where a model would
restate calls of git, of the file system or of a remote service. The
coordinator of the desktop's main process (spawn, adoption and lock of
host-service), the Claude adapter and the operators of the pane layout hold
logic of their own and stay in the plan.

### How the components interact

The renderer's pane reaches the host by HTTP calls and one WebSocket per chat
session or terminal. The host reaches shells only through the daemon; the
supervisor decides which daemon that is, and a daemon decides with its successor
when to be replaced. A prompt takes the HTTP path in and comes back over the
journal and the stream; so the outbox learns from the stream what became of the
call. `CodexSession` and `PromptDelivery` compose these: the former is the host's
side, the latter EXTENDS it with the pane. `PromptDelivery` takes the stream as
what `ChatStream` shows it to be, the journal in order and without holes.
`DaemonSupervisor` takes a handoff as what `DaemonHandoff` shows it to be, and
`TerminalStream` a daemon as what `PtyDaemon` shows it to be: a replay, then live
output, then the exit. `AutomationSchedule` and `ManagedExecution` meet at the
end of a run: the former takes the end as an event of any outcome, which the
latter's `Settles` brings about.

## 2. The modules

Each action is one handler, or one stretch of an async function between two
awaits: JavaScript runs such a stretch without interruption. Counters are
bounded by constants named `Max...`; a bound is a guard of the action it stops.

### PtyDaemon, PtyDaemonProofs

`store` is `SessionStore.sessions`, `phase` the `exited` flag of a row together
with the life of the PTY, `evicted`/`made` the ends of the replay buffer, `subs`
and `held` are `subscriptions` and `pausedSessions` of a connection, `out` the
buffer of its socket. `Output` is the whole `onData` callback: append, evict,
send to the subscribers, destroy the sockets beyond the cap, pause. `Exit`
includes the identity check that recycled ids need. `Flush` is the kernel taking
a unit and the `drain` event after the last. Output is counted in chunks, each
of weight one; replies weigh nothing. `seen` and `whole` are history.

### DaemonHandoff, DaemonHandoffProofs

`st` is the phase of each process, `fds` the master fds it holds, `rows` the
sessions it serves, `ipc` the message its predecessor has not read, `verdict`
how the predecessor settled, `path` whose listener a connect reaches. The
kernel's part is `CloseFds`: the last close hangs the shell up. `Prepare` is
`prepareUpgrade` up to its await, `GiveUp`/`Accept` its two ends, `Close`/`Leave`
are `finalizeHandoff`, `Adopt`/`AdoptFails` and `Bind` the receiver.
`Stall` says whether the second of the receiver's fallback may pass before the
predecessor has exited. It is FALSE in the run; with TRUE, `ServingReachable`
fails: the fallback binds, the predecessor's `close()` unlinks the new socket,
and the retry the comment at `main.ts:192` counts on never happens, for
`listen()` unlinks before it binds and meets no EADDRINUSE.

### DaemonSupervisor, DaemonSupervisorProofs

Every async method has a small record (`start`, `upd`, `restart`) for the await
it is at; `instance`, `poll`, `wired`, `stopping`, `circuitOpen` and `crashTimes`
are the fields of the class; `proc` and `path` are the machine. A start remembers
in `start.pid` what the manifest listed. A daemon that accepts connections and is
too slow to answer, or does not say who it is, is adopted if the manifest lists it
(`AdoptListed`) and may be given up if not (`Concede`); `spawn()` goes on over a
socket that still accepts. `met` is history: which circumstances have arisen in
which the code may not keep what it promises otherwise:

* `update_own`: the update of a daemon this host-service spawned. Its exit event
  arrives while the update awaits the successor, nulls the instance, and a
  request spawns a second daemon over the successor (`daemon-supervisor.ts:1229`).
* `restart_during_update`: `restart()` does not wait for the update, whose end
  registers a daemon the restart has stopped.
* `slow_bind`: the successor binds after the probe of the update gave up, so the
  update registers a daemon that is not at the path yet; with two restarts of
  host-service after it, a second daemon takes the path.
* `host_crash_midway`: host-service dies in the middle of a start, restart or
  update, and the next one finds neither manifest nor listener.
* `unlisted`: a live daemon that no manifest lists stays silent through the
  escalated probe (`:1020`) or reports no pid (`:1045`), and a second one is
  spawned over its socket.
* `connect_timeout`: a live listener, listed or not, takes longer than the second
  `isSocketConnectable` waits (`:919`, `:984`), with the same end.

With each of them TLC finds `NoOrphan` violated. No document claims otherwise (the
comment at `:1094` concedes the last two), so no run does. They are steps of the model and
occur in the run; each property says which of them it survives, and the hazards
list them. `OneKnownDaemon` survives `unlisted` as long as no restart has been
asked for: until then the manifest always lists the daemon, which is what its
unconditional write after an update is for (`:421`).

### ChatLog, ChatStream, MCChatStream, ChatStreamProofs

`ChatLog` is the abstract specification: a log, and a reader that shows the
effect of one contiguous window of it, whose far end only advances and whose near
end only moves back. `ChatStream` is the machinery, and `ShowsOneWindow` states
that it implements `ChatLog`: `log` is the rows, `from`/`to` are the first row
the pane has taken in and the row its cursor is at, `shown` its items. `calm`
is history: the pane has not been told to start over. After a reset nothing is
promised until the pane is mounted again: an event that arrives while the page of
a resync is on its way is neither in the page nor applied (`chat-reducer`), and
the cursor moves back over rows that were read.

An item event is one that gives an item its next version; turn events behave
like it, session events set `session` (`State`) and are not merged from older
pages. `Courses` are the sequences of what may go wrong: a session opened without events
(`void`), a host crash, a dropped socket, an unmounted pane, a lost request for
the page of a resync; `Restarts` what may be wrong with chat.db after a crash,
the events lost or a row that no longer parses. Re-opening an existing session is offered by
`ChatJournal.open` and `ManagedOperationStart.sessionId` and is exercised by
`replay.test.ts` and `commands-recovery.test.ts`; no caller in the application
does it yet. Left out: the discard after a failed createSession, the hub's catch
around `send` (the WebSocket sinks do not throw), merging of deltas into one,
the map of turns, and a WAL that loses its tail, without which the reset reason
`invalid_cursor` does not arise.

### CodexSession, PromptDelivery, MCPromptDelivery, PromptDeliveryProofs

`session`, `adapter` and `agent` are the three parties: `LiveSession`
(`queue`, `awaiting` = `awaitingTurn`, `turn` = `currentTurn`), `CodexAdapter`
(`boot`, `inputs` = `queuedInput`, `starting` = `pendingTurnStart`, `cancel` =
`cancelRequested`, `settled`, and its `EventQueue`) and the app-server with its
pipe. A response settles a promise: `resolved` holds the turns whose `startTurn`
has its answer and has not gone on, which may be after later notifications.
`given` is history, the prompts passed to `adapter.prompt`. `Prompt` and the
`Handle...` actions are the methods of the session; `EmitTurnState` is shared by
every path on which the adapter learns of a turn.

`PromptDelivery` adds the pane: `flush[f]` is one call of `Outbox.flush`, which
iterates a copy of the entries across its awaits, so `todo` holds the stale
entries and attempts are counted from them. `HandlePrompt` is `commands.prompt`
with its receipt; `ReceiptFails` and `Crash` are the points between the effect
and the receipt. `Commit` takes a row of the journal, confirms its echo and
updates what the pane shows as running.

A *plan* bounds a behaviour: how many prompts and concurrent flushes, and which
circumstances it may meet, each once; it may begin with a session that has booted
and is idle, which halves the larger instances. `MCPromptDelivery` gives the
plans. Left
out: approvals, items and deltas, `thread/status/changed`, disposal (only at
shutdown), and the notice items of failures. Neither adapter throws in
`prompt()`, so `deliver`'s catch is not reached. After a host crash no code
re-opens the session.

### TerminalStream, TerminalStreamProofs

`shell` and `wire` are the daemon's session and its one subscription, `sess` the
session objects in the order of their epochs, `current` what the map of
`terminal.ts` holds, `ws` the host's side of a pane's socket, from the dial over
adoption and the wait for the replay to `attached`, `chan` the frames on their
way, `pane` the transport, xterm and registry entry of the renderer, `stored` the
persisted snapshot. Output is counted in chunks; a screen is the sequence of the
positions that reached it and were kept, so that "twice", "out of order" and
"missing" can be said of it. The last `pend` of them still wait in the write
coalescer. The transport counts a frame into the anchor before the coalescer and
xterm have it, and neither need keep it: `Overflows` is the queue at its ceiling
of 8 MiB, which drops its oldest frames while xterm parses, `BatchLost` the batch
xterm refuses by throwing. Both take chunks off the screen (`Shed`) and note them
as lost in `join`, beside where the screen took up the stream; the anchor stays as
it is, as in the code. `Flush` hands the queue to xterm, as do the handlers that
call `flushSync` (`Taken`, `Closed`, `Detach`, `Release`). `Adopt`, `AdoptFails`
and `Respawn` are the awaits of `createTerminalSessionInternal`, whoever called
it: a pane, a headless caller, or an *orphan*, the attach of a socket that closed
meanwhile. `Attach` is `sendSeqAttach`. A session object that nobody can reach
keeps only the position it counts from. `Stranded` names the panes on an object
the map no longer holds, for which no code does anything before their socket
closes. Left out: input, resize (but for the repaint it causes), titles, the
shell-ready marker, agent hooks, several windows, and what an exception of xterm
cuts short of the handler that flushed (the bytes it was to write are lost, the
rest of it happens here).

### ManagedExecution, ManagedExecutionProofs

Per run: `run` is the row of the host's database with its journal and question,
`op` the row of the chat database, `mem` the pump, abort controller and handles
in memory, `work` what scripts and agent do in the workspace. `host` goes down by
`HostStops` (which aborts and finalises runs as cancelled), or by a crash at any
step. `count` is history: how often scripts and agent were started. `Pump` is the
body of `pumpExecution`, one action per stretch between two awaits, `Reconcile`
what the host does with a run after a restart. Runs are numbered in the order in
which they are accepted.

What a stop takes for the end matters most. `trustedTerminal`
(`managed-operations.ts:269`) is an end of the turn that the journal has: then the
operation is released as ended and quiescent *whatever `dispose` certifies*, and
both adapters certify nothing (`codex-adapter.ts:251`, `claude-adapter.ts:373`).
Without such an end they leave the run unknown and holding the automation. So in
`StopEnds` the work of a `TrustedEnd` becomes "leftover": processes the turn has
started may go on beside the next run. `BusyWhileAtWork` says what the code does
promise: scripts, an agent, a session that is idle, lost or orphaned hold the
automation, and only what such a turn has left does not. The specification asks
for more, evidence that the writing has stopped before the run lets go
(`docs/sdlc/automations/spec.md:159`, `:161`). A certificate without an end, which
the interface allows and neither adapter gives, releases with nothing left.

Two exemptions of `Settles` have names: `CancelForgotten`, a cancel committed
before the dispatch whose handling the host did not survive, and `Misled`, a run
put back to "running" by an answer given to a session that had died. Left out: the
artifacts of a run and capabilities.

### AutomationSchedule, MCAutomationSchedule, AutomationScheduleProofs

`row` is the row of `automations` with its current definition, `ledger` its
scheduled rows in `automation_runs`, `active` the execution that holds it, and
`timer` whether another tick will come. `Occurrence` and the operators before it
are `automation-schedule.ts`, `Tick` one turn of the loop for this row, and the
actions of the user are the router's commands; `Update` is any change but that of
the name, since a new prompt or target pauses the schedule as well. `Fresh` stands
for the millisecond clock, which tells a command from the occurrence before it.
The automation is the only one of its host: the rest of the loop (one row after
the other, the branch of `ProcessDue` for what is not due yet, which the query
already excludes) is left out, as are calendar schedules with daylight saving,
prechecks, an update of the name alone, retention, and the reconciliation a tick
begins with. A confirmation token is used in the step it is made in.

`Wedged` names the rows whose next occurrence is in the history already, after the
clock was set back or a pause was given an end in the past: the unique index
refuses the insert, the tick rejects, and so does every one that follows. What
follows differs. A tick of the timer sets the next timer whatever became of it.
The first tick of a host does not: `start()` awaits it *before* `scheduleTimer()`,
its rejection is only logged (`host-service/src/app.ts:239`), and `start()` would
return early if it were called again, so this host takes no further tick. That is
`TimerLost`, which lasts to the next `HostStarts`; a row that another command has
freed meanwhile, or a pause that ends meanwhile, waits that long.

## 3. The runs

| Run | Question | Bounds | States |
|---|---|---|---|
| pty_daemon | sessions, replay and flow control | 2 connections, 2 PTYs that use one id in turn, 2 chunks each, cap of one chunk for replay, pause beyond one, destroy beyond two | 498,269 |
| handoff | repeated handoffs under every failure | 3 daemons, 2 shells, one daemon killed | 34,458 |
| supervisor | starts, crashes, restarts, updates, host restarts, silent daemons | 4 processes, 2 crashes, 2 host restarts, a restart, an update, crash budget of one, up to one of the circumstances | 344,639 |
| supervisor_crash_after_restart | *violation:* the crash after a restart | 3 processes | |
| chat_stream | pane against `ChatLog` | 2 items, 2 sockets, pages of 2, 3 events, 1 delta, one mishap of any kind, and a lost request after a reset | 647,220 |
| prompt_delivery | prompts from composer to turn | 3 prompts; or 2 with 2 flushes and a loss or crash; every failure with 2 | 443,184 |
| cancel_hits_next | *violation:* a late cancel | 2 prompts | |
| terminal_stream | a pane through every loss | 1 pane, 3 chunks, ring of 2, daemon's ring of 1, 2 upsets of any kind | 384,908 |
| terminal_identity | *violation:* two adoptions at once | 2 panes, 1 chunk, 2 upsets | |
| managed_execution | runs from acceptance to their end | 2 runs, one stop or crash of the host | 530,102 |
| automation_schedule | the tick against its user | 4 definitions, 4 instants, 3 commands, one clock set back or start of the host | 444,235 |
| schedule_unconfirmed | *violation:* what is enabled was confirmed | same | |

Why the bounds are enough. *PtyDaemon:* pausing needs one connection over the
threshold, the hazards need a second one that drains, unsubscribes or dies, and a
recycled id needs two PTYs; three units overflow a socket in the middle of a
fan-out. *Handoff:* three daemons give two handoffs in a row, or a failed one and
its retry, and one shell on each side of a snapshot. *Supervisor:* four processes
cover crash, respawn, restart and update in a row; a second host restart is what
it takes to lose a daemon that was registered wrongly. With one circumstance per
behaviour, the second conjunct of `OneKnownDaemon` meets each of them.
*Chat:* three versions of two
items let an item be updated within and beyond a page and between page, replay
and live stream; two sockets let an old one linger. *Prompts:* three are needed
for a queue behind a turn and an arrival at its end, two for everything that
compares a prompt with its successor. *Terminals:* three chunks overflow the ring
of two and that of one, so each attach mode occurs with something to lose, and two
upsets give a loss during the recovery from another, a batch lost before a reload
among them; two panes of one window meet
in the violation run, and the pass run has the orphaned and the headless adoption
beside its pane. Replays are assumed to arrive within the 500 ms the attach waits
for them. *Executions:* a second run is what the first one's slot is released to,
and one crash reaches every pair of writes. *Schedules:* the horizon holds the
window, a missed occurrence, the one after it and an end; the definitions are one
of each kind, with and without rounds and ends. Each of these runs keeps `CHECK_DEADLOCK`
off where it says so, because the system may stop: the bounds are spent, or the
user does nothing more.

### What the properties say

* `LiveReachable`, `ReplayThenLive`, `ExitBeforeSuccessorOutput`: ids may be
  recycled and clients may join at any time without confusing two shells.
* `PausedHasHolder`, `OverThresholdIsPaused`, `PauseEnds`: flow control neither
  forgets a paused shell nor lets one flood a connection.
* `HandoffKeepsShells`, `ServingReachable`, `HandoffEnds`: see above; the first
  states its exception, sessions opened after the snapshot.
* `OneKnownDaemon`: a daemon that serves is the one at the path (`NoOrphan`) while
  no circumstance has been met, before the first restart not counting daemons that
  are slow to answer; and the next host-service finds it (`ManifestNamesInstance`)
  in every circumstance but `update_own`. `StaleInstanceCleared` again while none has.
* `StreamHasNoHoles` relates wire, cursor and journal; `LiveTextExtendsLatest`
  streamed text and the version it continues; `ShowsOneWindow` is refinement;
  `FollowsToTheEnd` is convergence.
* `ServedOnceInOrder` (`FirstComeFirstServed` and `AtMostOnce`),
  `AttributedToOwnTurn`, `TurnDiscipline` (one turn at a time, what is queued has
  a turn to wait for, no cancel is held over to another turn), `OutboxSettles`,
  `EveryPromptIsAnswered`. The last excludes behaviours in which agent, pump or
  host failed: nothing in the code restarts the queue then. `AtMostOnce` excludes
  the receipt that could not be written.
* `PaintedOnce`, `AnchorDescribesBuffer`, `CurrentSessionIsWired`,
  `PaneCatchesUp`: a position says what it promises through every change of the
  object it counts in. `AnchorDescribesBuffer` allows one thing to be missing
  from a buffer below its anchor, what the coalescer dropped or xterm refused
  since the pane joined, and names each such chunk; `PaneCatchesUp` says a pane
  was given the stream to its end and that nothing of it still waits, and exempts
  panes that are `Stranded`.
* `RunsOnce`, `BusyWhileAtWork`, `SuccessIsEarned`, `CancelDecides`, `Settles`:
  what holds across two databases, a crash, and an agent. A graceful stop of the
  host ends runs as cancelled, so these hold of it too.
* `RowCoherent`, `FailedBatchRests`, `DueIsDecided`: whoever comes last, the
  user, the tick or the end of a run, leaves a row that goes on. The last exempts
  the row that is `Wedged` and the host that is `TimerLost`, and holds again from
  the next start of that host.
* One `TypeOK` per module, with the caps the code enforces.

### Fairness

Weak fairness, and only on what a live process does by itself: sockets flush and
report their close, timers and polls fire, scheduled callbacks and promise
continuations run, the stream delivers, frames are committed. In `DaemonHandoff`
no step of a successor before its ack is fair, since the code must survive a
silent one. In `CodexSession` the agent ends its turns; a cancel is not assumed
to be needed. In `TerminalStream` sockets, the daemon's answers and timers make
progress, the redial loop never gives up, and the coalescer flushes in the end:
frames are drawn, or xterm reports that it has parsed the last batch. Overflows
and lost batches are upsets, and not fair. In `ManagedExecution` the pump, stops
and reconciliation of a live host come to their next await, a supervisor restarts
the host, and an agent nobody keeps waiting ends its turn. In
`AutomationSchedule` the first tick of a host is taken, the others fire as long as
there is a timer (`Tick` is disabled without one), and the clock goes on. Users,
losses, crashes and every mishap owe nothing. `PauseEnds` also assumes that clients
do not ask for replays for ever, which would refill their own buffers.

## 4. Findings

1. *supervisor_crash_after_restart.* The restart leaves `stopping` set; the next
   crash is not answered by a respawn.
2. *cancel_hits_next.* A cancel of a turn that just ended interrupts the next.
3. *terminal_identity.* A pane and a headless call that adopt the same terminal
   build a session object each, which `adoptionsInFlight` is there to prevent.
4. *schedule_unconfirmed.* A pause with an end enables an automation, when it
   ends, that nobody has confirmed since it was made or edited.

`PROJECT.json` quotes the line of the documentation or test each contradicts.

Met on the way, and kept as exceptions of the properties or as hazards:

* a session opened between snapshot and exit of the predecessor is hung up by an
  upgrade (`pty-daemon/src/server/server.ts:202`); `HandoffKeepsShells` excludes it;
* `daemon.restart` first waits for a daemon that an open circuit refuses to start
  (`trpc/router/terminal/terminal.ts:78`), so it does not get to clear the circuit;
* the six circumstances of `DaemonSupervisor` above;
* the gap of a resync (`ChatStream` above);
* an agent refused at the version gate, or lost, with a prompt pending leaves the
  session "running" and its queue waiting (`live-session.ts:226`);
* a run lets go of the automation when its turn has ended, without a word on what
  the turn has left running (`managed-operations.ts:269`; "leftover" above);
* a first tick that is refused leaves the host without a scheduler until it is
  started again (`automation-runtime.ts:2801`; `TimerLost` above);
* `Stranded`, `CancelForgotten`, `Misled` and `Wedged`, where they are defined;
* bytes the coalescer drops, or xterm throws away, stay counted in the anchor
  (`terminal-ws-transport.ts:643`, `write-coalescer.ts:94`): the pane dials with, and
  persists, a position that claims bytes its buffer lacks, so the next exact
  catch-up goes on after the gap, where the comment on the anchor has "every byte
  of `epoch` up to `seq`"; `AnchorDescribesBuffer` allows for those bytes alone;
* an update of an archived automation brings it back as paused.

## 5. The proofs

Every theorem holds for all values of the constants the named assumptions of its
module allow, which say no more than that bounds are numbers and thresholds are in
their order. One module adds a premise: `DaemonHandoffProofs` `~Stall`, without
which `ServingReachable` is false (section 2).

| Module | Theorem | States |
|---|---|---|
| `PtyDaemonProofs` | `TypeCorrect` | `[]TypeOK`, with the caps of both kinds of buffer |
| | `ServedShellsReachable` | `[]LiveReachable` |
| | `PausesHaveHolders` | `[]PausedHasHolder` |
| | `FlowControl` | `[]OverThresholdIsPaused` |
| | `NoGapAfterReplay` | `[]ReplayThenLive` |
| | `ExitOrder` | `[]ExitBeforeSuccessorOutput` |
| `DaemonHandoffProofs` | `TypesHold` | `[]TypeOK` |
| | `HandoffsKeepShells` | `[]HandoffKeepsShells` |
| | `PathLeadsToServer` | `[]ServingReachable` |
| `DaemonSupervisorProofs` | `TypesHold` | `[]TypeOK` |
| | `DaemonStaysKnown` | `[]OneKnownDaemon` |
| `ChatStreamProofs` | `TypesHold` | `[]TypeOK` |
| | `NoHoleInStream` | `[]StreamHasNoHoles` |
| | `TextContinues` | `[]LiveTextExtendsLatest` |
| | `ImplementsChatLog` | `ShowsOneWindow`, that is `Log!Spec` |
| `PromptDeliveryProofs` | `TypesHold` | `[]TypeOK`, with the cap on attempts |
| | `GivenOnce` | `[]AtMostOnce` |
| | `ServedInOrder` | `[]ServedOnceInOrder` |
| | `OwnTurnHolds` | `[]AttributedToOwnTurn` |
| | `TurnsAreDisciplined` | `[]TurnDiscipline` |
| `TerminalStreamProofs` | `TypesHold` | `[]TypeOK` |
| | `NeverPaintedTwice` | `[]PaintedOnce` |
| | `CurrentStaysWired` | `[]CurrentSessionIsWired` |
| | `AnchorsDescribe` | `[]AnchorDescribesBuffer` |
| `ManagedExecutionProofs` | `TypesHold` | `[]TypeOK` |
| | `EveryRunRunsOnce` | `[]RunsOnce` |
| | `WorkHoldsTheAutomation` | `[]BusyWhileAtWork` |
| | `SuccessNeedsEvidence` | `[]SuccessIsEarned` |
| | `CancelsDecide` | `[]CancelDecides` |
| `AutomationScheduleProofs` | `TypesHold` | `[]TypeOK` |
| | `RowStaysCoherent` | `[]RowCoherent` |
| | `FailedBatchesRest` | `[]FailedBatchRests` |

Each module states one inductive invariant, the conjunction of named parts, shows
in one lemma per action (or per group of actions that change the same thing) that
the step keeps it, and draws the theorems from it. None of the properties is
inductive by itself; what had to be added, and why:

*PtyDaemon.* A step that removes a row must know that the row is the PTY's own:
`RowInv` says that a row belongs to the newest PTY opened under its id, whose exit
callback has not fired, `UnbornInv` that a PTY still to be spawned has left no
trace. `SocketInv`: a connection that holds pauses is open with a `drain` to come,
or destroyed with a close to come; here the order of the thresholds enters, since
a buffer beyond the pause threshold is beyond the high-water mark, so that the
write that passed it returned false. `PauseInv`: whoever is paused has a holder,
and whoever has live output beyond the threshold of a connection is paused and
held by that connection; so a resume, which checks that no other connection holds
the session, cannot let through a PTY some other connection still needs paused.
Lemmas on `SendTo` (what a broadcast appends, to whom, and when it destroys) are
shared by all of them. `Following`: a client that began with a replay has read, or
has waiting for it, consecutive chunks up to the newest one of the shell; the shell
is served or closed, the client subscribed to it as long as it is in the store, and
no exit frame waits before the exit. So an eviction between two replays, or a
broadcast that destroys another socket half way, cannot put a gap into what this
client reads.

*DaemonHandoff.* `Succession`: of two running daemons one is in office and the
other the candidate it spawned, so nobody but the one in office touches the path.
`Verdicts` and `Holdings` say what messages and file descriptors each phase goes
with. `Estate`, which a kill from outside may end: some daemon has every living
shell in its rows, the one in office or the candidate that it left behind; a
candidate that waits has the living shells of its snapshot; and one that leaves
has an heir that waits.

*DaemonSupervisor.* Three invariants side by side. `TypeOK` is inductive. `Core`
holds while the behaviour is `Ordinary`, which it then has always been. `Tasks`: `start()`
works without an instance, and an update excludes `start()` and `restart()`.
`Stages`: a process that boots, waits or leaves is the one its task names.
`Premises`: a process that has the path, or may yet bind or unlink it, is the
instance or is known to the task under way, so no two ever compete. `Listed`: the
manifest, and what a start has read in it, lead to no other process than the one
that serves, and before a restart they do lead to it; so a start that gives up has
seen nobody accept. `Kept` holds in any circumstances but `update_own` until a
restart: no task clears an instance that lives, and so nobody removes its manifest.

*ChatStream.* `Sound` follows the rows over the wire: a connection that is being
dialled, or is up and not yet read, carries the cursor the pane holds; the frames
of an open one are one run of seqs, and while the hub has a subscriber for it, the
run ends at the last row. A new epoch is given out only while there are no rows,
and is higher than that of any cursor or frame, so no cursor that survived a loss
can be taken for one of the new journal. `Reduction` says what the recursive
function in `ReduceMany` computes, by the least natural number for which it would
not (`Least`, from the library's facts on well-founded orders): a first-order
argument that takes the place of the induction the provers cannot instantiate.

What the pane shows needs `Shown`, which speaks of a pane that follows (`calm`) and
has two kinds of parts. `Showing` relates the snapshot to the rows: its items are
what the rows from `first` to its cursor say (`Newest`), and live text belongs to
the newest version there. The others are about what is still to be applied.
`Seeding`: a page that was served is a stretch of the journal, which has at most
grown since (`Longer`), and the cursor it was asked with is in it. `Settled`: the batch is
a run from the snapshot's cursor to the one the pane reconnects with (`Run`: each
next row once, text in between for the newest version before it), no resync is
under way, and an older page on its way ends where the window begins (`Paging`).
`Incoming` says of the wire that it goes on from there (`Arriving`), and `Pending`
of text the hub holds back that it is for the newest version. Each is needed: a
frame that arrives moves from `Arriving` into `Run`, a commit turns `Run` into
`Showing`, an older page extends `Showing` at the near end, and an append keeps
all of them because deltas are flushed first. That the reducer takes a run into
the effect of a longer window is one more induction over the frames of a batch
(`Reduced`). The refinement then has one lemma per action or group of actions:
appends are `Write`, a seed is `Join`, a commit `Advance` or nothing, an older
page `PageBack` or nothing, a reset or a lost journal `Upset`, a resync `Drift`,
unmounting `Leave`; everything else leaves the reader of the log alone.

*PromptDelivery.* `HandedOnce`: what waits in the queue or was given on has a
receipt, and all of it is distinct; handing over and recording are one step, and a
prompt leaves the queue as it is given on. For order, turns and discipline,
`SessionInvariant` says where each prompt of `given` is: nowhere any more, with the
adapter, asked for, at work, completing or ending, and that these places follow
each other in the order of the journal. `Turnwise` ties them to the three notions
of the current turn: turn t is the t-th prompt given; what a session, adapter or
agent calls current is the newest, and every frame on its way is of a turn the
adapter has learned of (`Known`) or is about to (`Awaited`). `Records`: each event
of the journal names a prompt that was given, and its turn. A mark "queued" stands
for a prompt that is in the queue.

*ManagedExecution.* `Consistent` relates the five records of one run: the claims
are made in order and each once, where the pump stands tells which have been made,
nothing is at work for a run that never started or has ended but what an ended turn
has left, the operation in the other database belongs to a claimed dispatch and,
once over and quiet, has left no session behind. `OneHolder` relates the runs: one
at most holds the automation.

*AutomationSchedule.* `RowCoherent` with types and the finite history is
inductive; the lemmas about `Occurrence` say that it yields an instant or none,
whatever the definition.

*TerminalStream.* `PaintedOnce` speaks of a screen; what keeps it is about the
frames still under way. `Threaded`: what an attached pane has painted, followed by
the frames on their way to it, is one thread through the stream: there is a row of
positions, one between any two frames, that never falls, begins after everything
on the screen and ends where the session object of the socket stands now; and the
frames come in the order of the protocol, so that the pane knows whose positions
it counts. `Anchored`: an anchor is never behind what its screen shows.
`Bounded`: wherever somebody may join the stream at its head (the end of a
subscribed object, of the subscription, of all output), everything painted or
persisted lies before it. `Wired` and `Placed` say which objects the client calls
back, how far each has counted and on which object a socket can be in each stage.
What the coalescer drops or xterm refuses takes chunks off a screen and touches
nothing else (`Trimmed`): each part but `Queued`, that no more waits in the
coalescer than the screen has, holds of whatever a screen keeps. `Queued` is proved
beside the others, since it is what makes the part taken off a part of the screen.
`AnchorsDescribe` needs two more parts, proved on top of the others.
`Complete`: between the join of a buffer and its anchor each position is in the
buffer or among those lost, and an anchor of an object that is still in use counts
no further than the object has; so when the beginning of an object moves
(`Settle`), there is no anchor to lose its meaning. `Matching`: an exact `synced`
on its way names the anchor the pane holds. Of the constants both assume bounds
that are numbers, that a pane that can be hidden is a pane, and that the names of
the callers without a pane (`"orphan"`, `"headless"`) are no panes.

Of the sockets `ChatStreamProofs` assumes that they are positive numbers: 0 is the
model's null.

Only model-checked: liveness, since fairness is outside what the prover handles.

## 6. Plan

Done: all modules above, in the order of section 2. Left, in this order:

1. `HostCoordinator`: spawn, adoption and lock of host-service in Electron main,
   in the manner of `DaemonSupervisor`, and composed with it.
2. The Claude adapter behind `LiveSession`, as a second agent beside the codex
   adapter: its turns end with results, not with notifications.
3. The output of a shell across a handoff (predecessor and successor read the same
   master fd between adoption and exit), composing `PtyDaemon` and
   `DaemonHandoff`.
4. Operators with reference definitions: `readPage`, pane layout, coalescing of
   watch events, calendar schedules.

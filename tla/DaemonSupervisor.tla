--------------------------- MODULE DaemonSupervisor ---------------------------
(***************************************************************************)
(* host-service's supervision of the one pty-daemon: start by adoption or  *)
(* spawn, crash-respawn with a circuit breaker, user restart, update by    *)
(* handoff, and the socket path and manifest that outlive host-service.    *)
(* (packages/host-service/src/daemon/daemon-supervisor.ts, manifest.ts,    *)
(* singleton.ts, trpc/router/terminal/terminal.ts.)                        *)
(*                                                                         *)
(* Each async method is cut at its awaits.  Pids are numbered in the order *)
(* processes are spawned.  What the daemons do by themselves follows       *)
(* DaemonHandoff; sessions are left out, and so is the healing of daemons  *)
(* without access to macOS trustd: every probe reports it reachable.       *)
(***************************************************************************)
EXTENDS Naturals, FiniteSets

CONSTANTS
    MaxPid,       \* bound: daemon processes ever spawned
    MaxCrash,     \* bound: daemons that die unasked
    MaxRestart,   \* bound: restarts the user asks for
    MaxUpdate,    \* bound: updates
    MaxHostCrash, \* bound: restarts of host-service
    CrashBudget,  \* CRASH_BUDGET
    MaxMet        \* bound: how many of Circumstances one behaviour meets

\* Situations in which the code may not keep what it promises otherwise.
Circumstances ==
    { "update_own",            \* update of a daemon this host-service spawned
      "restart_during_update",
      "slow_bind",             \* a successor binds after the update's probe gave up
      "host_crash_midway",     \* host-service dies with a start, restart or update under way
      "unlisted",              \* a daemon no manifest lists answers too late, or without its pid
      "connect_timeout" }      \* a live listener takes more than a second to accept

ASSUME SupervisorAssumption ==
    /\ MaxPid \in Nat /\ MaxCrash \in Nat /\ MaxRestart \in Nat
    /\ MaxUpdate \in Nat /\ MaxHostCrash \in Nat /\ CrashBudget \in Nat
    /\ MaxMet \in Nat

Pids == 1 .. MaxPid
None == 0

VARIABLES
    \* The machine.
    proc,       \* "unborn", "booting", "waiting" (a successor), "up", "leaving", "draining", "dead"
    pred,       \* the predecessor of a successor
    path,       \* the process whose listener the socket path leads to
    manifest,   \* the pid in the manifest file
    \* DaemonSupervisor.
    instance,   \* this.instance, by its pid
    poll,       \* the health poll: its pid and whether onDeath clears the instance
    wired,      \* children whose 'exit' will still be handled
    stopping,
    circuitOpen,
    crashTimes, \* crashes within the window
    start,      \* start(): "idle", "probing" and the pid the manifest lists, "conceded",
                \* "spawning" and its child
    upd,        \* runUpdate(): "idle", "asked", "exiting", "probing"; target, successor, saved manifest
    restart,    \* forceRestart(): "idle", "waiting", "stopping", and the pid being stopped
    \* Bounds and history.
    met,        \* the Circumstances met so far
    used        \* crashes, restarts, updates and host crashes so far

machine    == <<proc, pred, path>>
supervisor == <<instance, poll, wired, stopping, circuitOpen, crashTimes>>
tasks      == <<start, upd, restart>>
vars       == <<machine, manifest, supervisor, tasks, met, used>>

NoPoll    == [pid |-> None, clears |-> FALSE]
NoStart   == [pc |-> "idle", pid |-> None]
NoUpdate  == [pc |-> "idle", pid |-> None, succ |-> None, saved |-> None]
NoRestart == [pc |-> "idle", pid |-> None]

Running(p)  == p # None /\ proc[p] \notin {"unborn", "dead"}
Answers     == path # None /\ proc[path] = "up"
Quiet       == start.pc = "idle" /\ upd.pc = "idle" /\ restart.pc = "idle"
Uses(what)  == used' = [used EXCEPT ![what] = @ + 1]
Meets(what) == met' = met \cup what /\ Cardinality(met') <= MaxMet
Fresh(p)    == proc[p] = "unborn" /\ \A q \in Pids : q < p => proc[q] # "unborn"

Init ==
    /\ proc = [p \in Pids |-> "unborn"]
    /\ pred = [p \in Pids |-> None]
    /\ path = None
    /\ manifest = None
    /\ instance = None
    /\ poll = NoPoll
    /\ wired = {}
    /\ stopping = FALSE
    /\ circuitOpen = FALSE
    /\ crashTimes = 0
    /\ start = NoStart /\ upd = NoUpdate /\ restart = NoRestart
    /\ met = {}
    /\ used = [crash |-> 0, restart |-> 0, update |-> 0, host |-> 0]

-----------------------------------------------------------------------------
(* ensure() and start(). *)

\* start() up to its first await, with `file` in the manifest: a manifest whose
\* pid is dead is removed.
BeginStart(file) ==
    LET listed == IF Running(file) THEN file ELSE None
    IN  /\ manifest' = listed
        /\ start' = [pc |-> "probing", pid |-> listed]

\* ensure() with no instance and the circuit closed: join a pending start or begin one.
EnsureFrom(file) ==
    IF start.pc = "idle" THEN BeginStart(file)
    ELSE manifest' = file /\ UNCHANGED start

\* A terminal request or the bootstrap calls ensure().
Ensure ==
    /\ ~circuitOpen
    /\ instance = None
    /\ start.pc = "idle"
    /\ BeginStart(manifest)
    /\ UNCHANGED <<machine, supervisor, upd, restart, met, used>>

\* runUpdate() up to its first await.
BeginUpdate(p, file) ==
    /\ upd' = [pc |-> "asked", pid |-> p, succ |-> None, saved |-> file]
    /\ stopping' = TRUE
    /\ poll' = NoPoll
    /\ Uses("update")

MayUpdate ==
    /\ upd.pc = "idle"
    /\ used.update < MaxUpdate

Overlaps == IF restart.pc # "idle" THEN {"restart_during_update"} ELSE {}

\* start() registers daemon p with the liveness check, and starts an update by
\* itself when p runs an older version.  The manifest is written if it listed
\* another.
Adopt(p) ==
    LET file == IF start.pid = p THEN manifest ELSE p
    IN  /\ start' = NoStart
        /\ manifest' = file
        /\ instance' = p
        /\ \/ /\ poll' = [pid |-> p, clears |-> TRUE]
              /\ UNCHANGED <<upd, stopping, met, used>>
           \/ /\ MayUpdate
              /\ Meets(Overlaps)
              /\ BeginUpdate(p, file)

\* tryAdopt: whoever answers with its pid at the socket is the daemon.
AdoptAnswering ==
    /\ start.pc = "probing"
    /\ Answers
    /\ Adopt(path)
    /\ UNCHANGED <<machine, wired, circuitOpen, crashTimes, restart>>

\* Mutant: only an answer identifies a daemon.
TrustsNobody == FALSE

\* A listed pid that lives is taken for the daemon while something accepts at
\* the socket.
TrustsListed == start.pid # None

\* tryAdopt: the socket accepts, and the daemon is too slow to answer or does
\* not say who it is.
AdoptListed ==
    /\ start.pc = "probing"
    /\ Answers
    /\ TrustsListed
    /\ Adopt(start.pid)
    /\ UNCHANGED <<machine, wired, circuitOpen, crashTimes, restart>>

\* What start() may be mistaken about when it gives up adopting.  A listed
\* daemon that accepts is adopted whatever it answers; one that is not listed
\* must answer within the escalated probe, with its pid.
Mistakes ==
    IF Answers
    THEN {{"connect_timeout"}} \cup (IF TrustsListed THEN {} ELSE {{"unlisted"}})
    ELSE {{}}

\* tryAdopt returns null.  A listed pid at whose socket nobody accepts is taken
\* off the list, never signalled.
Concede ==
    /\ start.pc = "probing"
    /\ \E what \in Mistakes : Meets(what)
    /\ start' = [pc |-> "conceded", pid |-> None]
    /\ manifest' = IF start.pid # None THEN None ELSE manifest
    /\ UNCHANGED <<machine, supervisor, upd, restart, used>>

\* spawn() up to waitForSocket; that the socket may accept all the same is only
\* logged, and the child will take the path from whoever has it.
SpawnChild(p) ==
    /\ start.pc = "conceded"
    /\ Fresh(p)
    /\ proc' = [proc EXCEPT ![p] = "booting"]
    /\ start' = [pc |-> "spawning", pid |-> p]
    /\ UNCHANGED <<pred, path, manifest, supervisor, upd, restart, met, used>>

\* The socket accepts: the exit handler is attached (too late for a child that
\* has already gone), the manifest written, the instance registered.
SpawnReady ==
    LET p == start.pid
    IN  /\ start.pc = "spawning"
        /\ Answers
        /\ wired' = IF Running(p) THEN wired \cup {p} ELSE wired
        /\ manifest' = p
        /\ instance' = p
        /\ poll' = [pid |-> p, clears |-> FALSE]
        /\ start' = NoStart
        /\ UNCHANGED <<machine, stopping, circuitOpen, crashTimes, upd, restart, met, used>>

\* SOCKET_READY_TIMEOUT_MS: the child is terminated and start() throws.
SpawnTimeout ==
    /\ start.pc = "spawning"
    /\ ~Answers \/ (path # start.pid /\ "connect_timeout" \in met)
    /\ proc' = [proc EXCEPT ![start.pid] = "dead"]
    /\ start' = NoStart
    /\ UNCHANGED <<pred, path, manifest, supervisor, upd, restart, met, used>>

-----------------------------------------------------------------------------
(* Deaths. *)

\* Mutant: the crash is counted and nothing else.
NeverTrips(n) == FALSE

Trips(n) == n > CrashBudget

\* child.on("exit").
ExitEvent(p) ==
    /\ p \in wired /\ proc[p] = "dead"
    /\ wired' = wired \ {p}
    /\ IF instance # p
       THEN UNCHANGED <<manifest, instance, stopping, circuitOpen, crashTimes, start>>
       ELSE /\ instance' = None
            /\ stopping' = FALSE
            /\ IF stopping
               THEN manifest' = None /\ UNCHANGED <<circuitOpen, crashTimes, start>>
               ELSE /\ crashTimes' = crashTimes + 1
                    /\ IF Trips(crashTimes')
                       THEN circuitOpen' = TRUE /\ manifest' = None /\ UNCHANGED start
                       ELSE /\ UNCHANGED circuitOpen
                            /\ IF circuitOpen THEN manifest' = None /\ UNCHANGED start
                                              ELSE EnsureFrom(None)
    /\ UNCHANGED <<machine, poll, upd, restart, met, used>>

\* CRASH_WINDOW_MS passes.
WindowPasses ==
    /\ crashTimes > 0
    /\ crashTimes' = 0
    /\ UNCHANGED <<machine, manifest, instance, poll, wired, stopping, circuitOpen, tasks, met, used>>

\* startAdoptedLivenessCheck's onDeath finds the instance it was started for.
DeathClears == poll.clears /\ instance = poll.pid

\* The liveness poll finds its pid dead.
PollDeath ==
    /\ poll.pid # None /\ proc[poll.pid] = "dead"
    /\ poll' = NoPoll
    /\ IF DeathClears THEN instance' = None /\ manifest' = None
                      ELSE UNCHANGED <<instance, manifest>>
    /\ UNCHANGED <<machine, wired, stopping, circuitOpen, crashTimes, tasks, met, used>>

-----------------------------------------------------------------------------
(* update(). *)

\* The user asks for an update ("Update daemon" is offered for any daemon), or
\* the version of an adopted daemon is read late.
Update ==
    /\ MayUpdate
    /\ instance # None
    /\ Meets(Overlaps \cup IF instance \in wired THEN {"update_own"} ELSE {})
    /\ BeginUpdate(instance, manifest)
    /\ UNCHANGED <<machine, manifest, instance, wired, circuitOpen, crashTimes, start, restart>>

\* Mutant: a failed update forgets to re-arm the liveness check.
RearmsNothing(p) == NoPoll

Rearmed(p) == [pid |-> p, clears |-> TRUE]

\* The daemon reports a failed handoff or cannot be reached: restoreOnFailure.
UpdateFails ==
    /\ upd.pc = "asked"
    /\ stopping' = FALSE
    /\ manifest' = IF upd.saved # None THEN upd.saved ELSE manifest
    /\ poll' = Rearmed(upd.pid)
    /\ upd' = NoUpdate
    /\ UNCHANGED <<machine, instance, wired, circuitOpen, crashTimes, start, restart, met, used>>

\* The daemon at the socket hands over to successor s and its reply arrives.
HandsOver(s) ==
    /\ upd.pc = "asked"
    /\ Answers
    /\ Fresh(s)
    /\ proc' = [proc EXCEPT ![s] = "waiting", ![path] = "leaving"]
    /\ pred' = [pred EXCEPT ![s] = path]
    /\ upd' = [upd EXCEPT !.pc = "exiting", !.succ = s]
    /\ UNCHANGED <<path, manifest, supervisor, start, restart, met, used>>

\* HANDOFF_PREDECESSOR_EXIT_TIMEOUT_MS: a predecessor that does not leave is
\* killed, and leaves its path behind.
KillPredecessor ==
    /\ upd.pc = "exiting"
    /\ Running(upd.pid)
    /\ proc' = [proc EXCEPT ![upd.pid] = "dead"]
    /\ UNCHANGED <<pred, path, manifest, supervisor, tasks, met, used>>

\* waitForPidExit.
PredecessorGone ==
    /\ upd.pc = "exiting"
    /\ proc[upd.pid] = "dead"
    /\ upd' = [upd EXCEPT !.pc = "probing"]
    /\ UNCHANGED <<machine, manifest, supervisor, start, restart, met, used>>

SuccessorManifest == upd.succ

\* The successor is registered whether the probe read its version or ran out of
\* time.  Left with a dead predecessor it binds at once, well within the probe.
UpdateDone ==
    /\ upd.pc = "probing"
    /\ Meets(IF proc[upd.succ] = "waiting" THEN {"slow_bind"} ELSE {})
    /\ instance' = upd.succ
    /\ stopping' = FALSE
    /\ manifest' = SuccessorManifest
    /\ poll' = [pid |-> upd.succ, clears |-> TRUE]
    /\ upd' = NoUpdate
    /\ UNCHANGED <<machine, wired, circuitOpen, crashTimes, start, restart, used>>

-----------------------------------------------------------------------------
(* restart(). *)

\* The `restart` procedure calls waitForDaemonReady() first, whose ensure()
\* throws while the circuit is open.
RestartRequest ==
    /\ restart.pc = "idle"
    /\ used.restart < MaxRestart
    /\ Meets(IF upd.pc # "idle" THEN {"restart_during_update"} ELSE {})
    /\ Uses("restart")
    /\ IF circuitOpen
       THEN UNCHANGED <<manifest, start, restart>>
       ELSE /\ restart' = [pc |-> "waiting", pid |-> None]
            /\ IF instance = None THEN EnsureFrom(manifest) ELSE UNCHANGED <<manifest, start>>
    /\ UNCHANGED <<machine, supervisor, upd>>

\* The start it waited for failed: the procedure rejects.
RestartAborts ==
    /\ restart.pc = "waiting"
    /\ start.pc = "idle" /\ instance = None
    /\ restart' = NoRestart
    /\ UNCHANGED <<machine, manifest, supervisor, start, upd, met, used>>

\* SIGTERM reaches daemon p: it stops listening, unlinks the path, and waits for
\* the shells it kills.
Terminate(p) ==
    IF Running(p) THEN proc' = [proc EXCEPT ![p] = "draining"] /\ path' = None
                  ELSE UNCHANGED <<proc, path>>

\* stop() up to its await: the instance is dropped, and `stopping` set for an
\* exit event that will no longer find it.
Stop ==
    /\ restart.pc = "waiting"
    /\ start.pc = "idle" /\ instance # None
    /\ restart' = [pc |-> "stopping", pid |-> instance]
    /\ instance' = None
    /\ poll' = NoPoll
    /\ stopping' = TRUE
    /\ Terminate(instance)
    /\ UNCHANGED <<pred, manifest, wired, circuitOpen, crashTimes, start, upd, met, used>>

\* The process is gone: remove the manifest, clear the circuit, ensure() afresh.
\* An instance that was registered meanwhile satisfies ensure().
Stopped ==
    /\ restart.pc = "stopping"
    /\ proc[restart.pid] = "dead"
    /\ restart' = NoRestart
    /\ circuitOpen' = FALSE
    /\ crashTimes' = 0
    /\ IF instance = None THEN EnsureFrom(None) ELSE manifest' = None /\ UNCHANGED start
    /\ UNCHANGED <<machine, instance, poll, wired, stopping, upd, met, used>>

-----------------------------------------------------------------------------
(* Daemon processes, and host-service as a process. *)

\* listen(): unlink whatever is at the path and bind it.
Boot(p) ==
    /\ proc[p] = "booting"
    /\ proc' = [proc EXCEPT ![p] = "up"]
    /\ path' = p
    /\ UNCHANGED <<pred, manifest, supervisor, tasks, met, used>>

\* The predecessor unlinks the path and exits.
Leave(p) ==
    /\ proc[p] = "leaving"
    /\ proc' = [proc EXCEPT ![p] = "dead"]
    /\ path' = None
    /\ UNCHANGED <<pred, manifest, supervisor, tasks, met, used>>

Bind(s) ==
    /\ proc[s] = "waiting"
    /\ proc[pred[s]] = "dead"
    /\ proc' = [proc EXCEPT ![s] = "up"]
    /\ path' = s
    /\ UNCHANGED <<pred, manifest, supervisor, tasks, met, used>>

Drained(p) ==
    /\ proc[p] = "draining"
    /\ proc' = [proc EXCEPT ![p] = "dead"]
    /\ UNCHANGED <<pred, path, manifest, supervisor, tasks, met, used>>

Crash(p) ==
    /\ Running(p)
    /\ used.crash < MaxCrash
    /\ Uses("crash")
    /\ proc' = [proc EXCEPT ![p] = "dead"]
    /\ UNCHANGED <<pred, path, manifest, supervisor, tasks, met>>

\* host-service ends and starts again: daemons, manifest and path remain.
HostRestarts ==
    /\ used.host < MaxHostCrash
    /\ Meets(IF Quiet THEN {} ELSE {"host_crash_midway"})
    /\ Uses("host")
    /\ instance' = None /\ poll' = NoPoll /\ wired' = {}
    /\ stopping' = FALSE /\ circuitOpen' = FALSE /\ crashTimes' = 0
    /\ start' = NoStart /\ upd' = NoUpdate /\ restart' = NoRestart
    /\ UNCHANGED <<machine, manifest>>

-----------------------------------------------------------------------------
Next ==
    \/ Ensure \/ AdoptAnswering \/ AdoptListed \/ Concede \/ SpawnReady \/ SpawnTimeout
    \/ WindowPasses \/ PollDeath
    \/ Update \/ UpdateFails \/ KillPredecessor \/ PredecessorGone \/ UpdateDone
    \/ RestartRequest \/ RestartAborts \/ Stop \/ Stopped
    \/ HostRestarts
    \/ \E p \in Pids :
          SpawnChild(p) \/ ExitEvent(p) \/ HandsOver(p)
          \/ Boot(p) \/ Leave(p) \/ Bind(p) \/ Drained(p) \/ Crash(p)

\* Timers, polls and exit events arrive, and what a method awaits comes to an
\* end.  Nobody is obliged to send a request.
Fairness ==
    /\ WF_vars(PollDeath) /\ WF_vars(\E p \in Pids : ExitEvent(p))
    /\ WF_vars(AdoptAnswering \/ AdoptListed \/ Concede)
    /\ WF_vars(SpawnReady \/ SpawnTimeout)
    /\ WF_vars(UpdateFails \/ \E s \in Pids : HandsOver(s))
    /\ WF_vars(PredecessorGone) /\ WF_vars(UpdateDone)
    /\ WF_vars(Stop \/ RestartAborts) /\ WF_vars(Stopped)
    /\ \A p \in Pids : WF_vars(SpawnChild(p)) /\ WF_vars(Leave(p)) /\ WF_vars(Bind(p))
                     /\ WF_vars(Drained(p))

Spec     == Init /\ [][Next]_vars
FairSpec == Spec /\ Fairness

-----------------------------------------------------------------------------
(* Properties. *)

\* Types, and the circuit breaker: beyond its budget of crashes in one window
\* the circuit is open.
TypeOK ==
    /\ proc \in [Pids -> {"unborn", "booting", "waiting", "up", "leaving", "draining", "dead"}]
    /\ pred \in [Pids -> Pids \cup {None}]
    /\ {path, manifest, instance} \subseteq Pids \cup {None}
    /\ poll \in [pid : Pids \cup {None}, clears : BOOLEAN]
    /\ wired \subseteq Pids
    /\ {stopping, circuitOpen} \subseteq BOOLEAN
    /\ crashTimes \in Nat
    /\ start \in [pc : {"idle", "probing", "conceded", "spawning"}, pid : Pids \cup {None}]
    /\ upd \in [pc : {"idle", "asked", "exiting", "probing"}, pid : Pids \cup {None},
                succ : Pids \cup {None}, saved : Pids \cup {None}]
    /\ restart \in [pc : {"idle", "waiting", "stopping"}, pid : Pids \cup {None}]
    /\ met \subseteq Circumstances
    /\ used \in [{"crash", "restart", "update", "host"} -> Nat]
    /\ crashTimes > CrashBudget => circuitOpen

\* One daemon: a daemon that serves is the one the socket path leads to.  No
\* start takes the path from under a daemon with its shells ("the incumbent
\* stays alive, bound to an unreachable inode").
NoOrphan == \A p \in Pids : proc[p] = "up" => path = p

\* A registered daemon that has died does not stay registered: the exit event
\* or the liveness poll clears it, whichever of spawn, adoption, failed update
\* or handoff it came by ("terminal ops fail until something forces a restart"),
\* as long as none of the circumstances has been met.
StaleInstanceCleared ==
    \A p \in Pids : instance = p /\ proc[p] = "dead" ~> instance # p \/ met # {}

\* What the next host-service finds: once nothing is under way, the manifest
\* names the live registered daemon.  ("Skipping it left the successor
\* invisible to the next boot's tryAdopt.")  Restarts are excluded: stop() ends
\* by removing whatever manifest a request served meanwhile has written.
ManifestNamesInstance ==
    Quiet /\ instance # None /\ Running(instance) /\ used.restart = 0 => manifest = instance

\* None of the circumstances has been met; before the first restart not even a
\* daemon unknown to the manifest and slow to answer counts as one.
Ordinary == met \subseteq {"unlisted"} /\ (used.restart > 0 => met = {})

\* No start spawns over a daemon that serves, whatever crashes, exits and
\* adoptions raced before it and, before the first restart, however long a
\* daemon takes to answer: the manifest always names it.  That the manifest
\* does holds in every circumstance but the update of an own daemon
\* ("Skipping it left the successor invisible to the next boot's tryAdopt,
\* forcing the socket-adopt path whose probe failure orphans a live daemon").
OneKnownDaemon ==
    /\ Ordinary => NoOrphan
    /\ "update_own" \notin met => ManifestNamesInstance

\* DAEMON_SUPERVISION.md: "Auto-respawn unexpected exits", up to the budget.
CrashRespawns ==
    [][\A p \in wired \ wired' :
          instance = p /\ upd.pc = "idle" /\ used'.host = used.host
              => start'.pc # "idle" \/ circuitOpen']_vars
=============================================================================

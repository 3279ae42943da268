---------------------------- MODULE DaemonHandoff ----------------------------
(***************************************************************************)
(* Replacing a running pty-daemon by a new binary: the predecessor writes  *)
(* a snapshot, spawns a successor that inherits the master fds of its      *)
(* shells, waits for the successor's ack over IPC, and exits; the          *)
(* successor binds the socket path when it sees the IPC channel close.     *)
(* (packages/pty-daemon/src/server/server.ts, main.ts,                     *)
(* session-store/snapshot.ts, pty/pty.ts.)                                 *)
(*                                                                         *)
(* Daemons are numbered in the order they are spawned, and a successor may *)
(* hand over again.  The kernel hangs a shell up when no process holds its *)
(* master fd any more.  `path` is the daemon whose listener a connect() to *)
(* the socket path reaches.                                                *)
(***************************************************************************)
EXTENDS Naturals, FiniteSets

CONSTANTS
    MaxDaemon,   \* bound: daemons ever spawned
    Shells,      \* shells that may be opened
    MaxCrash,    \* bound: daemons killed from outside
    Stall        \* TRUE: more than the 1 s of runHandoffReceiver's fallback
                 \* may pass between an ack and the predecessor's exit

ASSUME HandoffAssumption ==
    /\ MaxDaemon \in Nat \ {0}
    /\ MaxCrash \in Nat
    /\ Stall \in BOOLEAN

Daemons == 1 .. MaxDaemon
None    == 0

VARIABLES
    st,        \* "unborn", "starting", "failing", "waiting", "serving",
               \* "leaving", "closed", "dead"
    parent,    \* the predecessor that spawned it
    snap,      \* the sessions of the snapshot written for it
    fds,       \* shells whose master fd the process holds
    rows,      \* sessions in its store that have not exited
    ipc,       \* a successor's message not yet read: "none", "ack", "nak"
    verdict,   \* how the predecessor settled on it: "open", "ok", "failed"
    path,      \* the daemon the socket path leads to
    shell,     \* "unborn", "alive", "exited", "closed", "hungup"
    opener,    \* the daemon that spawned the shell
    crashes    \* daemons killed so far

daemonVars == <<st, parent, snap, fds, rows, ipc, verdict, path>>
shellVars  == <<shell, opener>>
vars       == <<daemonVars, shellVars, crashes>>

Init ==
    /\ st = [d \in Daemons |-> IF d = 1 THEN "serving" ELSE "unborn"]
    /\ parent = [d \in Daemons |-> None]
    /\ snap = [d \in Daemons |-> {}]
    /\ fds = [d \in Daemons |-> {}]
    /\ rows = [d \in Daemons |-> {}]
    /\ ipc = [d \in Daemons |-> "none"]
    /\ verdict = [d \in Daemons |-> "open"]
    /\ path = 1
    /\ shell = [s \in Shells |-> "unborn"]
    /\ opener = [s \in Shells |-> None]
    /\ crashes = 0

Running(d) == st[d] \notin {"unborn", "dead"}
Serves(d)  == st[d] \in {"serving", "leaving"}
Adopted(d) == st[d] \in {"waiting", "serving", "leaving"}
Alive(s)   == shell[s] = "alive"

\* Successors whose ack d is still waiting for.
Pending(d) == {n \in Daemons : parent[n] = d /\ verdict[n] = "open"}

-----------------------------------------------------------------------------
(* The kernel. *)

\* Process d closes the master fds of S: a shell whose master nobody else holds
\* is hung up.
CloseFds(d, S) ==
    /\ fds' = [fds EXCEPT ![d] = @ \ S]
    /\ shell' = [s \in Shells |->
                    IF /\ Alive(s) /\ s \in fds[d] \cap S
                       /\ \A e \in Daemons \ {d} : s \notin fds[e]
                    THEN "hungup" ELSE shell[s]]

\* The process is gone, and its descriptors with it.
Exit(d) ==
    /\ st' = [st EXCEPT ![d] = "dead"]
    /\ rows' = [rows EXCEPT ![d] = {}]
    /\ CloseFds(d, Shells)

-----------------------------------------------------------------------------
(* Sessions, on a daemon that serves connections. *)

OpenSession(d, s) ==
    /\ Serves(d)
    /\ shell[s] = "unborn"
    /\ shell' = [shell EXCEPT ![s] = "alive"]
    /\ opener' = [opener EXCEPT ![s] = d]
    /\ fds' = [fds EXCEPT ![d] = @ \cup {s}]
    /\ rows' = [rows EXCEPT ![d] = @ \cup {s}]
    /\ UNCHANGED <<st, parent, snap, ipc, verdict, path, crashes>>

\* handleClose: the shell is signalled and the daemon's own fd released.  A
\* successor's inherited copy stays open.
CloseSession(d, s) ==
    /\ Serves(d)
    /\ s \in rows[d]
    /\ shell' = [shell EXCEPT ![s] = IF Alive(s) THEN "closed" ELSE @]
    /\ fds' = [fds EXCEPT ![d] = @ \ {s}]
    /\ rows' = [rows EXCEPT ![d] = @ \ {s}]
    /\ UNCHANGED <<st, parent, snap, ipc, verdict, path, opener, crashes>>

ShellExits(s) ==
    /\ Alive(s)
    /\ shell' = [shell EXCEPT ![s] = "exited"]
    /\ UNCHANGED <<daemonVars, opener, crashes>>

\* onExit of a session: native exit, EOF on the master or the liveness poll.
Reap(d, s) ==
    /\ Adopted(d)
    /\ s \in rows[d]
    /\ ~Alive(s)
    /\ fds' = [fds EXCEPT ![d] = @ \ {s}]
    /\ rows' = [rows EXCEPT ![d] = @ \ {s}]
    /\ UNCHANGED <<st, parent, snap, ipc, verdict, path, shellVars, crashes>>

-----------------------------------------------------------------------------
(* The predecessor. *)

\* Mutant: a row too few is put into the successor's stdio array.
InheritedShort(d) == IF rows[d] = {} THEN {} ELSE rows[d] \ {CHOOSE s \in rows[d] : TRUE}

\* The sessions of the snapshot and the fds of the stdio array.
Inherited(d) == rows[d]

\* prepareUpgrade up to the spawn.  Failing to write the snapshot or to spawn
\* changes nothing and is left out.  One upgrade runs at a time: the only caller,
\* DaemonSupervisor.update, coalesces.
Prepare(d, n) ==
    /\ st[d] = "serving"
    /\ Pending(d) = {}
    /\ st[n] = "unborn" /\ \A k \in Daemons : k < n => st[k] # "unborn"
    /\ st' = [st EXCEPT ![n] = "starting"]
    /\ parent' = [parent EXCEPT ![n] = d]
    /\ snap' = [snap EXCEPT ![n] = rows[d]]
    /\ fds' = [fds EXCEPT ![n] = Inherited(d)]
    /\ UNCHANGED <<rows, ipc, verdict, path, shellVars, crashes>>

\* Mutant: whatever the successor sends is taken for its ack.
AnyReply(n) == ipc[n] # "none"

AckArrives(n) == ipc[n] = "ack"

\* 'message' with an ack: close and exit are scheduled, connections stay up
\* until then.
Accept(d, n) ==
    /\ Serves(d)
    /\ n \in Pending(d)
    /\ AckArrives(n)
    /\ st' = [st EXCEPT ![d] = "leaving"]
    /\ ipc' = [ipc EXCEPT ![n] = "none"]
    /\ verdict' = [verdict EXCEPT ![n] = "ok"]
    /\ UNCHANGED <<parent, snap, fds, rows, path, shellVars, crashes>>

\* Mutant: only an explicit nak counts; nothing is armed for a successor that
\* neither answers nor exits.
NakOnly(n) == ipc[n] = "nak"

\* A nak, the 'exit' or 'disconnect' of the successor, or the 5 s timer, which
\* fires in whatever state the successor is, its ack on the way or not.
GivesUp(n) == TRUE

\* The predecessor settles on a failure: kill the successor, keep serving.
GiveUp(d, n) ==
    /\ Serves(d)
    /\ n \in Pending(d)
    /\ GivesUp(n)
    /\ Exit(n)
    /\ verdict' = [verdict EXCEPT ![n] = "failed"]
    /\ ipc' = [ipc EXCEPT ![n] = "none"]
    /\ UNCHANGED <<parent, snap, path, opener, crashes>>

\* finalizeHandoff: destroy the connections, stop listening, unlink the path,
\* whoever it leads to.  The shells are not touched.
Close(d) ==
    /\ st[d] = "leaving"
    /\ st' = [st EXCEPT ![d] = "closed"]
    /\ path' = None
    /\ UNCHANGED <<parent, snap, fds, rows, ipc, verdict, shellVars, crashes>>

\* process.exit(0), 50 ms later; the IPC channel closes with it.
Leave(d) ==
    /\ st[d] = "closed"
    /\ Exit(d)
    /\ UNCHANGED <<parent, snap, ipc, verdict, path, opener, crashes>>

-----------------------------------------------------------------------------
(* The successor. *)

\* Its IPC channel is open while the predecessor lives.
Connected(n) == Running(parent[n])

\* readSnapshot and adoptSnapshot succeed and the ack is sent; without a
\* channel process.send raises an error nobody handles.
Adopt(n) ==
    /\ st[n] = "starting"
    /\ IF Connected(n)
       THEN /\ rows' = [rows EXCEPT ![n] = snap[n]]
            /\ st' = [st EXCEPT ![n] = "waiting"]
            /\ ipc' = [ipc EXCEPT ![n] = "ack"]
            /\ UNCHANGED <<fds, shell>>
       ELSE Exit(n) /\ UNCHANGED ipc
    /\ UNCHANGED <<parent, snap, verdict, path, opener, crashes>>

\* The snapshot cannot be read (S = {}), or adopting one of its sessions fails:
\* the rollback closes this process's descriptors of the sessions tried so far
\* and signals no shell.
AdoptFails(n) ==
    /\ st[n] = "starting"
    /\ \E S \in SUBSET fds[n] : CloseFds(n, S)
    /\ st' = [st EXCEPT ![n] = "failing"]
    /\ ipc' = [ipc EXCEPT ![n] = IF Connected(n) THEN "nak" ELSE "none"]
    /\ UNCHANGED <<parent, snap, rows, verdict, path, opener, crashes>>

\* process.exit(1) after a nak.
FailedExits(n) ==
    /\ st[n] = "failing"
    /\ Exit(n)
    /\ UNCHANGED <<parent, snap, ipc, verdict, path, opener, crashes>>

\* Mutant: bind as soon as the ack is sent.
BindsAtOnce(n) == TRUE

\* runHandoffReceiver waits for 'disconnect', or for one second.
MayBind(n) == ~Connected(n) \/ Stall

\* listenWithRetry: unlink whatever is at the path, then bind it.
Bind(n) ==
    /\ st[n] = "waiting"
    /\ MayBind(n)
    /\ st' = [st EXCEPT ![n] = "serving"]
    /\ path' = n
    /\ UNCHANGED <<parent, snap, fds, rows, ipc, verdict, shellVars, crashes>>

-----------------------------------------------------------------------------
(* From outside. *)

\* SIGKILL, or a crash.
Crash(d) ==
    /\ Running(d)
    /\ crashes < MaxCrash
    /\ crashes' = crashes + 1
    /\ Exit(d)
    /\ UNCHANGED <<parent, snap, ipc, verdict, path, opener>>

\* SIGTERM (wireShutdown): every shell of the store is killed on purpose.  The
\* store may be serving, or on its way out after a handoff.
Shutdown(d) ==
    /\ Serves(d)
    /\ crashes < MaxCrash
    /\ crashes' = crashes + 1
    /\ st' = [st EXCEPT ![d] = "dead"]
    /\ fds' = [fds EXCEPT ![d] = {}]
    /\ rows' = [rows EXCEPT ![d] = {}]
    /\ shell' = [s \in Shells |-> IF s \in rows[d] /\ Alive(s) THEN "closed" ELSE shell[s]]
    /\ path' = None
    /\ UNCHANGED <<parent, snap, ipc, verdict, opener>>

-----------------------------------------------------------------------------
Next ==
    \/ \E d \in Daemons, s \in Shells : OpenSession(d, s) \/ CloseSession(d, s) \/ Reap(d, s)
    \/ \E s \in Shells : ShellExits(s)
    \/ \E d, n \in Daemons : Prepare(d, n) \/ Accept(d, n) \/ GiveUp(d, n)
    \/ \E d \in Daemons : Close(d) \/ Leave(d) \/ Crash(d) \/ Shutdown(d)
    \/ \E n \in Daemons : Adopt(n) \/ AdoptFails(n) \/ FailedExits(n) \/ Bind(n)

\* Timers fire, scheduled callbacks run, and a live process keeps executing.
\* Nothing obliges a successor to answer: its own steps are not fair until it
\* has acked.
Fairness ==
    /\ \A d, n \in Daemons : WF_vars(GiveUp(d, n) \/ Accept(d, n))
    /\ \A d \in Daemons : WF_vars(Close(d)) /\ WF_vars(Leave(d)) /\ WF_vars(Bind(d))

Spec     == Init /\ [][Next]_vars
FairSpec == Spec /\ Fairness

-----------------------------------------------------------------------------
(* Properties. *)

\* Types; a session a daemon lists is one whose master it can read and write
\* (getMasterFd of a row is what the next handoff passes on), and a process that
\* is gone or not there yet holds nothing.
TypeOK ==
    /\ st \in [Daemons -> {"unborn", "starting", "failing", "waiting", "serving",
                            "leaving", "closed", "dead"}]
    /\ parent \in [Daemons -> Daemons \cup {None}]
    /\ snap \in [Daemons -> SUBSET Shells]
    /\ fds \in [Daemons -> SUBSET Shells]
    /\ rows \in [Daemons -> SUBSET Shells]
    /\ ipc \in [Daemons -> {"none", "ack", "nak"}]
    /\ verdict \in [Daemons -> {"open", "ok", "failed"}]
    /\ path \in Daemons \cup {None}
    /\ shell \in [Shells -> {"unborn", "alive", "exited", "closed", "hungup"}]
    /\ opener \in [Shells -> Daemons \cup {None}]
    /\ crashes \in 0 .. MaxCrash
    /\ \A d \in Daemons : rows[d] \subseteq fds[d]
    /\ \A d \in Daemons : st[d] \in {"unborn", "dead"} => fds[d] = {}

\* No handoff, successful or rolled back at any point, hangs up a shell of its
\* snapshot: unless a daemon is killed from outside, the only shells lost are
\* those their predecessor opened after the snapshot it then left with.
HandoffKeepsShells ==
    crashes = 0 =>
        \A s \in Shells : shell[s] = "hungup" =>
            \E n \in Daemons : /\ verdict[n] = "ok"
                               /\ parent[n] = opener[s]
                               /\ s \notin snap[n]

\* Clients reach the daemon that serves: after a handoff the path leads to the
\* successor's listener, after a rollback still to the predecessor's, and no two
\* daemons serve the same shells.  "We'd bind successfully but then the
\* predecessor's unlink removes the path entry under us."  With Stall it does:
\* the fallback binds first, the predecessor's close() unlinks the new socket,
\* and as listen() unlinks before it binds, no EADDRINUSE makes it try again.
ServingReachable == \A d \in Daemons : st[d] = "serving" => path = d

\* Neither side waits for ever: the predecessor settles on every successor it
\* spawned, and a successor that acked gets to serve or is gone, although no
\* step of a successor before its ack is taken for granted.
HandoffEnds ==
    /\ \A d, n \in Daemons : st[d] = "serving" /\ n \in Pending(d)
                              ~> n \notin Pending(d) \/ st[d] = "dead"
    /\ \A n \in Daemons : st[n] = "waiting" ~> st[n] \in {"serving", "dead"}
=============================================================================

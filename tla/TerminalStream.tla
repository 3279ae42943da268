---------------------------- MODULE TerminalStream ----------------------------
(* The output of one terminal, from its shell to the panes that show it:        *)
(* pty-daemon's ring, the session objects of host-service (terminal.ts), their  *)
(* WebSockets, and the renderer's transport, xterm and persisted snapshot       *)
(* (terminal-ws-transport.ts, terminal-runtime-registry.ts).                    *)
(*                                                                              *)
(* Output is counted in chunks: chunk p is the p-th one written by the shells   *)
(* this terminal has had.  A stretch of the stream is the sequence of its       *)
(* positions, so a screen is the sequence of the positions that reached it and  *)
(* were kept: painted, in xterm's queue, or (the last `pend`) still waiting in  *)
(* the write coalescer.  `join` says where in its session object the screen     *)
(* took up the stream, and which chunks were counted since and lost.            *)
EXTENDS Integers, Sequences, FiniteSets

CONSTANTS Panes,        \* the panes of one window that show the terminal
          Hideable,     \* those of them that are hidden, released and shown again
          Preamble,     \* TRUE: the program has set modes an attach re-asserts
          MaxOut,       \* bound: chunks the shells write
          RingCap,      \* chunks a session retains for a late attach
          DaemonCap,    \* chunks the daemon's ring keeps of the living shell
          MaxEpochs,    \* session objects host-service can come to build
          MaxUpsets     \* bound: headless calls, panes hidden, released or
                        \* reloaded, output lost in the renderer, sockets closed,
                        \* daemons lost, host restarts

\* The daemon's ring (64 KiB) is smaller than the catch-up ring (2 MiB).
ASSUME CapsAssumption == DaemonCap \in 1 .. RingCap /\ RingCap \in Nat
ASSUME BoundsAssumption ==
    /\ Hideable \subseteq Panes /\ {"orphan", "headless"} \cap Panes = {}
    /\ Preamble \in BOOLEAN /\ MaxOut \in Nat /\ MaxEpochs \in Nat \ {0} /\ MaxUpsets \in Nat

VARIABLES
    out,      \* chunks written so far
    shell,    \* the daemon's session: [st, from], from = position it began after
    wire,     \* host-service's subscription: [st, at, ring]
    sess,     \* session objects, in the order they were built (their epoch)
    made,     \* how many have been built
    current,  \* the object `sessions` maps the terminal to, 0 when none
    row,      \* status of the terminal's database row
    ws,       \* host side of each pane's socket: [st, id, ask]
    aside,    \* adoptions no open socket waits for: an orphan's, a headless one's
    chan,     \* frames on their way to each pane
    pane,     \* renderer side: transport, xterm and registry entry
    stored,   \* the persisted snapshot and its anchor: [buf, anchor, join]
    upsets

hostVars == <<sess, made, current, row>>
vars == <<out, shell, wire, hostVars, ws, aside, chan, pane, stored, upsets>>

Epochs == 1 .. MaxEpochs
Larger(a, b) == IF a > b THEN a ELSE b
Stretch(from, to) == [i \in 1 .. (to - from) |-> from + i]

NoAnchor == [e |-> 0, n |-> 0]
NoAsk    == [k |-> "none", e |-> 0, n |-> 0]
NoWs     == [st |-> "none", id |-> 0, ask |-> NoAsk]
NoJoin   == [at |-> 0, lost |-> {}]
NoStored == [buf |-> <<>>, anchor |-> NoAnchor, join |-> NoJoin]
NoWire   == [st |-> "none", at |-> 0, ring |-> 0]

Session(base, settled) ==
    [base |-> base, lo |-> 0, hi |-> 0, on |-> TRUE, settled |-> settled,
     exited |-> FALSE, nudge |-> FALSE]

NoSession == [Session(0, TRUE) EXCEPT !.on = FALSE]

\* An object nobody can reach any more: only positions counted in it live on.
Forgotten(s) == [NoSession EXCEPT !.base = s.base]

FreshPane ==
    [st |-> "none", screen |-> <<>>, pend |-> 0, anchor |-> NoAnchor, join |-> NoJoin,
     counting |-> FALSE, ever |-> FALSE, since |-> FALSE, got |-> FALSE,
     had |-> FALSE, ended |-> FALSE, owed |-> FALSE]

Init ==
    /\ out = 0
    /\ shell = [st |-> "alive", from |-> 0]
    /\ wire = [st |-> "asked", at |-> 0, ring |-> 0]
    /\ sess = [e \in Epochs |-> IF e = 1 THEN Session(0, TRUE) ELSE NoSession]
    /\ made = 1 /\ current = 1 /\ row = "active"
    /\ ws = [v \in Panes |-> NoWs]
    /\ chan = [v \in Panes |-> <<>>]
    /\ pane = [v \in Panes |-> [FreshPane EXCEPT !.st = "mounted"]]
    /\ stored = NoStored
    /\ aside = [orphan |-> "none", headless |-> "none"]
    /\ upsets = 0

-------------------------------------------------------------------------------
(* Shell and daemon.                                                            *)

Write ==
    /\ shell.st = "alive" /\ out < MaxOut
    /\ out' = out + 1
    /\ UNCHANGED <<shell, wire, hostVars, ws, chan, pane, aside, stored, upsets>>

ShellExits ==
    /\ shell.st = "alive"
    /\ shell' = [shell EXCEPT !.st = "exited"]
    /\ UNCHANGED <<out, wire, hostVars, ws, chan, pane, aside, stored, upsets>>

\* The daemon reaches the `subscribe` frame.  For a session it no longer has it
\* answers an error nobody waits for, and the subscription never yields anything.
Subscribe ==
    LET from == Larger(shell.from, out - DaemonCap) IN
    /\ wire.st = "asked"
    /\ IF shell.st = "alive"
         THEN /\ wire' = [st |-> "on", at |-> from, ring |-> out]
              /\ sess' = [e \in Epochs |-> IF sess[e].on THEN [sess[e] EXCEPT !.base = from]
                                                         ELSE sess[e]]
         ELSE wire' = [wire EXCEPT !.st = "void"] /\ UNCHANGED sess
    /\ UNCHANGED <<out, shell, made, current, row, ws, chan, pane, aside, stored, upsets>>

-------------------------------------------------------------------------------
(* host-service: output and exit.                                               *)

Sockets(e) == {v \in Panes : ws[v].st = "attached" /\ ws[v].id = e}

Frame(kind) == [k |-> kind, e |-> 0, n |-> 0, ps |-> <<>>]
Synced(mode, e, n) == [Frame(mode) EXCEPT !.e = e, !.n = n]
Bytes(ps) == IF ps = <<>> THEN <<>> ELSE <<[Frame("bytes") EXCEPT !.ps = ps]>>

\* One `output` frame of the daemon: the ring arrives whole, then chunk by chunk.
\* Every session object the client still calls back gets it: deliverOutput.
DeliverOutput ==
    LET to == IF wire.at < wire.ring THEN wire.ring ELSE wire.at + 1
        n  == to - wire.at
    IN /\ wire.st = "on" /\ to <= out
       /\ wire' = [wire EXCEPT !.at = to, !.ring = IF @ <= to THEN 0 ELSE @]
       /\ sess' = [e \in Epochs |->
            IF sess[e].on
              THEN [sess[e] EXCEPT !.hi = @ + n, !.lo = Larger(@, sess[e].hi + n - RingCap)]
              ELSE sess[e]]
       /\ chan' = [v \in Panes |->
            IF ws[v].st = "attached" /\ sess[ws[v].id].on
              THEN chan[v] \o Bytes(Stretch(wire.at, to))
              ELSE chan[v]]
       /\ UNCHANGED <<out, shell, made, current, row, ws, pane, aside, stored, upsets>>

ExitInFlight ==
    wire.st = "on" /\ shell.st = "exited" /\ \E e \in Epochs : sess[e].on /\ ~sess[e].exited

DeliverExit ==
    /\ ExitInFlight /\ wire.at = out
    /\ sess' = [e \in Epochs |-> IF sess[e].on THEN [sess[e] EXCEPT !.exited = TRUE] ELSE sess[e]]
    /\ row' = "exited"
    /\ chan' = [v \in Panes |-> IF ws[v].st = "attached" /\ sess[ws[v].id].on
                                  THEN Append(chan[v], Frame("exit")) ELSE chan[v]]
    /\ UNCHANGED <<out, shell, wire, made, current, ws, pane, aside, stored, upsets>>

\* adoptionReplaySettled: the replay is in, or there is none to come.  (The code
\* gives it 500 ms; a replay is taken to arrive within them.)
Settle(e) ==
    /\ e <= made /\ ~sess[e].settled
    /\ sess[e].on => wire.st = "void" \/ (wire.st = "on" /\ wire.at >= wire.ring)
    /\ sess' = [sess EXCEPT ![e].settled = TRUE]
    /\ UNCHANGED <<out, shell, wire, made, current, row, ws, chan, pane, aside, stored, upsets>>

\* The repaint asked for after a re-anchored attach, by its timer or by the
\* client's own resize: for a session still current it reaches every viewer.
Nudge(e) ==
    /\ sess[e].nudge
    /\ sess' = [sess EXCEPT ![e].nudge = FALSE]
    /\ pane' = [v \in Panes |-> IF v \in Sockets(e) /\ current = e /\ ~sess[e].exited
                                  THEN [pane[v] EXCEPT !.owed = FALSE] ELSE pane[v]]
    /\ UNCHANGED <<out, shell, wire, made, current, row, ws, chan, aside, stored, upsets>>

-------------------------------------------------------------------------------
(* host-service: a pane's socket is attached.                                   *)

\* The close handler of the transport: what is queued is flushed, and bytes
\* painted before a `synced` poison the anchor.
Closed(p) ==
    [p EXCEPT !.pend = 0, !.anchor = IF p.since /\ ~p.counting THEN NoAnchor ELSE @,
              !.counting = FALSE, !.since = FALSE]

\* Mutant: an empty position is dialled as that of a virgin pane.
AskForgetful(p) ==
    IF p.anchor.e # 0 THEN [k |-> "anchor", e |-> p.anchor.e, n |-> p.anchor.n]
                      ELSE [NoAsk EXCEPT !.k = "new"]

\* buildUrl: what the pane says of its stream position when it dials.
Ask(p) ==
    CASE p.anchor.e # 0  -> [k |-> "anchor", e |-> p.anchor.e, n |-> p.anchor.n]
      [] p.anchor.e = 0 /\ (p.had \/ p.got) -> NoAsk
      [] OTHER -> [NoAsk EXCEPT !.k = "new"]

Enter(v, st, e) == ws' = [ws EXCEPT ![v].st = st, ![v].id = e]

\* The pane dials, and resolveSessionForAttach runs to its first await: a session
\* in the map, a dead row, or an adoption to try.
Dial(v) ==
    /\ pane[v].st = "mounted" /\ ~pane[v].ended /\ ws[v].st = "none"
    /\ IF current = 0 /\ row = "exited"
         THEN pane' = [pane EXCEPT ![v].ended = TRUE] /\ UNCHANGED ws
         ELSE /\ ws' = [ws EXCEPT ![v] =
                          [st |-> IF current = 0 THEN "adopting" ELSE "settling",
                           id |-> current, ask |-> Ask(pane[v])]]
              /\ UNCHANGED pane
    /\ UNCHANGED <<out, shell, wire, hostVars, aside, chan, stored, upsets>>

\* getOrAdoptSession: a headless caller finds no session and leads an adoption.
HeadlessCall ==
    /\ current = 0 /\ aside.headless = "none" /\ upsets < MaxUpsets
    /\ upsets' = upsets + 1
    /\ aside' = [aside EXCEPT !.headless = "adopting"]
    /\ UNCHANGED <<out, shell, wire, hostVars, ws, chan, pane, stored>>

\* The calls of createTerminalSessionInternal in progress, and their next step:
\* a pane goes on to wait for the replay of the session it was given.
Pursuers   == Panes \cup {"orphan", "headless"}
Pursuit(w) == IF w \in Panes THEN ws[w].st ELSE aside[w]

MoveOn(w, st, e) ==
    IF w \in Panes THEN Enter(w, st, e) /\ UNCHANGED aside
    ELSE aside' = [aside EXCEPT ![w] = IF st = "settling" THEN "none" ELSE st] /\ UNCHANGED ws

\* Mutant: the entry of the lost connection is taken for a subscription.
StaleEntry == wire

\* DaemonClient.subscribe: only the first subscription asks the daemon.
Subscription == IF wire.st = "none" THEN [NoWire EXCEPT !.st = "asked"] ELSE wire

\* Mutant: a second object counts from the head although output is on its way.
HeadBase == out

\* Where the stream of a new object begins, when the wire already yields.
FirstBase == IF wire.st = "on" THEN wire.at ELSE out

\* The end of createTerminalSessionInternal: a new object replaces whatever the
\* map holds, and subscribes.
Install(w, settled) ==
    LET e == made + 1 IN
    /\ e \in Epochs
    /\ made' = e /\ current' = e /\ row' = "active"
    /\ sess' = [sess EXCEPT ![e] = Session(FirstBase, settled)]
    /\ wire' = Subscription
    /\ MoveOn(w, "settling", e)
    /\ UNCHANGED <<out, chan, pane, stored, upsets>>

\* adoptOnly: the daemon lists the session as alive.
Adopt(w) ==
    /\ Pursuit(w) = "adopting" /\ shell.st = "alive"
    /\ Install(w, FALSE)
    /\ UNCHANGED shell

\* It does not (and the exit travelled ahead of that answer).  A headless call
\* gives up; an attach looks at the map again, then opens a shell.
AdoptFails(w) ==
    /\ Pursuit(w) = "adopting" /\ shell.st # "alive" /\ ~ExitInFlight
    /\ IF current # 0 \/ w = "headless" THEN MoveOn(w, "settling", current)
                                       ELSE MoveOn(w, "respawning", 0)
    /\ UNCHANGED <<out, shell, wire, hostVars, chan, pane, stored, upsets>>

\* "session already exists" turns the open into an adoption; the answer of one
\* that replaces a dead shell comes after its exit.
Respawn(w) ==
    /\ Pursuit(w) = "respawning" /\ ~ExitInFlight
    /\ IF shell.st = "alive"
         THEN Install(w, FALSE) /\ UNCHANGED shell
         ELSE Install(w, TRUE) /\ shell' = [st |-> "alive", from |-> out]

\* sendSeqAttach: the missing suffix when the position is still in the ring, the
\* ring for a virgin pane, and otherwise the live head and a repaint.
Exact(s, e, ask) == ask.k = "anchor" /\ ask.e = e /\ ask.n \in s.lo .. s.hi

Attach(v) ==
    LET e == ws[v].id  s == sess[e]  ask == ws[v].ask
        mode == IF Exact(s, e, ask) THEN "exact" ELSE IF ask.k = "new" THEN "tail" ELSE "reanchor"
        seq  == CASE mode = "exact" -> ask.n [] mode = "tail" -> s.lo [] mode = "reanchor" -> s.hi
    IN /\ ws[v].st = "settling" /\ s.settled
       /\ ws' = [ws EXCEPT ![v].st = "attached", ![v].ask = NoAsk]
       /\ chan' = [chan EXCEPT ![v] = <<Frame("attached"), Synced(mode, e, seq)>>
                        \o Bytes(Stretch(s.base + seq, s.base + s.hi))
                        \o (IF s.exited THEN <<Frame("exit")>> ELSE <<>>)]
       /\ sess' = [sess EXCEPT ![e].nudge = @ \/ (mode = "reanchor" /\ ~s.exited)]
       /\ pane' = [pane EXCEPT ![v].owed = (mode = "reanchor" /\ ~s.exited)]
       /\ UNCHANGED <<out, shell, wire, made, current, row, aside, stored, upsets>>

-------------------------------------------------------------------------------
(* Renderer: the transport reads a frame.                                       *)

\* Mutant: counts frames, not what they hold.
PaintCountsFrames(p, f) ==
    [p EXCEPT !.screen = @ \o f.ps, !.pend = @ + Len(f.ps), !.got = TRUE, !.since = TRUE,
              !.anchor.n = IF p.counting /\ p.anchor.e # 0 THEN @ + 1 ELSE @]

Paint(p, f) ==
    [p EXCEPT !.screen = @ \o f.ps, !.pend = @ + Len(f.ps), !.got = TRUE, !.since = TRUE,
              !.anchor.n = IF p.counting /\ p.anchor.e # 0 THEN @ + Len(f.ps) ELSE @]

\* What was counted and lost: the oldest n chunks that wait in the coalescer.
Shed(p, n) ==
    LET first == Len(p.screen) - p.pend IN
    [p EXCEPT !.screen = SubSeq(@, 1, first) \o SubSeq(@, first + n + 1, Len(@)),
              !.pend = @ - n,
              !.join.lost = @ \cup {p.screen[first + i] : i \in 1 .. n}]

\* dropOldest: while xterm parses, a frame that fills the queue past its ceiling
\* costs it older ones.  (The anchor has counted them: it is not taken back.)
Overflows(p, f) ==
    IF f.k = "bytes" \/ (f.k = "attached" /\ Preamble) THEN 0 .. p.pend ELSE {0}

Taken(p, f) ==
    CASE f.k = "attached" -> [p EXCEPT !.counting = FALSE, !.since = Preamble,
                                       !.got = @ \/ Preamble, !.ended = FALSE]
      [] f.k = "exact" -> [p EXCEPT !.anchor = [e |-> f.e, n |-> f.n], !.pend = 0,
                                    !.counting = TRUE, !.ever = TRUE]
      [] f.k \in {"tail", "reanchor"} ->
           [p EXCEPT !.anchor = [e |-> f.e, n |-> f.n], !.pend = 0, !.counting = TRUE,
                     !.ever = TRUE, !.join = [at |-> f.n, lost |-> {}]]
      [] f.k = "bytes" -> Paint(p, f)
      [] f.k = "exit" -> [Closed(p) EXCEPT !.ended = TRUE]

Receive(v) ==
    LET f == Head(chan[v])  p == pane[v] IN
    /\ ws[v].st = "attached" /\ chan[v] # <<>>
    /\ \E n \in Overflows(p, f) :
         \/ n = 0 /\ pane' = [pane EXCEPT ![v] = Taken(p, f)] /\ UNCHANGED upsets
         \/ /\ n > 0 /\ upsets < MaxUpsets /\ upsets' = upsets + 1
            /\ pane' = [pane EXCEPT ![v] = Shed(Taken(p, f), n)]
    /\ IF f.k = "exit" THEN ws' = [ws EXCEPT ![v] = NoWs] /\ chan' = [chan EXCEPT ![v] = <<>>]
                       ELSE chan' = [chan EXCEPT ![v] = Tail(@)] /\ UNCHANGED ws
    /\ UNCHANGED <<out, shell, wire, hostVars, aside, stored>>

\* flushSync by an animation frame, or by xterm's report that it has caught up.
Flush(v) ==
    /\ pane[v].pend > 0
    /\ pane' = [pane EXCEPT ![v].pend = 0]
    /\ UNCHANGED <<out, shell, wire, hostVars, ws, chan, aside, stored, upsets>>

\* A write that takes xterm past a ceiling of its own throws, and the batch is
\* gone (what the throw cuts short of the handler that flushed still happens).
BatchLost(v) ==
    /\ pane[v].pend > 0 /\ upsets < MaxUpsets
    /\ upsets' = upsets + 1
    /\ pane' = [pane EXCEPT ![v] = Shed(@, @.pend)]
    /\ UNCHANGED <<out, shell, wire, hostVars, ws, chan, aside, stored>>

-------------------------------------------------------------------------------
(* Renderer: panes hidden, released and shown again.                            *)

\* Serializing takes what the parser has reached: all but the last k chunks
\* (hiding and releasing flush the coalescer first, seeding a sibling does not).
Parsed(p, k) == SubSeq(p.screen, 1, Len(p.screen) - k)

\* Mutant: does not wait for the parser.
PersistableUngated(p, k) == IF p.ever \/ ~p.got THEN p.anchor ELSE NoAnchor

\* getPersistableSeqAnchor, behind the parser gate.
Persistable(p, k) == IF k = 0 /\ (p.ever \/ ~p.got) THEN p.anchor ELSE NoAnchor

\* ok: the snapshot could be written.
Snapshot(p, k, ok) ==
    IF p.ended THEN NoStored
    ELSE LET a == IF ok THEN Persistable(p, k) ELSE NoAnchor IN
         [buf |-> IF ok THEN Parsed(p, k) ELSE stored.buf,
          anchor |-> a, join |-> IF a.e = 0 THEN NoJoin ELSE p.join]

\* Sockets close on the renderer's side or on the way.  The attach of one does
\* not stop for that: its call goes on as an orphan (one at a time: a bound).
CloseSockets(vs) ==
    LET left == {v \in vs : ws[v].st \in {"adopting", "respawning"}} IN
    /\ ws' = [v \in Panes |-> IF v \in vs THEN NoWs ELSE ws[v]]
    /\ chan' = [v \in Panes |-> IF v \in vs THEN <<>> ELSE chan[v]]
    /\ \/ left = {} /\ UNCHANGED aside
       \/ \E v \in left : /\ left = {v} /\ aside.orphan = "none"
                          /\ aside' = [aside EXCEPT !.orphan = ws[v].st]

\* Registry.detach and park: the socket stays when a host that never sent
\* `synced` could not replay the gap.
Detach(v) ==
    LET p == pane[v] IN
    /\ p.st = "mounted" /\ upsets < MaxUpsets
    /\ upsets' = upsets + 1
    /\ \E ok \in BOOLEAN : \E k \in 0 .. Len(p.screen) : stored' = Snapshot(p, k, ok)
    /\ IF p.got /\ ~p.ever
         THEN pane' = [pane EXCEPT ![v].st = "parked", ![v].pend = 0] /\ UNCHANGED <<ws, chan, aside>>
         ELSE pane' = [pane EXCEPT ![v] = [Closed(p) EXCEPT !.st = "parked"]] /\ CloseSockets({v})
    /\ UNCHANGED <<out, shell, wire, hostVars>>

\* Registry.release, and the eviction of a parked runtime.
Release(v) ==
    /\ pane[v].st # "none" /\ upsets < MaxUpsets
    /\ upsets' = upsets + 1
    /\ \E k \in 0 .. Len(pane[v].screen) : stored' = Snapshot(pane[v], k, TRUE)
    /\ pane' = [pane EXCEPT ![v] = FreshPane] /\ CloseSockets({v})
    /\ UNCHANGED <<out, shell, wire, hostVars>>

\* The window reloads or dies: only what was persisted survives.
Reload ==
    /\ \E v \in Panes : pane[v].st # "none"
    /\ upsets < MaxUpsets
    /\ upsets' = upsets + 1
    /\ pane' = [v \in Panes |-> FreshPane]
    /\ CloseSockets(Panes)
    /\ UNCHANGED <<out, shell, wire, hostVars, stored>>

\* Registry.mount: a parked runtime comes back as it was; a new one is seeded
\* from a sibling, whose position is unknown, or from the persisted pair.
Seeds(v) ==
    LET siblings == {u \in Panes \ {v} : pane[u].st # "none"}
        With(buf, anchor, join) ==
            [FreshPane EXCEPT !.st = "mounted", !.screen = buf, !.anchor = anchor,
                              !.join = join, !.had = buf # <<>>]
    IN CASE pane[v].st = "parked" -> {[pane[v] EXCEPT !.st = "mounted"]}
         [] pane[v].st = "none" /\ siblings # {} ->
              UNION {{With(Parsed(pane[u], k), NoAnchor, NoJoin)
                        : k \in pane[u].pend .. Len(pane[u].screen)} : u \in siblings}
         [] pane[v].st = "none" /\ siblings = {} ->
              {IF stored.buf = <<>> THEN With(<<>>, NoAnchor, NoJoin)
               ELSE With(stored.buf, stored.anchor, stored.join)}

Mount(v) ==
    /\ pane[v].st # "mounted"
    /\ \E seed \in Seeds(v) : pane' = [pane EXCEPT ![v] = seed]
    /\ UNCHANGED <<out, shell, wire, hostVars, ws, chan, aside, stored, upsets>>

-------------------------------------------------------------------------------
(* Faults.                                                                      *)

\* A socket closes: network, back-pressure (1013), or the renderer's own redial.
Drop(v) ==
    /\ ws[v].st # "none" /\ upsets < MaxUpsets
    /\ upsets' = upsets + 1
    /\ pane' = [pane EXCEPT ![v] = Closed(@)] /\ CloseSockets({v})
    /\ UNCHANGED <<out, shell, wire, hostVars, stored>>

\* onDaemonDisconnect closes the sockets of the session in the map and empties
\* it; calls that wait for the daemon fail as transient, the others get the next
\* connection.  A handoff or a dropped connection spares the shell, the daemon's
\* death does not.
DaemonLost ==
    \E failed \in SUBSET {w \in Pursuers : Pursuit(w) \in {"adopting", "respawning"}} :
    LET shut == (failed \cap Panes) \cup (IF current = 0 THEN {} ELSE Sockets(current)) IN
    /\ upsets < MaxUpsets
    /\ upsets' = upsets + 1
    /\ \/ UNCHANGED shell
       \/ shell.st = "alive" /\ shell' = [shell EXCEPT !.st = "lost"]
    /\ wire' = NoWire
    /\ sess' = [e \in Epochs |->
          IF \E v \in Panes \ shut : ws[v].st \in {"settling", "attached"} /\ ws[v].id = e
            THEN [sess[e] EXCEPT !.on = FALSE, !.base = IF sess[e].hi = 0 THEN out ELSE @]
            ELSE Forgotten(sess[e])]
    /\ current' = 0
    /\ ws' = [v \in Panes |-> IF v \in shut THEN NoWs ELSE ws[v]]
    /\ aside' = [w \in DOMAIN aside |-> IF w \in failed THEN "none" ELSE aside[w]]
    /\ chan' = [v \in Panes |-> IF v \in shut THEN <<>> ELSE chan[v]]
    /\ pane' = [v \in Panes |-> IF v \in shut THEN Closed(pane[v]) ELSE pane[v]]
    /\ UNCHANGED <<out, made, row, stored>>

HostRestarts ==
    /\ upsets < MaxUpsets
    /\ upsets' = upsets + 1
    /\ wire' = NoWire
    /\ sess' = [e \in Epochs |-> Forgotten(sess[e])]
    /\ current' = 0
    /\ ws' = [v \in Panes |-> NoWs] /\ chan' = [v \in Panes |-> <<>>]
    /\ aside' = [orphan |-> "none", headless |-> "none"]
    /\ pane' = [v \in Panes |-> Closed(pane[v])]
    /\ UNCHANGED <<out, shell, made, row, stored>>

-------------------------------------------------------------------------------
Pursue(w) == Adopt(w) \/ AdoptFails(w) \/ Respawn(w)

Next ==
    \/ Write \/ ShellExits \/ Subscribe \/ DeliverOutput \/ DeliverExit
    \/ \E e \in Epochs : Settle(e) \/ Nudge(e)
    \/ HeadlessCall
    \/ \E w \in Pursuers : Pursue(w)
    \/ \E v \in Panes : Dial(v) \/ Attach(v) \/ Receive(v)
    \/ \E v \in Panes : Flush(v) \/ BatchLost(v)
    \/ \E v \in Panes : Mount(v) \/ Drop(v)
    \/ \E v \in Hideable : Detach(v) \/ Release(v)
    \/ Reload \/ DaemonLost \/ HostRestarts

\* Sockets and timers make progress, frames are drawn and xterm goes on parsing;
\* the redial loop never gives up.
Fairness ==
    /\ WF_vars(Subscribe) /\ WF_vars(DeliverOutput) /\ WF_vars(DeliverExit)
    /\ \A e \in Epochs : WF_vars(Settle(e)) /\ WF_vars(Nudge(e))
    /\ \A w \in Pursuers : WF_vars(Pursue(w))
    /\ \A v \in Panes : WF_vars(Dial(v)) /\ WF_vars(Attach(v))
                        /\ WF_vars(Receive(v)) /\ WF_vars(Flush(v))

Spec == Init /\ [][Next]_vars /\ Fairness

-------------------------------------------------------------------------------
(* Properties.                                                                  *)

Position(a) == sess[a.e].base + a.n

\* The variables have the shapes the actions give them, and no more session
\* objects are built than the bounds foresee.
TypeOK ==
    /\ out \in 0 .. MaxOut /\ made \in Epochs /\ current \in 0 .. made
    /\ shell.st \in {"alive", "exited", "lost"} /\ shell.from \in 0 .. out
    /\ wire.st \in {"none", "asked", "on", "void"} /\ wire.at \in 0 .. out /\ wire.ring \in 0 .. out
    /\ row \in {"active", "exited"}
    /\ \A e \in Epochs : sess[e].lo \in 0 .. sess[e].hi /\ sess[e].base + sess[e].hi <= out
    /\ \A v \in Panes :
         /\ ws[v].st \in {"none", "adopting", "respawning", "settling", "attached"}
         /\ ws[v].id \in 0 .. made
         /\ pane[v].st \in {"none", "parked", "mounted"}
         /\ pane[v].anchor.e \in 0 .. made /\ pane[v].pend \in 0 .. Len(pane[v].screen)
    /\ \A w \in DOMAIN aside : aside[w] \in {"none", "adopting", "respawning"}
    /\ upsets \in 0 .. MaxUpsets

\* Through reconnects, adoptions, respawns, parking, eviction and reloads no
\* chunk is painted a second time and none out of order (sendSeqAttach, the
\* anchor of terminal-ws-transport.ts, Registry.detach / mount).
PaintedOnce ==
    \A v \in Panes : LET s == pane[v].screen IN
        \A i, j \in 1 .. Len(s) : i < j => s[i] < s[j]

\* What an anchor promises: from where the buffer joined the stream up to the
\* anchor, a chunk the buffer lacks was lost between the transport and xterm,
\* and the buffer holds nothing beyond.
Covers(buf, anchor, join) ==
    LET held == {buf[i] : i \in 1 .. Len(buf)} IN
    /\ sess[anchor.e].base + join.at + 1 .. Position(anchor) \subseteq held \cup join.lost
    /\ \A p \in held : p <= Position(anchor)

\* The anchor a pane dials with, and the one persisted beside its snapshot,
\* describe the buffer they are paired with but for what the write coalescer
\* dropped or xterm refused; where neither happened the snapshot "contains every
\* byte of `epoch` up to `seq`" (terminal-seq-anchor.ts).
AnchorDescribesBuffer ==
    /\ \A v \in Panes : pane[v].anchor.e # 0 =>
         Covers(pane[v].screen, pane[v].anchor, pane[v].join)
    /\ stored.anchor.e # 0 => Covers(stored.buf, stored.anchor, stored.join)

\* The session a new socket will be attached to receives the daemon's output
\* as long as host-service is connected to the daemon (onDaemonDisconnect
\* empties the map).
CurrentSessionIsWired == current # 0 => sess[current].on /\ wire.st # "none"

\* The pane hangs on a session object the map no longer holds (replaced by a
\* second adoption, or emptied out while the socket waited for the replay), or
\* on one whose subscription the daemon refused.
Stranded(v) ==
    ws[v].st \in {"settling", "attached"} /\ (ws[v].id # current \/ wire.st = "void")

\* Once faults stop, a pane on display that is not stranded has been given the
\* stream to its end, nothing of it waits in the coalescer, and if the attach had
\* to skip a part the program was asked to repaint.
PaneCatchesUp ==
    \A v \in Panes : <>[](\/ pane[v].st # "mounted" \/ pane[v].ended \/ Stranded(v)
                          \/ pane[v].anchor.e # 0 /\ Position(pane[v].anchor) = out
                             /\ pane[v].pend = 0 /\ ~pane[v].owed)

\* "sharing the leader's attempt keeps session identity unique per terminal"
\* (terminal.ts, on adoptions): one session object is subscribed at a time.
SessionIdentityUnique == Cardinality({e \in Epochs : sess[e].on}) <= 1
===============================================================================

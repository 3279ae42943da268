------------------------------ MODULE PtyDaemon ------------------------------
(***************************************************************************)
(* The pty-daemon server: PTY sessions in a store, client connections that *)
(* subscribe to them, the fan-out of PTY output with its replay buffer,    *)
(* and the flow control between a slow connection and the PTYs feeding it. *)
(* (packages/pty-daemon/src/server/server.ts, handlers/handlers.ts,        *)
(* session-store/session-store.ts.)                                        *)
(*                                                                         *)
(* A PTY is named by the order in which it was spawned, so two PTYs that   *)
(* use the same session id one after the other stay distinguishable: the   *)
(* code compares Session objects for the same purpose.  Output is counted  *)
(* in chunks; a chunk, and an exit frame, weigh one unit of a socket's     *)
(* outbound buffer.  Small replies (open-ok, closed, errors) weigh nothing *)
(* against a cap of megabytes and are left out.                            *)
(***************************************************************************)
EXTENDS Naturals, Sequences

CONSTANTS
    Ids,            \* session ids clients may name
    Conns,          \* connection slots; a slot is reused after a disconnect
    MaxPty,         \* bound: PTYs ever spawned
    MaxChunk,       \* bound: output chunks one PTY emits
    BufferCap,      \* chunks kept for replay (SessionStore.bufferCap)
    HighWater,      \* socket.write() returns false from this length on
    PauseThreshold, \* a longer outbound buffer pauses the PTY
    OutboundCap     \* a longer outbound buffer destroys the socket

ASSUME BoundsAssumption ==
    /\ Ids # {}
    /\ MaxPty \in Nat
    /\ MaxChunk \in Nat
    /\ BufferCap \in Nat

\* "The buffer only reaches the pause threshold after write() has returned
\* false": the default marks are 16 KiB, 1 MiB and 8 MiB.
ASSUME ThresholdAssumption ==
    /\ HighWater \in Nat /\ PauseThreshold \in Nat /\ OutboundCap \in Nat
    /\ 0 < HighWater
    /\ HighWater <= PauseThreshold
    /\ PauseThreshold <= OutboundCap

VARIABLES
    \* The session store and, per PTY, its Session row and adapter.
    store,          \* id -> the PTY holding it, 0 when the map has no entry
    born,           \* PTYs spawned so far
    idOf,           \* the id a PTY was opened under
    phase,          \* "unborn", "live", "closed" (exited set by handleClose), "dead"
    paused,         \* pty.pause() is in effect
    made,           \* chunks the PTY has emitted
    evicted,        \* chunks dropped from the head of its replay buffer
    \* Per connection.
    conn,           \* "free", "fresh" (no hello yet), "ready", "destroyed"
    subs,           \* conn.subscriptions
    held,           \* conn.pausedSessions
    out,            \* what the socket still has to flush, oldest first
    needDrain,      \* a write returned false: 'drain' follows the full flush
    \* History, for the properties only.
    seen,           \* last chunk the client behind the slot received of those
    whole           \* PTYs the client follows since a subscribe with replay

ptyVars  == <<store, born, idOf, phase, paused, made, evicted>>
connVars == <<conn, subs, held, out, needDrain>>
histVars == <<seen, whole>>
vars     == <<ptyVars, connVars, histVars>>

Ptys == 1 .. MaxPty
Unit == [pty : Ptys, kind : {"live", "replay", "exit"}, n : 0 .. MaxChunk]

Chunk(p, n)    == [pty |-> p, kind |-> "live", n |-> n]
Replayed(p, n) == [pty |-> p, kind |-> "replay", n |-> n]
ExitOf(p)      == [pty |-> p, kind |-> "exit", n |-> 0]

Live(p)   == phase[p] = "live"
IsOpen(c) == conn[c] \in {"fresh", "ready"}
InConns(c) == conn[c] # "free"

Init ==
    /\ store = [i \in Ids |-> 0]
    /\ born = 0
    /\ idOf = [p \in Ptys |-> CHOOSE i \in Ids : TRUE]
    /\ phase = [p \in Ptys |-> "unborn"]
    /\ paused = [p \in Ptys |-> FALSE]
    /\ made = [p \in Ptys |-> 0]
    /\ evicted = [p \in Ptys |-> 0]
    /\ conn = [c \in Conns |-> "free"]
    /\ subs = [c \in Conns |-> {}]
    /\ held = [c \in Conns |-> {}]
    /\ out = [c \in Conns |-> <<>>]
    /\ needDrain = [c \in Conns |-> FALSE]
    /\ seen = [c \in Conns |-> [p \in Ptys |-> 0]]
    /\ whole = [c \in Conns |-> {}]

-----------------------------------------------------------------------------
(* Writing to sockets and resuming PTYs. *)

Fits(c, units) == Len(out[c]) + Len(units) <= OutboundCap

\* conn.send(...) to every connection of T: a destroyed socket takes nothing,
\* and one whose buffer passes the cap is destroyed with what it still held.
SendTo(T, units) ==
    LET takes(c)    == c \in T /\ IsOpen(c)
        keeps(c)    == takes(c) /\ Fits(c, units)
        overflow(c) == takes(c) /\ ~Fits(c, units)
    IN  /\ conn' = [c \in Conns |-> IF overflow(c) THEN "destroyed" ELSE conn[c]]
        /\ out' = [c \in Conns |-> IF keeps(c) THEN out[c] \o units
                                   ELSE IF overflow(c) THEN <<>> ELSE out[c]]
        /\ needDrain' = [c \in Conns |->
                            \/ needDrain[c]
                            \/ keeps(c) /\ Len(out[c]) + Len(units) >= HighWater]

\* Mutant: a connection being dropped forgets its pauses without resuming.
ResumesNothing(c, p) == FALSE

\* Mutant: the check for another congested holder is gone.
ResumesRegardless(c, p) == Live(p) /\ store[idOf[p]] = p /\ idOf[p] \in held[c]

\* resumePausedSessions(conn) calls resume() on this PTY: conn held its id, no
\* other connection does, and the store's session under that id has not exited.
Resumes(c, p) ==
    /\ idOf[p] \in held[c]
    /\ \A d \in Conns \ {c} : InConns(d) => idOf[p] \notin held[d]
    /\ store[idOf[p]] = p
    /\ Live(p)

ResumeFor(c) == paused' = [p \in Ptys |-> paused[p] /\ ~Resumes(c, p)]

-----------------------------------------------------------------------------
(* Connections. *)

Connect(c) ==
    /\ conn[c] = "free"
    /\ conn' = [conn EXCEPT ![c] = "fresh"]
    /\ UNCHANGED <<ptyVars, subs, held, out, needDrain, histVars>>

Hello(c) ==
    /\ conn[c] = "fresh"
    /\ conn' = [conn EXCEPT ![c] = "ready"]
    /\ UNCHANGED <<ptyVars, subs, held, out, needDrain, histVars>>

\* No hello first, no common version, or a frame that does not decode: the
\* daemon destroys the socket, and the 'close' event is still to come.
Reject(c) ==
    /\ IsOpen(c)
    /\ conn' = [conn EXCEPT ![c] = "destroyed"]
    /\ out' = [out EXCEPT ![c] = <<>>]
    /\ UNCHANGED <<ptyVars, subs, held, needDrain, histVars>>

\* 'close' or 'error' on the socket: after destroy(), or because the peer left.
DropConn(c) ==
    /\ InConns(c)
    /\ ResumeFor(c)
    /\ conn' = [conn EXCEPT ![c] = "free"]
    /\ subs' = [subs EXCEPT ![c] = {}]
    /\ held' = [held EXCEPT ![c] = {}]
    /\ out' = [out EXCEPT ![c] = <<>>]
    /\ needDrain' = [needDrain EXCEPT ![c] = FALSE]
    /\ seen' = [seen EXCEPT ![c] = [p \in Ptys |-> 0]]
    /\ whole' = [whole EXCEPT ![c] = {}]
    /\ UNCHANGED <<store, born, idOf, phase, made, evicted>>

\* The peer reads one unit.  When that empties a buffer some write had found
\* full, 'drain' fires and releases the PTYs this connection holds paused.
Flush(c) ==
    LET u     == Head(out[c])
        rest  == Tail(out[c])
        drain == rest = <<>> /\ needDrain[c]
    IN  /\ IsOpen(c)
        /\ out[c] # <<>>
        /\ out' = [out EXCEPT ![c] = rest]
        /\ needDrain' = [needDrain EXCEPT ![c] = @ /\ ~drain]
        /\ held' = [held EXCEPT ![c] = IF drain THEN {} ELSE @]
        /\ IF drain THEN ResumeFor(c) ELSE UNCHANGED paused
        /\ seen' = [seen EXCEPT ![c][u.pty] = IF u.pty \in whole[c] THEN u.n ELSE @]
        /\ UNCHANGED <<store, born, idOf, phase, made, evicted, conn, subs, whole>>

-----------------------------------------------------------------------------
(* Client requests on a connection past its handshake. *)

Vacant(i) == store[i] # 0 => ~Live(store[i])

\* handleOpen: an id held by an exited session is recycled, a live one is
\* refused (EEXIST, no change).
Open(c, i) ==
    LET p == born + 1
    IN  /\ conn[c] = "ready"
        /\ Vacant(i)
        /\ p <= MaxPty
        /\ born' = p
        /\ store' = [store EXCEPT ![i] = p]
        /\ idOf' = [idOf EXCEPT ![p] = i]
        /\ phase' = [phase EXCEPT ![p] = "live"]
        /\ UNCHANGED <<paused, made, evicted, connVars, histVars>>

\* handleOpen when the spawn throws: the exited entry is already gone.
OpenFails(c, i) ==
    /\ conn[c] = "ready"
    /\ store[i] # 0 /\ Vacant(i)
    /\ store' = [store EXCEPT ![i] = 0]
    /\ UNCHANGED <<born, idOf, phase, paused, made, evicted, connVars, histVars>>

\* handleClose: signal the tree, release the master fd, mark the row exited.
\* The row stays until the process-exit notification.
Close(c, i) ==
    /\ conn[c] = "ready"
    /\ store[i] # 0 /\ Live(store[i])
    /\ phase' = [phase EXCEPT ![store[i]] = "closed"]
    /\ UNCHANGED <<store, born, idOf, paused, made, evicted, connVars, histVars>>

\* Mutant: the replay leaves out the newest chunk of the buffer.
ReplayShort(p) == [k \in 1 .. made[p] - evicted[p] - 1 |-> Replayed(p, evicted[p] + k)]

Replay(p) == [k \in 1 .. made[p] - evicted[p] |-> Replayed(p, evicted[p] + k)]

\* The history of what the connections of T follow of the PTYs in P ends.
Forget(T, P) ==
    /\ whole' = [c \in Conns |-> IF c \in T THEN whole[c] \ P ELSE whole[c]]
    /\ seen' = [c \in Conns |-> [p \in Ptys |-> IF c \in T /\ p \in P THEN 0 ELSE seen[c][p]]]

\* handleSubscribe.  A client sends one wire subscribe per id until it
\* unsubscribes (DaemonClient.subscribe).
Subscribe(c, i, replay) ==
    LET p      == store[i]
        follow == replay /\ \A k \in DOMAIN out[c] : out[c][k].pty # p
    IN  /\ conn[c] = "ready"
        /\ p # 0
        /\ i \notin subs[c]
        /\ subs' = [subs EXCEPT ![c] = @ \cup {i}]
        /\ SendTo({c}, IF replay THEN Replay(p) ELSE <<>>)
        /\ whole' = [whole EXCEPT ![c] = IF follow THEN @ \cup {p} ELSE @]
        /\ seen' = [seen EXCEPT ![c][p] = IF follow THEN evicted[p] ELSE @]
        /\ UNCHANGED <<ptyVars, held>>

\* handleUnsubscribe: the pauses the connection holds stay held.
Unsubscribe(c, i) ==
    /\ conn[c] = "ready"
    /\ i \in subs[c]
    /\ subs' = [subs EXCEPT ![c] = @ \ {i}]
    /\ Forget({c}, {p \in Ptys : idOf[p] = i})
    /\ UNCHANGED <<ptyVars, conn, held, out, needDrain>>

-----------------------------------------------------------------------------
(* PTY events (wireSession). *)

Subscribed(p) == {c \in Conns : InConns(c) /\ idOf[p] \in subs[c]}

\* A subscriber whose socket is still up and whose buffer passed the pause
\* threshold after this send.
Congested(p) ==
    {c \in Subscribed(p) : /\ IsOpen(c)
                           /\ Fits(c, <<Chunk(p, made[p])>>)
                           /\ Len(out[c]) + 1 > PauseThreshold}

\* Mutant: the head chunk is never shifted out.
NeverEvict(p, n) == evicted[p]

\* appendOutput: whole chunks leave the head until the buffer fits its cap.
EvictedAfter(p, n) == IF n - evicted[p] > BufferCap THEN evicted[p] + 1 ELSE evicted[p]

\* onData: append to the replay buffer, send to the subscribers, pause the PTY if one of them is congested.
Output(p) ==
    LET n == made[p] + 1
    IN  /\ Live(p)
        /\ ~paused[p]
        /\ n <= MaxChunk
        /\ made' = [made EXCEPT ![p] = n]
        /\ evicted' = [evicted EXCEPT ![p] = EvictedAfter(p, n)]
        /\ SendTo(Subscribed(p), <<Chunk(p, n)>>)
        /\ held' = [c \in Conns |-> IF c \in Congested(p) THEN held[c] \cup {idOf[p]} ELSE held[c]]
        /\ paused' = [paused EXCEPT ![p] = Congested(p) # {}]
        /\ UNCHANGED <<store, born, idOf, phase, subs, histVars>>

\* Mutant: the exit callback does not check that the store still holds its session.
OwnsRowUnchecked(p) == TRUE

\* "An explicitly closed session id can be recycled before its delayed
\* process-exit notification arrives."
OwnsRow(p) == store[idOf[p]] = p

\* onExit: the process ended by itself or after a close.  Nothing refers to the
\* Session and its adapter any more.
Exit(p) ==
    /\ phase[p] \in {"live", "closed"}
    /\ phase' = [phase EXCEPT ![p] = "dead"]
    /\ IF OwnsRow(p)
       THEN /\ SendTo(Subscribed(p), <<ExitOf(p)>>)
            /\ subs' = [c \in Conns |-> subs[c] \ {idOf[p]}]
            /\ held' = [c \in Conns |-> held[c] \ {idOf[p]}]
            /\ store' = [store EXCEPT ![idOf[p]] = 0]
       ELSE UNCHANGED <<connVars, store>>
    /\ Forget(Conns, {p})
    /\ paused' = [paused EXCEPT ![p] = FALSE]
    /\ made' = [made EXCEPT ![p] = 0]
    /\ evicted' = [evicted EXCEPT ![p] = 0]
    /\ UNCHANGED <<born, idOf>>

-----------------------------------------------------------------------------
Next ==
    \/ \E c \in Conns : Connect(c) \/ Hello(c) \/ Reject(c) \/ DropConn(c) \/ Flush(c)
    \/ \E c \in Conns, i \in Ids :
          \/ Open(c, i) \/ OpenFails(c, i) \/ Close(c, i)
          \/ \E replay \in BOOLEAN : Subscribe(c, i, replay)
          \/ Unsubscribe(c, i)
    \/ \E p \in Ptys : Output(p) \/ Exit(p)

\* A peer keeps reading what it is sent, and a destroyed socket reports 'close'.
Fairness ==
    \A c \in Conns : WF_vars(Flush(c) \/ (conn[c] = "destroyed" /\ DropConn(c)))

Spec     == Init /\ [][Next]_vars
FairSpec == Spec /\ Fairness

-----------------------------------------------------------------------------
(* Properties. *)

\* Every variable has its type; a replay buffer never holds more than its cap
\* (appendOutput) and an outbound buffer never stays above its cap (writeMessage).
TypeOK ==
    /\ store \in [Ids -> 0 .. MaxPty]
    /\ born \in 0 .. MaxPty
    /\ idOf \in [Ptys -> Ids]
    /\ phase \in [Ptys -> {"unborn", "live", "closed", "dead"}]
    /\ paused \in [Ptys -> BOOLEAN]
    /\ made \in [Ptys -> 0 .. MaxChunk]
    /\ evicted \in [Ptys -> 0 .. MaxChunk]
    /\ conn \in [Conns -> {"free", "fresh", "ready", "destroyed"}]
    /\ subs \in [Conns -> SUBSET Ids]
    /\ held \in [Conns -> SUBSET Ids]
    /\ out \in [Conns -> Seq(Unit)]
    /\ needDrain \in [Conns -> BOOLEAN]
    /\ seen \in [Conns -> [Ptys -> 0 .. MaxChunk]]
    /\ whole \in [Conns -> SUBSET Ptys]
    /\ \A p \in Ptys : evicted[p] <= made[p] /\ made[p] <= evicted[p] + BufferCap
    /\ \A c \in Conns : Len(out[c]) <= OutboundCap

\* A shell the daemon still serves can always be listed, closed and handed to a
\* successor: the store row under its id is its own, whatever exits, closes and
\* reopenings of that id raced before.
LiveReachable == \A p \in Ptys : Live(p) => store[idOf[p]] = p

\* A paused shell is never forgotten: some connection holds the pause, and that
\* connection either has a 'drain' coming (a full buffer still to be flushed)
\* or is destroyed and about to be dropped.
PausedHasHolder ==
    \A p \in Ptys : Live(p) /\ paused[p] =>
        \E c \in Conns : /\ idOf[p] \in held[c]
                         /\ \/ conn[c] = "destroyed"
                            \/ IsOpen(c) /\ needDrain[c] /\ out[c] # <<>>

\* Flow control: while live output of a shell waits beyond the pause threshold
\* of some connection, that shell stays paused, whichever other connections
\* drain, unsubscribe or disconnect in the meantime.
OverThresholdIsPaused ==
    \A c \in Conns : \A k \in DOMAIN out[c] :
        LET u == out[c][k]
        IN  k > PauseThreshold /\ u.kind = "live" /\ Live(u.pty) => paused[u.pty]

\* Where the output of a PTY waits in a connection's queue.
Places(q, p) == {k \in DOMAIN q : q[k].pty = p /\ q[k].kind # "exit"}

\* What waits is what follows chunk m, up to chunk n: all of it, in order, and
\* nothing twice.
InStep(q, p, m, n) ==
    /\ m <= n
    /\ \A k \in Places(q, p) : m < q[k].n /\ q[k].n <= n
    /\ \A j, k \in Places(q, p) : j < k => q[j].n < q[k].n
    /\ \A l \in m + 1 .. n : \E k \in Places(q, p) : q[k].n = l

\* Replay then live: a client that subscribed with replay gets every chunk from
\* the head of the buffer on exactly once and in order, for as long as its
\* connection lives: what is still queued is what follows the last chunk it saw.
ReplayThenLive ==
    \A c \in Conns : IsOpen(c) =>
        \A p \in whole[c] : InStep(out[c], p, seen[c][p], made[p])

\* A client never reads the exit of a closed session after output of the one
\* that took over its id: it would take it for the exit of the new session.
ExitBeforeSuccessorOutput ==
    \A c \in Conns : \A j, k \in DOMAIN out[c] :
        /\ j < k
        /\ out[c][k].kind = "exit"
        /\ idOf[out[c][j].pty] = idOf[out[c][k].pty]
        => out[c][j].pty <= out[c][k].pty

\* Backpressure ends: a paused shell is resumed or gone, as long as peers read,
\* destroyed sockets are reported closed, and no client keeps refilling its own
\* buffer by subscribing for replays for ever.
Replays == \E c \in Conns, i \in Ids : Subscribe(c, i, TRUE)

PauseEnds ==
    <>[][~Replays]_vars =>
        \A p \in Ptys : []<>~(Live(p) /\ paused[p])
=============================================================================

----------------------------- MODULE ChatStream -----------------------------
(***************************************************************************)
(* One chat session, from its journal to the pane that shows it.  In the   *)
(* host: ChatJournal (chat.db rows under an epoch), the replay queries and *)
(* the SubscriptionHub that replays and then streams to WebSocket sinks.   *)
(* In the pane: subscribeToSession (cursor, reconnect), useChatSession     *)
(* (seeding, frame batches, resync, paging) and the reducer.               *)
(* (packages/chat-runtime/src/{journal,replay,stream,router},              *)
(* packages/chat/src/{client,core,react}.)                                 *)
(*                                                                         *)
(* An event gives one item its next version; versions are numbered over    *)
(* the whole behaviour, so they tell events of two epochs apart.  Row k of *)
(* the journal has seq k.  A delta carries the version it continues.       *)
(* Session events set the snapshot's `session`; turn events are like those *)
(* of items.                                                               *)
(***************************************************************************)
EXTENDS Naturals, Sequences, FiniteSets, SequencesExt

CONSTANTS
    Items,          \* item ids
    State,          \* stands for the session's state, beside the items
    Sockets,        \* connection slots
    PageSize,       \* getItems({ limit })
    BootstrapLimit, \* SubscriptionHub.bootstrapLimit
    MaxVersion,     \* bound: events appended
    MaxDelta,       \* bound: deltas published
    Courses,        \* bound: the trouble a behaviour meets, in order, see Trouble
    Restarts        \* what may be wrong after a crash, of {"loss", "bad"}

ASSUME BoundsAssumption ==
    /\ State \notin Items
    /\ Sockets \subseteq Nat \ {0}
    /\ {PageSize, BootstrapLimit} \subseteq Nat \ {0}
    /\ {MaxVersion, MaxDelta} \subseteq Nat

Subjects == Items \cup {State}

VARIABLES
    \* Host.
    up,         \* the host-service process runs
    live,       \* LiveSessionRegistry has the session: its adapter emits
    cached,     \* ChatJournal.sessions has an entry for it
    epoch,      \* chat_sessions_local.epoch, 0 without a row
    minted,     \* epochs minted so far
    rows,       \* the chat_journal rows of the epoch, in seq order
    bad,        \* seqs whose row no longer parses
    reg,        \* sockets the hub has a Subscriber for
    held,       \* the coalescer's pending deltas
    \* Network.
    link,       \* socket -> "free", "dialing", "up", "cut" (the pane is gone)
    url,        \* socket -> the cursor in its url
    wire,       \* socket -> frames sent and not received
    \* Pane.
    mode,       \* "away", "opening", "paging", "seeding", "ready", "stuck"
    asked,      \* getSession's cursor
    page,       \* the getItems reply the seed waits for
    cur,        \* subscribeToSession's socket, 0 for null
    since,      \* its cursor
    batch,      \* pendingRef
    snap,       \* the SessionSnapshot
    rendered,   \* the pendingReset the resync effect last ran with
    resync,     \* "idle", "asked", or "answered" (resyncingRef is set)
    answer,     \* the reply to the resync
    nextBefore, \* nextBeforeRef
    older,      \* the reply to loadOlder
    \* Counters and history.
    version, deltas, trouble,
    first,      \* seq of the first row the pane has taken in
    calm        \* the pane has not been told to start over

hostVars == <<up, live, cached, epoch, minted, rows, bad>>
hubVars  == <<reg, held>>
netVars  == <<link, url, wire>>
seedVars == <<mode, asked, page>>
paneVars == <<cur, since, batch, snap, rendered, resync, answer, nextBefore, older>>
histVars == <<version, deltas, trouble, first, calm>>
vars     == <<hostVars, hubVars, netVars, seedVars, paneVars, histVars>>

(***************************************************************************)
(* Cursors, envelopes and replies.                                         *)
(***************************************************************************)
At(e, n) == [epoch |-> e, seq |-> n]
Null     == At(0, 0)
NoPage   == [ok |-> FALSE, rows |-> <<>>, next |-> Null, why |-> "none"]

Durable(e, n, row) ==
    [kind |-> "durable", at |-> At(e, n), item |-> row.item, ver |-> row.ver]
Delta(i, v) == [kind |-> "delta", at |-> Null, item |-> i, ver |-> v]
Reset(why)  == [kind |-> "reset", why |-> why]

LastSeq == Len(rows)
Window(f, t) == [k \in 1 .. (t + 1 - f) |-> Durable(epoch, f + k - 1, rows[f + k - 1])]
Fails(why)   == [NoPage EXCEPT !.why = why]

\* Mutant: gte(seq) for gt(seq), which sends the cursor's own row again.
ReadFrom(c) ==
    IF epoch = 0 THEN Fails("session_not_found")
    ELSE IF epoch # c.epoch THEN Fails("epoch_changed")
    ELSE IF c.seq > LastSeq THEN Fails("invalid_cursor")
    ELSE LET f == IF c.seq = 0 THEN 1 ELSE c.seq
         IN  [ok |-> TRUE, rows |-> Window(f, LastSeq), next |-> Null, why |-> "none"]

\* readSince(db, sessionId, cursor).
ReadSince(c) ==
    IF epoch = 0 THEN Fails("session_not_found")
    ELSE IF epoch # c.epoch THEN Fails("epoch_changed")
    ELSE IF LastSeq = 0 /\ c.seq > 0 THEN Fails("journal_missing")
    ELSE IF c.seq > LastSeq THEN Fails("invalid_cursor")
    ELSE IF bad \cap (c.seq + 1 .. LastSeq) # {} THEN Fails("journal_missing")
    ELSE [ok |-> TRUE, rows |-> Window(c.seq + 1, LastSeq), next |-> Null, why |-> "none"]

\* readPage(db, sessionId, { before, limit }): the limit rows that end before
\* `before`, and the cursor of the oldest when there are more.
ReadPage(before, limit) ==
    LET t == IF before = Null THEN LastSeq ELSE before.seq - 1
        f == IF t > limit THEN t + 1 - limit ELSE 1
    IN  IF epoch = 0 THEN Fails("session_not_found")
        ELSE IF before # Null /\ before.epoch # epoch THEN Fails("epoch_changed")
        ELSE IF before # Null /\ before.seq > LastSeq THEN Fails("invalid_cursor")
        ELSE IF bad \cap (f .. t) # {} THEN Fails("journal_missing")
        ELSE [ok |-> TRUE, rows |-> Window(f, t), why |-> "none",
              next |-> IF f > 1 THEN At(epoch, f) ELSE Null]

(***************************************************************************)
(* The reducer.                                                            *)
(***************************************************************************)
Empty == [items |-> [i \in Subjects |-> 0], live |-> [i \in Items |-> {}],
          cursor |-> Null, reset |-> "none"]

\* applyEnvelope: a live stream is the set of versions its deltas continue.
Apply(s, e) ==
    CASE e.kind = "reset" -> [s EXCEPT !.reset = e.why]
      [] e.kind = "delta" -> [s EXCEPT !.live[e.item] = @ \cup {e.ver}]
      [] e.kind = "durable" /\ s.cursor # Null /\ s.cursor.epoch # e.at.epoch ->
           [s EXCEPT !.reset = "epoch_changed"]
      [] OTHER ->
           [s EXCEPT !.items[e.item] = e.ver,
                     !.live = [i \in Items |-> IF i = e.item THEN {} ELSE @[i]],
                     !.cursor = IF @ = Null \/ e.at.seq > @.seq THEN e.at ELSE @]

\* reduceMany: the snapshot after each of the envelopes, and so the last one.
ReduceMany(s, es) ==
    LET after[n \in 0 .. Len(es)] == IF n = 0 THEN s ELSE Apply(after[n - 1], es[n])
    IN  after[Len(es)]

(***************************************************************************)
(* The hub.                                                                *)
(***************************************************************************)
\* sink.send to every subscriber: a sink whose socket closed drops it.
Sent(w, es) ==
    [s \in Sockets |-> IF s \in reg /\ link[s] = "up" THEN w[s] \o es ELSE w[s]]

\* Mutant: the event overtakes the deltas it supersedes.
PublishLate(e) == wire' = Sent(wire, <<e>>) /\ UNCHANGED held

\* publish of a durable envelope: pending deltas first, then the event.
Publish(e)     == wire' = Sent(wire, held \o <<e>>) /\ held' = <<>>

\* Mutant: the coalescer outlives the last subscriber.
RemovedOnly(ss) == reg' = reg \ ss /\ UNCHANGED held

\* remove(): the last subscriber takes the coalescer with it.
Unsubscribed(ss) ==
    /\ reg' = reg \ ss
    /\ held' = IF reg' = {} THEN <<>> ELSE held

(***************************************************************************)
(* The journal.                                                            *)
(***************************************************************************)
Init ==
    /\ up = TRUE /\ live = FALSE /\ cached = FALSE
    /\ epoch = 0 /\ minted = 0 /\ rows = <<>> /\ bad = {}
    /\ reg = {} /\ held = <<>>
    /\ link = [s \in Sockets |-> "free"]
    /\ url = [s \in Sockets |-> Null]
    /\ wire = [s \in Sockets |-> <<>>]
    /\ mode = "away" /\ asked = Null /\ page = NoPage
    /\ cur = 0 /\ since = Null /\ batch = <<>> /\ snap = Empty
    /\ rendered = "none" /\ resync = "idle" /\ answer = NoPage
    /\ nextBefore = Null /\ older = NoPage
    /\ version = 0 /\ deltas = 0 /\ trouble = <<>>
    /\ first = 1 /\ calm = TRUE

Trouble(kind) ==
    /\ \E course \in Courses : IsPrefix(Append(trouble, kind), course)
    /\ trouble' = Append(trouble, kind)

\* openEpoch: a row whose epoch has events keeps it, any other gets a new one.
OpenEpoch ==
    IF epoch # 0 /\ LastSeq > 0
    THEN UNCHANGED <<epoch, minted>>
    ELSE epoch' = minted + 1 /\ minted' = minted + 1

\* appendEnvelope, then the hub's publish, in one synchronous call.
AppendEnvelope(e, i) ==
    /\ version < MaxVersion
    /\ version' = version + 1
    /\ LET row == [item |-> i, ver |-> version + 1]
       IN  rows' = Append(rows, row) /\ Publish(Durable(e, LastSeq + 1, row))

\* open() and LiveSession.start, whose first step journals "starting".
OpenSession ==
    /\ up /\ ~live /\ bad = {}
    /\ OpenEpoch
    /\ live' = TRUE /\ cached' = TRUE
    /\ AppendEnvelope(epoch', State)
    /\ UNCHANGED <<up, bad, reg, link, url, seedVars, paneVars, deltas, trouble,
                   first, calm>>

\* open(), then live.create throws: ManagedChatOperations leaves the row.
OpenVoid ==
    /\ up /\ ~live /\ bad = {}
    /\ Trouble("void")
    /\ OpenEpoch
    /\ cached' = TRUE
    /\ UNCHANGED <<up, live, rows, bad, hubVars, netVars, seedVars, paneVars,
                   version, deltas, first, calm>>

AppendEvent(i) ==
    /\ up /\ live
    /\ AppendEnvelope(epoch, i)
    /\ UNCHANGED <<up, live, cached, epoch, minted, bad, reg, link, url, seedVars,
                   paneVars, deltas, trouble, first, calm>>

Latest(i, n) ==
    LET about == {k \in 1 .. n : k <= LastSeq /\ rows[k].item = i}
    IN  IF about = {} THEN 0 ELSE rows[CHOOSE k \in about : \A j \in about : j <= k].ver

\* publish of a delta: dropped without subscribers, else held for the timer.
PublishDelta(i) ==
    /\ up /\ live /\ reg # {}
    /\ deltas < MaxDelta
    /\ deltas' = deltas + 1
    /\ held' = Append(held, Delta(i, Latest(i, LastSeq)))
    /\ UNCHANGED <<hostVars, reg, netVars, seedVars, paneVars, version, trouble,
                   first, calm>>

FlushDeltas ==
    /\ up /\ held # <<>>
    /\ wire' = Sent(wire, held)
    /\ held' = <<>>
    /\ UNCHANGED <<hostVars, reg, link, url, seedVars, paneVars, histVars>>

\* subscribe(): flush, replay (or the reset), then register.
Subscribe(s) ==
    LET replay == IF url[s] = Null THEN ReadPage(Null, BootstrapLimit)
                  ELSE ReadSince(url[s])
        frames == IF replay.ok THEN replay.rows ELSE <<Reset(replay.why)>>
    IN  /\ up /\ link[s] = "dialing"
        /\ link' = [link EXCEPT ![s] = "up"]
        /\ wire' = [Sent(wire, held) EXCEPT ![s] = frames]
        /\ held' = <<>>
        /\ reg' = reg \cup {s}
        /\ UNCHANGED <<hostVars, url, seedVars, paneVars, histVars>>

\* The route's onClose: the server learns that the socket is gone.
Unsubscribe(s) ==
    /\ up /\ link[s] = "cut"
    /\ Unsubscribed({s})
    /\ link' = [link EXCEPT ![s] = "free"]
    /\ UNCHANGED <<hostVars, url, wire, seedVars, paneVars, histVars>>

HostCrash ==
    /\ up /\ Trouble("crash")
    /\ up' = FALSE /\ live' = FALSE /\ cached' = FALSE
    /\ reg' = {} /\ held' = <<>>
    /\ link' = [s \in Sockets |-> IF link[s] = "cut" THEN "free" ELSE link[s]]
    /\ UNCHANGED <<epoch, minted, rows, bad, url, wire, seedVars, paneVars,
                   version, deltas, first, calm>>

HostRestart ==
    /\ ~up /\ up' = TRUE
    /\ UNCHANGED <<live, cached, epoch, minted, rows, bad, hubVars, netVars,
                   seedVars, paneVars, histVars>>

\* The host comes back to a chat.db that lost the session's events but not
\* its row.
RestartWithoutJournal ==
    /\ "loss" \in Restarts
    /\ ~up /\ up' = TRUE
    /\ rows # <<>> /\ rows' = <<>> /\ bad' = {}
    /\ calm' = (mode = "away")
    /\ UNCHANGED <<live, cached, epoch, minted, hubVars, netVars, seedVars, paneVars,
                   version, deltas, trouble, first>>

\* The host comes back and cannot parse a row (one is enough), as after a
\* downgrade.
RestartWithBadRow(k) ==
    /\ "bad" \in Restarts
    /\ ~up /\ up' = TRUE
    /\ bad = {} /\ bad' = {k}
    /\ UNCHANGED <<live, cached, epoch, minted, rows, hubVars, netVars, seedVars,
                   paneVars, histVars>>

(***************************************************************************)
(* The pane mounts and seeds itself.                                       *)
(***************************************************************************)
Mount ==
    /\ mode = "away" /\ epoch # 0
    /\ mode' = "opening"
    /\ calm' = TRUE
    /\ UNCHANGED <<hostVars, hubVars, netVars, asked, page, paneVars, version,
                   deltas, trouble, first>>

\* getSession: the row's epoch and the journal cache's last seq.
ServeSession ==
    /\ up /\ mode = "opening" /\ (cached \/ bad = {})
    /\ cached' = TRUE
    /\ asked' = At(epoch, LastSeq) /\ mode' = "paging"
    /\ UNCHANGED <<up, live, epoch, minted, rows, bad, hubVars, netVars, page,
                   paneVars, histVars>>

ServeItems ==
    /\ up /\ mode = "paging"
    /\ page' = ReadPage(Null, PageSize) /\ mode' = "seeding"
    /\ UNCHANGED <<hostVars, hubVars, netVars, asked, paneVars, histVars>>

\* A request of seed() rejects: nothing tries again, the pane stays "loading".
SeedFails ==
    /\ \/ ~up /\ mode \in {"opening", "paging", "seeding"}
       \/ mode = "opening" /\ ~cached /\ bad # {}
    /\ mode' = "stuck"
    /\ UNCHANGED <<hostVars, hubVars, netVars, asked, page, paneVars, histVars>>

\* connect(): a socket whose url carries the cursor.
Dial(s, c) ==
    /\ link[s] = "free"
    /\ cur' = s
    /\ link' = [link EXCEPT ![s] = "dialing"]
    /\ url' = [url EXCEPT ![s] = c]
    /\ wire' = [wire EXCEPT ![s] = <<>>]

Seeded == IF page.ok THEN ReduceMany(Empty, page.rows) ELSE Empty

\* Mutant: the stream starts at getSession's cursor, read before the page.
SessionCursor == asked

SeedCursor == IF Seeded.cursor # Null THEN Seeded.cursor ELSE asked

Seed(s) ==
    /\ mode = "seeding" /\ mode' = "ready"
    /\ snap' = Seeded
    /\ nextBefore' = page.next
    /\ since' = SeedCursor
    /\ Dial(s, SeedCursor)
    /\ first' = IF page.rows = <<>> THEN asked.seq + 1 ELSE page.rows[1].at.seq
    /\ UNCHANGED <<hostVars, hubVars, asked, page, batch, rendered, resync, answer,
                   older, version, deltas, trouble, calm>>

\* Mutant: the server never hears of it and keeps the slot.
StaysUp(s) == UNCHANGED link

\* The socket goes away under the pane, or the pane closes it.
Hangup(s) ==
    link' = IF s = 0 THEN link
            ELSE [link EXCEPT ![s] = IF s \in reg THEN "cut" ELSE "free"]

Unmount ==
    /\ mode # "away" /\ Trouble("unmount")
    /\ mode' = "away" /\ asked' = Null /\ page' = NoPage
    /\ cur' = 0 /\ since' = Null /\ batch' = <<>> /\ snap' = Empty
    /\ rendered' = "none" /\ resync' = "idle" /\ answer' = NoPage
    /\ nextBefore' = Null /\ older' = NoPage
    /\ first' = 1 /\ calm' = TRUE
    /\ Hangup(cur)
    /\ UNCHANGED <<hostVars, hubVars, url, wire, version, deltas>>

(***************************************************************************)
(* The pane follows the stream.                                            *)
(***************************************************************************)
\* scheduleReconnect's timer.
Reconnect(s) ==
    /\ mode = "ready" /\ cur = 0
    /\ Dial(s, since)
    /\ UNCHANGED <<hostVars, hubVars, seedVars, since, batch, snap, rendered, resync,
                   answer, nextBefore, older, histVars>>

\* onclose: a connection to a dead host fails, a healthy one may drop.
Dropped ==
    /\ cur # 0
    /\ IF cur \in reg \/ (link[cur] = "dialing" /\ up)
       THEN Trouble("drop")
       ELSE UNCHANGED trouble
    /\ cur' = 0
    /\ Hangup(cur)
    /\ UNCHANGED <<hostVars, hubVars, url, wire, seedVars, since, batch, snap,
                   rendered, resync, answer, nextBefore, older, version, deltas,
                   first, calm>>

\* resync() returns at once while resyncingRef is set.
AskResync == IF resync = "idle" THEN "asked" ELSE resync

\* handleFrame, then enqueue.
Receive ==
    /\ cur # 0 /\ link[cur] = "up" /\ wire[cur] # <<>>
    /\ LET e == wire[cur][1]
       IN  /\ since' = CASE e.kind = "durable" -> e.at
                         [] e.kind = "reset" -> Null
                         [] OTHER -> since
           /\ resync' = IF e.kind = "reset" THEN AskResync ELSE resync
           /\ calm' = (calm /\ e.kind # "reset")
           /\ batch' = Append(batch, e)
    /\ wire' = [wire EXCEPT ![cur] = Tail(@)]
    /\ UNCHANGED <<hostVars, hubVars, link, url, seedVars, cur, snap, rendered, answer,
                   nextBefore, older, version, deltas, trouble, first>>

\* The frame callback reduces the whole batch.
Commit ==
    /\ batch # <<>>
    /\ snap' = ReduceMany(snap, batch)
    /\ batch' = <<>>
    /\ UNCHANGED <<hostVars, hubVars, netVars, seedVars, cur, since, rendered, resync,
                   answer, nextBefore, older, histVars>>

\* The effect on snapshot.pendingReset.
Render ==
    /\ mode = "ready" /\ rendered # snap.reset
    /\ rendered' = snap.reset
    /\ resync' = IF snap.reset # "none" THEN AskResync ELSE resync
    /\ UNCHANGED <<hostVars, hubVars, netVars, seedVars, cur, since, batch, snap,
                   answer, nextBefore, older, histVars>>

ServeResync ==
    /\ up /\ resync = "asked"
    /\ resync' = "answered"
    /\ answer' = ReadPage(Null, PageSize)
    /\ UNCHANGED <<hostVars, hubVars, netVars, seedVars, cur, since, batch, snap,
                   rendered, nextBefore, older, histVars>>

\* getItems rejects: the host is down, or the request is lost.
ResyncFails ==
    /\ resync # "idle"
    /\ (~up /\ UNCHANGED trouble) \/ (up /\ Trouble("request"))
    /\ resync' = "idle" /\ answer' = NoPage
    /\ UNCHANGED <<hostVars, hubVars, netVars, seedVars, cur, since, batch, snap,
                   rendered, nextBefore, older, version, deltas, first, calm>>

ApplyResync ==
    /\ resync = "answered"
    /\ resync' = "idle" /\ answer' = NoPage
    /\ IF answer.ok
       THEN /\ nextBefore' = answer.next
            /\ snap' = ReduceMany([snap EXCEPT !.cursor = Null, !.reset = "none"],
                                  answer.rows)
            /\ first' = IF answer.rows = <<>> THEN 1 ELSE answer.rows[1].at.seq
       ELSE UNCHANGED <<nextBefore, snap, first>>
    /\ UNCHANGED <<hostVars, hubVars, netVars, seedVars, cur, since, batch, rendered,
                   older, version, deltas, trouble, calm>>

(***************************************************************************)
(* The pane pages back.                                                    *)
(***************************************************************************)
\* loadOlder's request; a refusal carries the cursor the pane goes back to.
LoadOlder ==
    /\ up /\ nextBefore # Null
    /\ LET reply == ReadPage(nextBefore, PageSize)
       IN  older' = IF reply.ok THEN reply ELSE [reply EXCEPT !.next = nextBefore]
    /\ nextBefore' = Null
    /\ UNCHANGED <<hostVars, hubVars, netVars, seedVars, cur, since, batch, snap,
                   rendered, resync, answer, histVars>>

\* A request that rejects leaves nextBeforeRef null.
LoadOlderFails ==
    /\ ~up /\ nextBefore # Null
    /\ nextBefore' = Null
    /\ UNCHANGED <<hostVars, hubVars, netVars, seedVars, cur, since, batch, snap,
                   rendered, resync, answer, older, histVars>>

ApplyOlder ==
    /\ older # NoPage
    /\ older' = NoPage
    /\ nextBefore' = older.next
    /\ LET old == ReduceMany(Empty, older.rows).items
       IN  snap' = [snap EXCEPT !.items =
                       [i \in Subjects |-> IF @[i] = 0 /\ i # State
                                             THEN old[i] ELSE @[i]]]
    /\ first' = IF older.rows = <<>> THEN first ELSE older.rows[1].at.seq
    /\ UNCHANGED <<hostVars, hubVars, netVars, seedVars, cur, since, batch, rendered,
                   resync, answer, version, deltas, trouble, calm>>

HostSteps ==
    \/ \E i \in Subjects : AppendEvent(i)
    \/ \E i \in Items : PublishDelta(i)
    \/ OpenSession \/ OpenVoid \/ FlushDeltas
    \/ \E s \in Sockets : Subscribe(s) \/ Unsubscribe(s)
    \/ HostCrash \/ HostRestart \/ RestartWithoutJournal
    \/ \E k \in 1 .. LastSeq : RestartWithBadRow(k)
    \/ ServeSession \/ ServeItems \/ ServeResync

PaneSteps ==
    \/ Mount \/ SeedFails \/ Unmount
    \/ \E s \in Sockets : Seed(s) \/ Reconnect(s)
    \/ Dropped \/ Receive \/ Commit \/ Render
    \/ ResyncFails \/ ApplyResync
    \/ LoadOlder \/ LoadOlderFails \/ ApplyOlder

Next == HostSteps \/ PaneSteps

Spec == Init /\ [][Next]_vars

\* Timers fire, requests are answered while the host runs, sockets deliver.
\* Steps that wait for one another share one conjunct.
Fairness ==
    /\ WF_vars(HostRestart)
    /\ WF_vars(FlushDeltas)
    /\ WF_vars(ServeSession \/ ServeItems \/ \E s \in Sockets : Seed(s))
    /\ WF_vars(\E s \in Sockets : Reconnect(s) \/ Subscribe(s))
    /\ WF_vars(\E s \in Sockets : Unsubscribe(s))
    /\ WF_vars(Dropped /\ trouble' = trouble)
    /\ WF_vars(Receive)
    /\ WF_vars(Commit)
    /\ WF_vars(Render)
    /\ WF_vars(ServeResync \/ ApplyResync)

FairSpec == Spec /\ Fairness

(***************************************************************************)
(* Properties.                                                             *)
(***************************************************************************)
Cursors   == [epoch : 0 .. minted, seq : 0 .. MaxVersion]
Row       == [item : Subjects, ver : 1 .. MaxVersion]
Envelopes ==
    [kind : {"durable"}, at : Cursors, item : Subjects, ver : 1 .. MaxVersion]
    \cup [kind : {"delta"}, at : {Null}, item : Items, ver : 0 .. MaxVersion]
    \cup {Reset(w) : w \in {"session_not_found", "epoch_changed",
                             "journal_missing", "invalid_cursor"}}

\* A WebSocket the hub still serves is one the pane opened and the server has
\* not seen close; only a host that runs serves anything.
TypeOK ==
    /\ rows \in Seq(Row) /\ epoch \in 0 .. minted /\ bad \subseteq 1 .. LastSeq
    /\ rows # <<>> => epoch # 0
    /\ live => up /\ cached
    /\ \A s \in reg : up /\ link[s] \in {"up", "cut"}
    /\ reg = {} => held = <<>>
    /\ link \in [Sockets -> {"free", "dialing", "up", "cut"}]
    /\ \A s \in Sockets : wire[s] \in Seq(Envelopes)
    /\ batch \in Seq(Envelopes) /\ held \in Seq(Envelopes)
    /\ cur \in Sockets \cup {0} /\ (cur # 0 => link[cur] \in {"dialing", "up"})
    /\ since \in Cursors /\ snap.cursor \in Cursors
    /\ snap.items \in [Subjects -> 0 .. MaxVersion]

Places(frames, kind) == {k \in DOMAIN frames : frames[k].kind = kind}
Seqs(frames)         == {frames[k].at.seq : k \in Places(frames, "durable")}

\* Each durable frame follows the one before it: in order and without a hole.
Contiguous(frames) ==
    \A j, k \in Places(frames, "durable") :
        /\ frames[j].at.epoch = frames[k].at.epoch
        /\ j < k => frames[j].at.seq < frames[k].at.seq
        /\ frames[j].at.seq .. frames[k].at.seq \subseteq Seqs(frames)

\* What comes next after a cursor of the same epoch is the row that follows it.
Continues(frames, c) ==
    \A k \in Places(frames, "durable") :
        frames[k].at.epoch = c.epoch =>
            c.seq < frames[k].at.seq /\ c.seq + 1 \in Seqs(frames)

\* The frames end where the journal does; without any, the cursor is there.
UpToDate(frames, c, end) ==
    /\ \A k \in Places(frames, "durable") :
          /\ frames[k].at.epoch = end.epoch /\ frames[k].at.seq <= end.seq
          /\ end.seq \in Seqs(frames)
    /\ c.epoch = end.epoch /\ Places(frames, "durable") = {} => c.seq = end.seq

\* A reset voids the cursor.
From(frames, c) == IF Places(frames, "reset") = {} THEN c ELSE Null

\* The connected pane receives every event once and in order: what is on its
\* wire has no hole, continues the cursor it would reconnect with, and ends at
\* the journal's last row; only a reset excuses it from the last two.
\* subscribe() replays and registers in one step, and publish() sends to
\* whoever is registered.
StreamHasNoHoles ==
    cur # 0 /\ link[cur] = "up" =>
        /\ Contiguous(wire[cur])
        /\ Continues(wire[cur], From(wire[cur], since))
        /\ cur \in reg =>
              UpToDate(wire[cur], From(wire[cur], since), At(epoch, LastSeq))

\* The seq the pane has taken its window up to.
Reached == IF snap.cursor = Null THEN first - 1 ELSE snap.cursor.seq

\* Text that streams into an item continues the version the pane has of it:
\* publish() flushes held deltas before the event that supersedes them, and
\* the reducer drops a live stream when that event arrives.
LiveTextExtendsLatest ==
    calm /\ mode = "ready" =>
        \A i \in Items : snap.live[i] \subseteq {Latest(i, Reached)}

Log == INSTANCE ChatLog WITH
    Others <- {State},
    Versions <- 1 .. MaxVersion,
    log <- rows,
    reader <- IF mode # "ready" THEN "away" ELSE IF calm THEN "following" ELSE "lost",
    from <- IF mode = "ready" THEN first ELSE 1,
    to <- IF mode = "ready" THEN Reached ELSE 0,
    shown <- [i \in Items |-> snap.items[i]]

\* The pane implements ChatLog: through drops, reconnects, frame batches and
\* paging, the screen is the effect of one contiguous window of the journal
\* that never moves back, until a reset.
ShowsOneWindow == Log!Spec

\* The screen has the newest version of every item the pane's window covers.
Current ==
    \A i \in Items :
        LET v == Log!VersionOf(rows, i, first, LastSeq)
        IN  v # 0 => snap.items[i] = v

\* A pane that stays mounted and is never reset ends up current: the backoff,
\* the replay and the frame callback see to it.
FollowsToTheEnd == <>[](mode = "ready" /\ calm) => <>[]Current
=============================================================================

--------------------------- MODULE PtyDaemonProofs ---------------------------
(***************************************************************************)
(* Proofs about PtyDaemon for every set of ids and connections, every      *)
(* number of PTYs and chunks and every threshold the assumptions allow.    *)
(***************************************************************************)
EXTENDS PtyDaemon, TLAPS

\* A store row belongs to the newest PTY opened under its id, whose exit
\* callback has not fired.
RowInv ==
    \A i \in Ids : store[i] # 0 =>
        /\ store[i] <= born
        /\ idOf[store[i]] = i
        /\ phase[store[i]] \in {"live", "closed"}
        /\ \A q \in Ptys : q <= born /\ idOf[q] = i => q <= store[i]

\* PTYs still to be spawned have left no trace.
UnbornInv ==
    /\ \A p \in Ptys : p > born => phase[p] = "unborn" /\ ~paused[p]
    /\ \A c \in Conns : \A k \in DOMAIN out[c] : out[c][k].pty <= born

\* What a connection holds is matched by its socket: a full buffer to flush,
\* or a destroyed socket whose 'close' is to come.
SocketInv ==
    \A c \in Conns :
        /\ held[c] # {} => conn[c] = "destroyed" \/ (IsOpen(c) /\ needDrain[c])
        /\ needDrain[c] /\ IsOpen(c) => out[c] # <<>>
        /\ conn[c] = "free" => ~needDrain[c] /\ held[c] = {}
        /\ ~IsOpen(c) => out[c] = <<>>

\* The pause of a live PTY is recorded at a connection, and at every connection
\* whose buffer holds live output of it beyond the threshold.
PauseInv ==
    /\ \A p \in Ptys : Live(p) /\ paused[p] => \E c \in Conns : idOf[p] \in held[c]
    /\ \A c \in Conns : \A k \in DOMAIN out[c] :
          k > PauseThreshold /\ out[c][k].kind = "live" /\ Live(out[c][k].pty) =>
              paused[out[c][k].pty] /\ idOf[out[c][k].pty] \in held[c]

\* A client follows shells that run or were closed. One that is still in the
\* store it is subscribed to, so its output comes; no exit of it waits.
Following ==
    \A c \in Conns : \A p \in whole[c] :
        /\ InConns(c) /\ phase[p] \in {"live", "closed"}
        /\ store[idOf[p]] = p => idOf[p] \in subs[c]
        /\ \A k \in DOMAIN out[c] : out[c][k].pty = p => out[c][k].kind # "exit"

FollowInv == Following /\ ReplayThenLive

Inv ==
    /\ TypeOK
    /\ LiveReachable
    /\ RowInv
    /\ UnbornInv
    /\ SocketInv
    /\ PauseInv
    /\ ExitBeforeSuccessorOutput
    /\ FollowInv

-----------------------------------------------------------------------------
(* The writes to sockets. *)

\* Appending units of the right type to a typed queue keeps it typed.
LEMMA ConcatType ==
    ASSUME NEW S, NEW s \in Seq(S), NEW t \in Seq(S)
    PROVE  /\ s \o t \in Seq(S)
           /\ Len(s \o t) = Len(s) + Len(t)
           /\ \A k \in DOMAIN (s \o t) :
                 /\ k \in Nat /\ k > 0
                 /\ k \in DOMAIN s => (s \o t)[k] = s[k]
                 /\ k \notin DOMAIN s => /\ k - Len(s) \in DOMAIN t
                                         /\ (s \o t)[k] = t[k - Len(s)]
OBVIOUS

\* What the peer has not read yet moves one place forward.
LEMMA TailType ==
    ASSUME NEW S, NEW s \in Seq(S), s # <<>>
    PROVE  /\ Tail(s) \in Seq(S)
           /\ Len(Tail(s)) = Len(s) - 1
           /\ Head(s) \in S
           /\ \A k \in DOMAIN Tail(s) : k + 1 \in DOMAIN s /\ Tail(s)[k] = s[k + 1]
OBVIOUS

\* A send leaves every connection variable typed and no buffer above the cap.
LEMMA SendType ==
    ASSUME TypeOK, NEW T, NEW units \in Seq(Unit), SendTo(T, units)
    PROVE  /\ conn' \in [Conns -> {"free", "fresh", "ready", "destroyed"}]
           /\ out' \in [Conns -> Seq(Unit)]
           /\ needDrain' \in [Conns -> BOOLEAN]
           /\ \A c \in Conns : Len(out'[c]) <= OutboundCap
<1> USE DEF SendTo, IsOpen, Fits, TypeOK
<1>1. conn' \in [Conns -> {"free", "fresh", "ready", "destroyed"}]
  OBVIOUS
<1>2. ASSUME NEW c \in Conns
      PROVE  out'[c] \in Seq(Unit) /\ Len(out'[c]) <= OutboundCap
  <2>1. /\ out[c] \o units \in Seq(Unit)
        /\ Len(out[c] \o units) = Len(out[c]) + Len(units)
    BY ConcatType
  <2>2. <<>> \in Seq(Unit) /\ Len(<<>>) <= OutboundCap
    BY ThresholdAssumption
  <2> QED
    BY <2>1, <2>2
<1>3. needDrain' \in [Conns -> BOOLEAN]
  OBVIOUS
<1> QED
  BY <1>1, <1>2, <1>3

-----------------------------------------------------------------------------
(* Type correctness. *)

\* The zeros and empty queues the actions reset to are in their types.
LEMMA Zeros ==
    /\ 0 \in 0 .. MaxPty /\ 0 \in 0 .. MaxChunk
    /\ <<>> \in Seq(Unit) /\ Len(<<>>) = 0 /\ 0 <= OutboundCap
  BY BoundsAssumption, ThresholdAssumption

\* The replay frames are units of the buffer's length.
LEMMA ReplayType ==
    ASSUME TypeOK, NEW p \in Ptys
    PROVE  Replay(p) \in Seq(Unit)
<1>1. made[p] - evicted[p] \in Nat
  BY DEF TypeOK
<1>2. \A k \in 1 .. (made[p] - evicted[p]) : Replayed(p, evicted[p] + k) \in Unit
  <2> SUFFICES ASSUME NEW k \in 1 .. (made[p] - evicted[p])
               PROVE  Replayed(p, evicted[p] + k) \in Unit
    OBVIOUS
  <2>1. evicted[p] \in 0 .. MaxChunk /\ made[p] \in 0 .. MaxChunk
    BY DEF TypeOK
  <2>2. evicted[p] + k \in 0 .. MaxChunk
    BY <2>1, BoundsAssumption
  <2> QED
    BY <2>2 DEF Replayed, Unit
<1> QED
  BY <1>1, <1>2 DEF Replay

LEMMA TypeInit == Init => TypeOK
<1> SUFFICES ASSUME Init PROVE TypeOK
  OBVIOUS
<1>1. (CHOOSE i \in Ids : TRUE) \in Ids
  BY BoundsAssumption
<1>2. idOf \in [Ptys -> Ids]
  BY <1>1 DEF Init
<1>3. /\ \A p \in Ptys : evicted[p] <= made[p] /\ made[p] <= evicted[p] + BufferCap
      /\ \A c \in Conns : Len(out[c]) <= OutboundCap
  BY Zeros, BoundsAssumption DEF Init
<1>4. /\ store \in [Ids -> 0 .. MaxPty]
      /\ born \in 0 .. MaxPty
      /\ made \in [Ptys -> 0 .. MaxChunk]
      /\ evicted \in [Ptys -> 0 .. MaxChunk]
      /\ out \in [Conns -> Seq(Unit)]
      /\ seen \in [Conns -> [Ptys -> 0 .. MaxChunk]]
  BY Zeros DEF Init
<1> QED
  BY <1>2, <1>3, <1>4 DEF Init, TypeOK

LEMMA TypeStep == TypeOK /\ [Next]_vars => TypeOK'
<1> SUFFICES ASSUME TypeOK, [Next]_vars
             PROVE  TypeOK'
  OBVIOUS
<1> USE Zeros
<1>1. ASSUME NEW c \in Conns, Connect(c) PROVE TypeOK'
  BY <1>1 DEF TypeOK, Connect, ptyVars, histVars, Ptys
<1>2. ASSUME NEW c \in Conns, Hello(c) PROVE TypeOK'
  BY <1>2 DEF TypeOK, Hello, ptyVars, histVars, Ptys
<1>3. ASSUME NEW c \in Conns, Reject(c) PROVE TypeOK'
  <2>1. out' \in [Conns -> Seq(Unit)] /\ \A d \in Conns : Len(out'[d]) <= OutboundCap
    BY <1>3 DEF TypeOK, Reject
  <2> QED
    BY <1>3, <2>1 DEF TypeOK, Reject, ptyVars, histVars
<1>4. ASSUME NEW c \in Conns, DropConn(c) PROVE TypeOK'
  <2>1. out' \in [Conns -> Seq(Unit)] /\ \A d \in Conns : Len(out'[d]) <= OutboundCap
    BY <1>4 DEF TypeOK, DropConn
  <2>2. paused' \in [Ptys -> BOOLEAN]
    BY <1>4 DEF TypeOK, DropConn, ResumeFor
  <2>3. seen' \in [Conns -> [Ptys -> 0 .. MaxChunk]]
    BY <1>4 DEF TypeOK, DropConn
  <2> QED
    BY <1>4, <2>1, <2>2, <2>3 DEF TypeOK, DropConn
<1>5. ASSUME NEW c \in Conns, Flush(c) PROVE TypeOK'
  <2>1. /\ Tail(out[c]) \in Seq(Unit)
        /\ Len(Tail(out[c])) = Len(out[c]) - 1
        /\ Head(out[c]) \in Unit
    BY <1>5, TailType DEF Flush, TypeOK
  <2>2. out' \in [Conns -> Seq(Unit)] /\ \A d \in Conns : Len(out'[d]) <= OutboundCap
    <3>1. out' = [out EXCEPT ![c] = Tail(out[c])]
      BY <1>5 DEF Flush
    <3>2. Len(Tail(out[c])) <= OutboundCap
      BY <2>1, ThresholdAssumption DEF TypeOK
    <3> QED
      BY <2>1, <3>1, <3>2 DEF TypeOK
  <2>3. seen' \in [Conns -> [Ptys -> 0 .. MaxChunk]]
    <3>1. Head(out[c]).pty \in Ptys /\ Head(out[c]).n \in 0 .. MaxChunk
      BY <2>1 DEF Unit
    <3> QED
      BY <1>5, <3>1 DEF Flush, TypeOK
  <2>4. paused' \in [Ptys -> BOOLEAN]
    BY <1>5 DEF Flush, TypeOK, ResumeFor
  <2> QED
    BY <1>5, <2>2, <2>3, <2>4 DEF Flush, TypeOK, Ptys
<1>6. ASSUME NEW c \in Conns, NEW i \in Ids, Open(c, i) PROVE TypeOK'
  <2>1. born + 1 \in Ptys /\ born + 1 \in 0 .. MaxPty
    BY <1>6 DEF TypeOK, Open, Ptys
  <2>2. /\ born' = born + 1
        /\ store' = [store EXCEPT ![i] = born + 1]
        /\ idOf' = [idOf EXCEPT ![born + 1] = i]
        /\ phase' = [phase EXCEPT ![born + 1] = "live"]
    BY <1>6 DEF Open
  <2>3. store' \in [Ids -> 0 .. MaxPty]
    BY <2>1, <2>2 DEF TypeOK
  <2> QED
    BY <1>6, <2>1, <2>2, <2>3 DEF TypeOK, Open, connVars, histVars
<1>7. ASSUME NEW c \in Conns, NEW i \in Ids, OpenFails(c, i) PROVE TypeOK'
  <2>1. store' = [store EXCEPT ![i] = 0]
    BY <1>7 DEF OpenFails
  <2>2. store' \in [Ids -> 0 .. MaxPty]
    BY <2>1 DEF TypeOK
  <2> QED
    BY <1>7, <2>2 DEF TypeOK, OpenFails, connVars, histVars
<1>8. ASSUME NEW c \in Conns, NEW i \in Ids, Close(c, i) PROVE TypeOK'
  BY <1>8 DEF TypeOK, Close, connVars, histVars, Ptys
<1>9. ASSUME NEW c \in Conns, NEW i \in Ids, NEW replay \in BOOLEAN, Subscribe(c, i, replay)
      PROVE  TypeOK'
  <2> DEFINE units == IF replay THEN Replay(store[i]) ELSE <<>>
  <2>1. store[i] \in Ptys
    BY <1>9 DEF TypeOK, Subscribe, Ptys
  <2>2. units \in Seq(Unit)
    BY <2>1, ReplayType
  <2>3. SendTo({c}, units)
    BY <1>9 DEF Subscribe
  <2> HIDE DEF units
  <2>4. /\ conn' \in [Conns -> {"free", "fresh", "ready", "destroyed"}]
        /\ out' \in [Conns -> Seq(Unit)]
        /\ needDrain' \in [Conns -> BOOLEAN]
        /\ \A d \in Conns : Len(out'[d]) <= OutboundCap
    BY <2>2, <2>3, SendType
  <2>5. /\ subs' \in [Conns -> SUBSET Ids]
        /\ whole' \in [Conns -> SUBSET Ptys]
        /\ seen' \in [Conns -> [Ptys -> 0 .. MaxChunk]]
    BY <1>9, <2>1 DEF TypeOK, Subscribe
  <2> QED
    BY <1>9, <2>4, <2>5 DEF TypeOK, Subscribe, ptyVars, Ptys
<1>10. ASSUME NEW c \in Conns, NEW i \in Ids, Unsubscribe(c, i) PROVE TypeOK'
  <2>1. subs' \in [Conns -> SUBSET Ids]
    BY <1>10 DEF TypeOK, Unsubscribe
  <2>2. whole' \in [Conns -> SUBSET Ptys]
    BY <1>10 DEF TypeOK, Unsubscribe, Forget
  <2>3. seen' \in [Conns -> [Ptys -> 0 .. MaxChunk]]
    BY <1>10 DEF TypeOK, Unsubscribe, Forget
  <2> QED
    BY <1>10, <2>1, <2>2, <2>3 DEF TypeOK, Unsubscribe, ptyVars, Ptys
<1>11. ASSUME NEW p \in Ptys, Output(p) PROVE TypeOK'
  <2>1. <<Chunk(p, made[p] + 1)>> \in Seq(Unit)
    BY <1>11 DEF Output, TypeOK, Chunk, Unit
  <2>2. /\ conn' \in [Conns -> {"free", "fresh", "ready", "destroyed"}]
        /\ out' \in [Conns -> Seq(Unit)]
        /\ needDrain' \in [Conns -> BOOLEAN]
        /\ \A d \in Conns : Len(out'[d]) <= OutboundCap
    BY <1>11, <2>1, SendType DEF Output
  <2>3. /\ made' \in [Ptys -> 0 .. MaxChunk]
        /\ evicted' \in [Ptys -> 0 .. MaxChunk]
        /\ \A q \in Ptys : evicted'[q] <= made'[q] /\ made'[q] <= evicted'[q] + BufferCap
    BY <1>11, BoundsAssumption DEF Output, TypeOK, EvictedAfter
  <2>4. held' \in [Conns -> SUBSET Ids] /\ paused' \in [Ptys -> BOOLEAN]
    BY <1>11 DEF Output, TypeOK
  <2> QED
    BY <1>11, <2>2, <2>3, <2>4 DEF Output, TypeOK, histVars
<1>12. ASSUME NEW p \in Ptys, Exit(p) PROVE TypeOK'
  <2>a. /\ phase' = [phase EXCEPT ![p] = "dead"]
        /\ paused' = [paused EXCEPT ![p] = FALSE]
        /\ made' = [made EXCEPT ![p] = 0]
        /\ evicted' = [evicted EXCEPT ![p] = 0]
        /\ UNCHANGED <<born, idOf>>
    BY <1>12 DEF Exit
  <2>b. /\ phase' \in [Ptys -> {"unborn", "live", "closed", "dead"}]
        /\ paused' \in [Ptys -> BOOLEAN]
        /\ made' \in [Ptys -> 0 .. MaxChunk]
        /\ evicted' \in [Ptys -> 0 .. MaxChunk]
    BY <2>a DEF TypeOK
  <2>c. ASSUME NEW q \in Ptys
        PROVE  evicted'[q] <= made'[q] /\ made'[q] <= evicted'[q] + BufferCap
    BY <2>a, BoundsAssumption DEF TypeOK
  <2>d. whole' \in [Conns -> SUBSET Ptys] /\ seen' \in [Conns -> [Ptys -> 0 .. MaxChunk]]
    BY <1>12 DEF Exit, TypeOK, Forget
  <2>1. UNCHANGED <<born, idOf>>
    BY <2>a
  <2>2. <<ExitOf(p)>> \in Seq(Unit)
    BY DEF ExitOf, Unit
  <2>3. CASE OwnsRow(p)
    <3>1. SendTo(Subscribed(p), <<ExitOf(p)>>)
      BY <1>12, <2>3 DEF Exit
    <3>2. /\ conn' \in [Conns -> {"free", "fresh", "ready", "destroyed"}]
          /\ out' \in [Conns -> Seq(Unit)]
          /\ needDrain' \in [Conns -> BOOLEAN]
          /\ \A d \in Conns : Len(out'[d]) <= OutboundCap
      BY <2>2, <3>1, SendType
    <3>3. subs' \in [Conns -> SUBSET Ids]
      BY <1>12, <2>3 DEF Exit, TypeOK
    <3>4. held' \in [Conns -> SUBSET Ids]
      BY <1>12, <2>3 DEF Exit, TypeOK
    <3>5. store' \in [Ids -> 0 .. MaxPty]
      <4>1. store' = [store EXCEPT ![idOf[p]] = 0]
        BY <1>12, <2>3 DEF Exit
      <4> QED
        BY <4>1 DEF TypeOK
    <3> QED
      BY <2>1, <2>b, <2>c, <2>d, <3>2, <3>3, <3>4, <3>5 DEF TypeOK
  <2>4. CASE ~OwnsRow(p)
    BY <1>12, <2>1, <2>b, <2>c, <2>d, <2>4 DEF Exit, TypeOK, connVars
  <2> QED
    BY <2>3, <2>4
<1>13. CASE UNCHANGED vars
  BY <1>13 DEF TypeOK, vars, ptyVars, connVars, histVars, Ptys
<1> QED
  BY <1>1, <1>2, <1>3, <1>4, <1>5, <1>6, <1>7, <1>8, <1>9, <1>10, <1>11, <1>12, <1>13
     DEF Next

\* Every variable keeps its type, no replay buffer and no outbound buffer
\* outgrows its cap.
THEOREM TypeCorrect == Spec => []TypeOK
  BY TypeInit, TypeStep, PTL DEF Spec

-----------------------------------------------------------------------------
(* The store: no shell loses its row. *)

LEMMA RowStep ==
    ASSUME TypeOK, LiveReachable, RowInv, [Next]_vars
    PROVE  LiveReachable' /\ RowInv'
<1> USE DEF Live
<1>1. CASE UNCHANGED <<store, born, idOf, phase>>
  BY <1>1 DEF LiveReachable, RowInv
<1>2. ASSUME NEW c \in Conns, NEW i \in Ids, Open(c, i)
      PROVE  LiveReachable' /\ RowInv'
  <2>1. /\ born + 1 \in Ptys /\ born \in Nat
        /\ born' = born + 1
        /\ store' = [store EXCEPT ![i] = born + 1]
        /\ idOf' = [idOf EXCEPT ![born + 1] = i]
        /\ phase' = [phase EXCEPT ![born + 1] = "live"]
        /\ store[i] # 0 => ~Live(store[i])
    BY <1>2 DEF Open, Vacant, TypeOK, Ptys
  <2>2. \A j \in Ids : store[j] # 0 => store[j] \in Ptys /\ store[j] # born + 1
    BY <2>1 DEF RowInv, TypeOK, Ptys
  <2>3. LiveReachable'
    <3> SUFFICES ASSUME NEW p \in Ptys, phase'[p] = "live"
                 PROVE  store'[idOf'[p]] = p
      BY DEF LiveReachable
    <3>1. CASE p = born + 1
      BY <2>1, <3>1 DEF TypeOK
    <3>2. CASE p # born + 1
      <4>1. phase[p] = "live" /\ idOf'[p] = idOf[p] /\ idOf[p] \in Ids
        BY <2>1, <3>2 DEF TypeOK
      <4>2. store[idOf[p]] = p
        BY <4>1 DEF LiveReachable
      <4>3. idOf[p] # i
        BY <2>1, <4>1, <4>2 DEF TypeOK, Ptys
      <4> QED
        BY <2>1, <4>1, <4>2, <4>3 DEF TypeOK
    <3> QED
      BY <3>1, <3>2
  <2>4. RowInv'
    <3> SUFFICES ASSUME NEW j \in Ids, store'[j] # 0
                 PROVE  /\ store'[j] <= born'
                        /\ idOf'[store'[j]] = j
                        /\ phase'[store'[j]] \in {"live", "closed"}
                        /\ \A q \in Ptys : q <= born' /\ idOf'[q] = j => q <= store'[j]
      BY DEF RowInv
    <3>1. CASE j = i
      BY <2>1, <3>1 DEF TypeOK, Ptys
    <3>2. CASE j # i
      <4>1. store'[j] = store[j] /\ store[j] \in Ptys /\ store[j] # born + 1
        BY <2>1, <2>2, <3>2 DEF TypeOK
      <4>2. idOf'[store[j]] = idOf[store[j]] /\ phase'[store[j]] = phase[store[j]]
        BY <2>1, <4>1 DEF TypeOK
      <4>3. ASSUME NEW q \in Ptys, q <= born + 1, idOf'[q] = j
            PROVE  q <= born /\ idOf[q] = j
        BY <2>1, <3>2, <4>3 DEF TypeOK, Ptys
      <4> QED
        BY <2>1, <4>1, <4>2, <4>3 DEF RowInv, TypeOK, Ptys
    <3> QED
      BY <3>1, <3>2
  <2> QED
    BY <2>3, <2>4
<1>3. ASSUME NEW c \in Conns, NEW i \in Ids, OpenFails(c, i)
      PROVE  LiveReachable' /\ RowInv'
  <2>1. /\ store' = [store EXCEPT ![i] = 0]
        /\ store[i] # 0 /\ ~Live(store[i])
        /\ UNCHANGED <<born, idOf, phase>>
    BY <1>3 DEF OpenFails, Vacant
  <2> QED
    BY <2>1 DEF LiveReachable, RowInv, TypeOK
<1>4. ASSUME NEW c \in Conns, NEW i \in Ids, Close(c, i)
      PROVE  LiveReachable' /\ RowInv'
  <2>1. /\ phase' = [phase EXCEPT ![store[i]] = "closed"]
        /\ store[i] \in Ptys
        /\ UNCHANGED <<store, born, idOf>>
    BY <1>4 DEF Close, TypeOK, Ptys
  <2> QED
    BY <2>1 DEF LiveReachable, RowInv, TypeOK
<1>5. ASSUME NEW p \in Ptys, Exit(p)
      PROVE  LiveReachable' /\ RowInv'
  <2>1. phase' = [phase EXCEPT ![p] = "dead"] /\ UNCHANGED <<born, idOf>>
    BY <1>5 DEF Exit
  <2>2. ASSUME NEW j \in Ids, store[j] = p PROVE j = idOf[p]
    <3>1. p # 0
      BY DEF Ptys
    <3> QED
      BY <2>2, <3>1 DEF RowInv
  <2>3. CASE OwnsRow(p)
    <3>1. store' = [store EXCEPT ![idOf[p]] = 0] /\ store[idOf[p]] = p
      BY <1>5, <2>3 DEF Exit, OwnsRow
    <3> QED
      BY <2>1, <2>2, <3>1 DEF LiveReachable, RowInv, TypeOK, Ptys
  <2>4. CASE ~OwnsRow(p)
    <3>1. UNCHANGED store /\ store[idOf[p]] # p
      BY <1>5, <2>4 DEF Exit, OwnsRow
    <3> QED
      BY <2>1, <2>2, <3>1 DEF LiveReachable, RowInv, TypeOK, Ptys
  <2> QED
    BY <2>3, <2>4
<1> QED
  BY <1>1, <1>2, <1>3, <1>4, <1>5
     DEF Next, Connect, Hello, Reject, DropConn, Flush, Subscribe, Unsubscribe, Output,
         vars, ptyVars

-----------------------------------------------------------------------------
(* Sockets: a held pause is matched by a drain or a 'close' to come. *)

\* What a send does to one connection.
LEMMA SendEffect ==
    ASSUME TypeOK, NEW T, NEW units \in Seq(Unit), SendTo(T, units), NEW c \in Conns
    PROVE  \/ /\ conn'[c] = conn[c] /\ out'[c] = out[c] /\ needDrain'[c] = needDrain[c]
              /\ c \notin T \/ ~IsOpen(c)
           \/ /\ c \in T /\ IsOpen(c) /\ Fits(c, units)
              /\ conn'[c] = conn[c] /\ out'[c] = out[c] \o units
              /\ needDrain'[c] <=> needDrain[c] \/ Len(out[c]) + Len(units) >= HighWater
           \/ /\ c \in T /\ IsOpen(c) /\ ~Fits(c, units)
              /\ conn'[c] = "destroyed" /\ out'[c] = <<>> /\ needDrain'[c] = needDrain[c]
<1>1. needDrain[c] \in BOOLEAN /\ conn[c] \in {"free", "fresh", "ready", "destroyed"}
  BY DEF TypeOK
<1>2. CASE c \notin T \/ ~IsOpen(c)
  BY <1>1, <1>2 DEF SendTo
<1>3. CASE c \in T /\ IsOpen(c) /\ Fits(c, units)
  BY <1>1, <1>3 DEF SendTo
<1>4. CASE c \in T /\ IsOpen(c) /\ ~Fits(c, units)
  BY <1>1, <1>4 DEF SendTo
<1> QED
  BY <1>2, <1>3, <1>4

\* A unit in a buffer after a send was there before or is one of those sent.
LEMMA SendUnits ==
    ASSUME TypeOK, NEW T, NEW units \in Seq(Unit), SendTo(T, units),
           NEW c \in Conns, NEW k \in DOMAIN out'[c]
    PROVE  \/ k \in DOMAIN out[c] /\ out'[c][k] = out[c][k]
           \/ /\ k \in Nat /\ k \notin DOMAIN out[c]
              /\ c \in T /\ IsOpen(c) /\ Fits(c, units)
              /\ k - Len(out[c]) \in DOMAIN units
              /\ out'[c][k] = units[k - Len(out[c])]
<1>1. out[c] \in Seq(Unit)
  BY DEF TypeOK
<1>2. CASE out'[c] = out[c]
  BY <1>2
<1>3. CASE out'[c] = out[c] \o units /\ c \in T /\ IsOpen(c) /\ Fits(c, units)
  <2>1. /\ k \in Nat
        /\ k \in DOMAIN out[c] => out'[c][k] = out[c][k]
        /\ k \notin DOMAIN out[c] => /\ k - Len(out[c]) \in DOMAIN units
                                    /\ out'[c][k] = units[k - Len(out[c])]
    BY <1>1, <1>3, ConcatType
  <2> QED
    BY <1>3, <2>1
<1>4. CASE out'[c] = <<>>
  BY <1>4
<1> QED
  BY <1>2, <1>3, <1>4, SendEffect

\* A send keeps SocketInv, and lets a connection it leaves open and over the
\* pause threshold begin to hold a pause.
LEMMA SendSocket ==
    ASSUME TypeOK, SocketInv, NEW T, NEW units \in Seq(Unit), SendTo(T, units),
           \A c \in Conns :
              \/ held'[c] \subseteq held[c]
              \/ /\ c \in T /\ IsOpen(c) /\ Fits(c, units)
                 /\ Len(out[c]) + Len(units) > PauseThreshold
    PROVE  SocketInv'
<1> SUFFICES ASSUME NEW c \in Conns
             PROVE  /\ held'[c] # {} => conn'[c] = "destroyed" \/ (IsOpen(c)' /\ needDrain'[c])
                    /\ needDrain'[c] /\ IsOpen(c)' => out'[c] # <<>>
                    /\ conn'[c] = "free" => ~needDrain'[c] /\ held'[c] = {}
                    /\ ~IsOpen(c)' => out'[c] = <<>>
  BY DEF SocketInv
<1>1. CASE /\ conn'[c] = conn[c] /\ out'[c] = out[c] /\ needDrain'[c] = needDrain[c]
           /\ c \notin T \/ ~IsOpen(c)
  BY <1>1 DEF SocketInv, IsOpen
<1>2. CASE /\ c \in T /\ IsOpen(c) /\ Fits(c, units)
           /\ conn'[c] = conn[c] /\ out'[c] = out[c] \o units
           /\ needDrain'[c] <=> needDrain[c] \/ Len(out[c]) + Len(units) >= HighWater
  <2>1. out[c] \in Seq(Unit)
    BY DEF TypeOK
  <2>2. Len(out[c] \o units) = Len(out[c]) + Len(units) /\ out[c] \o units \in Seq(Unit)
    BY <2>1, ConcatType
  <2>3. Len(out[c]) \in Nat /\ Len(units) \in Nat /\ (out[c] # <<>> => Len(out[c]) > 0)
    BY <2>1
  <2>4. needDrain'[c] => out'[c] # <<>>
    <3>1. CASE needDrain[c]
      <4>1. Len(out[c]) > 0
        BY <1>2, <2>3, <3>1 DEF SocketInv
      <4>2. Len(out[c] \o units) > 0
        BY <2>2, <2>3, <4>1
      <4> QED
        BY <1>2, <2>2, <4>2
    <3>2. CASE Len(out[c]) + Len(units) >= HighWater
      <4>1. Len(out[c] \o units) > 0
        BY <2>2, <3>2, ThresholdAssumption
      <4> QED
        BY <1>2, <2>2, <4>1
    <3> QED
      BY <1>2, <3>1, <3>2
  <2>5. held'[c] # {} => needDrain'[c]
    <3>0. held'[c] \subseteq held[c] \/ Len(out[c]) + Len(units) > PauseThreshold
      OBVIOUS
    <3>1. CASE held'[c] \subseteq held[c]
      BY <1>2, <3>1 DEF SocketInv, IsOpen
    <3>2. CASE Len(out[c]) + Len(units) > PauseThreshold
      <4>1. Len(out[c]) + Len(units) >= HighWater
        BY <2>3, <3>2, ThresholdAssumption
      <4> QED
        BY <1>2, <4>1
    <3> QED
      BY <3>0, <3>1, <3>2
  <2>6. IsOpen(c)' /\ conn'[c] # "free"
    BY <1>2 DEF IsOpen
  <2> QED
    BY <1>2, <2>4, <2>5, <2>6
<1>3. CASE /\ c \in T /\ IsOpen(c) /\ ~Fits(c, units)
           /\ conn'[c] = "destroyed" /\ out'[c] = <<>> /\ needDrain'[c] = needDrain[c]
  BY <1>3 DEF IsOpen
<1> QED
  BY <1>1, <1>2, <1>3, SendEffect

LEMMA SocketStep ==
    ASSUME TypeOK, SocketInv, [Next]_vars
    PROVE  SocketInv'
<1>1. CASE UNCHANGED <<conn, held, out, needDrain>>
  BY <1>1 DEF SocketInv, IsOpen
<1>2. ASSUME NEW c \in Conns, Connect(c) \/ Hello(c) PROVE SocketInv'
  BY <1>2 DEF Connect, Hello, SocketInv, IsOpen, TypeOK
<1>3. ASSUME NEW c \in Conns, Reject(c) PROVE SocketInv'
  BY <1>3 DEF Reject, SocketInv, IsOpen, TypeOK
<1>4. ASSUME NEW c \in Conns, DropConn(c) PROVE SocketInv'
  BY <1>4 DEF DropConn, SocketInv, IsOpen, TypeOK
<1>5. ASSUME NEW c \in Conns, Flush(c) PROVE SocketInv'
  BY <1>5 DEF Flush, SocketInv, IsOpen, TypeOK
<1>6. ASSUME NEW c \in Conns, NEW i \in Ids, NEW replay \in BOOLEAN, Subscribe(c, i, replay)
      PROVE  SocketInv'
  <2>1. store[i] \in Ptys
    BY <1>6 DEF TypeOK, Subscribe, Ptys
  <2>2. (IF replay THEN Replay(store[i]) ELSE <<>>) \in Seq(Unit)
    BY <2>1, ReplayType
  <2> QED
    BY <1>6, <2>2, SendSocket DEF Subscribe
<1>7. ASSUME NEW p \in Ptys, Output(p) PROVE SocketInv'
  <2>1. <<Chunk(p, made[p] + 1)>> \in Seq(Unit) /\ Len(<<Chunk(p, made[p] + 1)>>) = 1
    BY <1>7 DEF Output, TypeOK, Chunk, Unit
  <2>2. SendTo(Subscribed(p), <<Chunk(p, made[p] + 1)>>)
    BY <1>7 DEF Output
  <2>3. ASSUME NEW c \in Conns
        PROVE  \/ held'[c] \subseteq held[c]
               \/ /\ c \in Subscribed(p) /\ IsOpen(c) /\ Fits(c, <<Chunk(p, made[p] + 1)>>)
                  /\ Len(out[c]) + Len(<<Chunk(p, made[p] + 1)>>) > PauseThreshold
    BY <1>7, <2>1 DEF Output, Congested, Fits
  <2> QED
    BY <2>1, <2>2, <2>3, SendSocket
<1>8. ASSUME NEW p \in Ptys, Exit(p) PROVE SocketInv'
  <2>1. <<ExitOf(p)>> \in Seq(Unit)
    BY Zeros DEF ExitOf, Unit
  <2> QED
    BY <1>8, <2>1, SendSocket DEF Exit, SocketInv, IsOpen, connVars
<1> QED
  BY <1>1, <1>2, <1>3, <1>4, <1>5, <1>6, <1>7, <1>8
     DEF Next, Open, OpenFails, Close, Unsubscribe, vars, connVars

-----------------------------------------------------------------------------
(* Queued units name PTYs already spawned. *)

\* A send of units of spawned PTYs queues nothing else.
LEMMA SendBorn ==
    ASSUME TypeOK, UnbornInv, NEW T, NEW units \in Seq(Unit), SendTo(T, units),
           \A k \in DOMAIN units : units[k].pty <= born
    PROVE  \A c \in Conns : \A k \in DOMAIN out'[c] : out'[c][k].pty <= born
<1> SUFFICES ASSUME NEW c \in Conns, NEW k \in DOMAIN out'[c]
             PROVE  out'[c][k].pty <= born
  OBVIOUS
<1>1. CASE out'[c] = out[c]
  BY <1>1 DEF UnbornInv
<1>2. CASE out'[c] = out[c] \o units
  <2>1. out[c] \in Seq(Unit)
    BY DEF TypeOK
  <2> QED
    BY <1>2, <2>1, ConcatType DEF UnbornInv
<1>3. CASE out'[c] = <<>>
  BY <1>3
<1> QED
  BY <1>1, <1>2, <1>3, SendEffect

LEMMA UnbornStep ==
    ASSUME TypeOK, RowInv, UnbornInv, [Next]_vars
    PROVE  UnbornInv'
<1>0. \A i \in Ids : store[i] # 0 => store[i] \in Ptys /\ store[i] <= born
  BY DEF RowInv, TypeOK, Ptys
<1>1. CASE UNCHANGED <<born, phase, paused, out>>
  BY <1>1 DEF UnbornInv
<1>2. ASSUME NEW c \in Conns, Reject(c) PROVE UnbornInv'
  BY <1>2 DEF UnbornInv, Reject, ptyVars, TypeOK
<1>3. ASSUME NEW c \in Conns, DropConn(c) PROVE UnbornInv'
  BY <1>3 DEF UnbornInv, DropConn, ResumeFor, TypeOK
<1>4. ASSUME NEW c \in Conns, Flush(c) PROVE UnbornInv'
  <2>1. \A p \in Ptys : p > born => phase'[p] = "unborn" /\ ~paused'[p]
    BY <1>4 DEF UnbornInv, Flush, ResumeFor
  <2>2. out' = [out EXCEPT ![c] = Tail(out[c])] /\ out[c] # <<>> /\ out[c] \in Seq(Unit)
    BY <1>4 DEF Flush, TypeOK
  <2>3. \A k \in DOMAIN Tail(out[c]) : Tail(out[c])[k].pty <= born
    BY <2>2, TailType DEF UnbornInv
  <2> QED
    BY <1>4, <2>1, <2>2, <2>3 DEF UnbornInv, Flush, TypeOK
<1>5. ASSUME NEW c \in Conns, NEW i \in Ids, Open(c, i) PROVE UnbornInv'
  <2>1. /\ born \in Nat /\ born' = born + 1
        /\ phase' = [phase EXCEPT ![born + 1] = "live"]
        /\ UNCHANGED <<paused, out>>
    BY <1>5 DEF Open, TypeOK, connVars
  <2>2. ASSUME NEW d \in Conns, NEW k \in DOMAIN out[d] PROVE out[d][k].pty <= born + 1
    <3>1. out[d][k].pty <= born /\ out[d][k].pty \in Ptys
      <4>1. out[d] \in Seq(Unit)
        BY DEF TypeOK
      <4>2. out[d][k] \in Unit
        BY <4>1
      <4> QED
        BY <4>2 DEF UnbornInv, Unit
    <3> QED
      BY <2>1, <3>1 DEF Ptys
  <2>3. ASSUME NEW p \in Ptys, p > born + 1 PROVE phase'[p] = "unborn" /\ ~paused'[p]
    BY <2>1, <2>3 DEF UnbornInv, TypeOK, Ptys
  <2> QED
    BY <2>1, <2>2, <2>3 DEF UnbornInv
<1>6. ASSUME NEW c \in Conns, NEW i \in Ids, Close(c, i) PROVE UnbornInv'
  <2>1. store[i] \in Ptys /\ store[i] <= born
    BY <1>0, <1>6 DEF Close
  <2> QED
    BY <1>6, <2>1 DEF UnbornInv, Close, connVars, TypeOK, Ptys
<1>7. ASSUME NEW c \in Conns, NEW i \in Ids, NEW replay \in BOOLEAN, Subscribe(c, i, replay)
      PROVE  UnbornInv'
  <2> DEFINE units == IF replay THEN Replay(store[i]) ELSE <<>>
  <2>1. store[i] \in Ptys /\ store[i] <= born
    BY <1>0, <1>7 DEF Subscribe
  <2>2. units \in Seq(Unit)
    BY <2>1, ReplayType
  <2>3. \A k \in DOMAIN units : units[k].pty <= born
    BY <2>1 DEF Replay, Replayed
  <2>4. SendTo({c}, units) /\ UNCHANGED ptyVars
    BY <1>7 DEF Subscribe
  <2> HIDE DEF units
  <2>5. \A d \in Conns : \A k \in DOMAIN out'[d] : out'[d][k].pty <= born
    BY <2>2, <2>3, <2>4, SendBorn
  <2> QED
    BY <2>4, <2>5 DEF UnbornInv, ptyVars
<1>8. ASSUME NEW p \in Ptys, Output(p) PROVE UnbornInv'
  <2>1. <<Chunk(p, made[p] + 1)>> \in Seq(Unit)
    BY <1>8 DEF Output, TypeOK, Chunk, Unit
  <2>2. p <= born
    BY <1>8 DEF Output, Live, UnbornInv, TypeOK, Ptys
  <2>a. \A k \in DOMAIN <<Chunk(p, made[p] + 1)>> : <<Chunk(p, made[p] + 1)>>[k].pty <= born
    BY <2>2 DEF Chunk
  <2>b. SendTo(Subscribed(p), <<Chunk(p, made[p] + 1)>>)
    BY <1>8 DEF Output
  <2>3. \A d \in Conns : \A k \in DOMAIN out'[d] : out'[d][k].pty <= born
    BY <2>1, <2>a, <2>b, SendBorn
  <2> QED
    BY <1>8, <2>2, <2>3 DEF Output, UnbornInv, TypeOK, Ptys
<1>9. ASSUME NEW p \in Ptys, Exit(p) PROVE UnbornInv'
  <2>1. <<ExitOf(p)>> \in Seq(Unit)
    BY Zeros DEF ExitOf, Unit
  <2>2. p <= born
    BY <1>9 DEF Exit, UnbornInv, TypeOK, Ptys
  <2>3. \A d \in Conns : \A k \in DOMAIN out'[d] : out'[d][k].pty <= born
    <3>0. \A k \in DOMAIN <<ExitOf(p)>> : <<ExitOf(p)>>[k].pty <= born
      BY <2>2 DEF ExitOf
    <3>1. CASE OwnsRow(p)
      <4>1. SendTo(Subscribed(p), <<ExitOf(p)>>)
        BY <1>9, <3>1 DEF Exit
      <4> QED
        BY <2>1, <3>0, <4>1, SendBorn
    <3>2. CASE ~OwnsRow(p)
      BY <1>9, <3>2 DEF Exit, connVars, UnbornInv
    <3> QED
      BY <3>1, <3>2
  <2> QED
    BY <1>9, <2>2, <2>3 DEF Exit, UnbornInv, TypeOK, Ptys
<1> QED
  BY <1>1, <1>2, <1>3, <1>4, <1>5, <1>6, <1>7, <1>8, <1>9
     DEF Next, Connect, Hello, OpenFails, Unsubscribe, vars, ptyVars, connVars

-----------------------------------------------------------------------------
(* Flow control. *)

\* A PTY another connection still holds is not resumed, nor is one this
\* connection does not hold.
LEMMA ResumeKeepsHolder ==
    ASSUME LiveReachable, SocketInv, PauseInv, NEW c \in Conns, NEW p \in Ptys,
           Live(p), paused[p], ~Resumes(c, p)
    PROVE  \E d \in Conns \ {c} : idOf[p] \in held[d]
<1>1. PICK d \in Conns : idOf[p] \in held[d]
  BY DEF PauseInv
<1>2. store[idOf[p]] = p
  BY DEF LiveReachable
<1>3. CASE idOf[p] \in held[c]
  BY <1>2, <1>3 DEF Resumes
<1>4. CASE idOf[p] \notin held[c]
  BY <1>1, <1>4
<1> QED
  BY <1>3, <1>4

\* A PTY with live output over the threshold of another connection is not resumed.
LEMMA ResumeKeepsOver ==
    ASSUME SocketInv, PauseInv, NEW c \in Conns, NEW d \in Conns \ {c},
           NEW k \in DOMAIN out[d], k > PauseThreshold,
           out[d][k].kind = "live", Live(out[d][k].pty)
    PROVE  ~Resumes(c, out[d][k].pty)
<1>1. idOf[out[d][k].pty] \in held[d]
  BY DEF PauseInv
<1>2. InConns(d)
  BY <1>1 DEF SocketInv, InConns
<1> QED
  BY <1>1, <1>2 DEF Resumes

LEMMA PauseStep ==
    ASSUME TypeOK, LiveReachable, UnbornInv, SocketInv, PauseInv, [Next]_vars
    PROVE  PauseInv'
<1> DEFINE Held == \A p \in Ptys : Live(p) /\ paused[p] => \E c \in Conns : idOf[p] \in held[c]
<1> DEFINE Over == \A c \in Conns : \A k \in DOMAIN out[c] :
                      k > PauseThreshold /\ out[c][k].kind = "live" /\ Live(out[c][k].pty) =>
                        paused[out[c][k].pty] /\ idOf[out[c][k].pty] \in held[c]
<1>0. \A c \in Conns : out[c] \in Seq(Unit) /\ \A k \in DOMAIN out[c] : out[c][k] \in Unit
  <2> SUFFICES ASSUME NEW c \in Conns
               PROVE  out[c] \in Seq(Unit) /\ \A k \in DOMAIN out[c] : out[c][k] \in Unit
    OBVIOUS
  <2>1. out[c] \in Seq(Unit)
    BY DEF TypeOK
  <2> QED
    BY <2>1
<1>a. Held /\ Over
  BY DEF PauseInv
<1>b. SUFFICES Held' /\ Over'
  BY DEF PauseInv
<1>1. CASE UNCHANGED <<idOf, phase, paused, held, out>>
  BY <1>1, <1>a DEF Live
<1>2. ASSUME NEW c \in Conns, Reject(c) PROVE Held' /\ Over'
  BY <1>2, <1>a DEF Reject, ptyVars, Live, TypeOK
<1>3. ASSUME NEW c \in Conns, DropConn(c) PROVE Held' /\ Over'
  <2>1. /\ out' = [out EXCEPT ![c] = <<>>] /\ held' = [held EXCEPT ![c] = {}]
        /\ \A p \in Ptys : paused'[p] = (paused[p] /\ ~Resumes(c, p))
        /\ UNCHANGED <<idOf, phase>>
    BY <1>3 DEF DropConn, ResumeFor
  <2>2. Held'
    BY <2>1, ResumeKeepsHolder DEF TypeOK, Live
  <2>3. Over'
    <3> SUFFICES ASSUME NEW d \in Conns, NEW k \in DOMAIN out'[d], k > PauseThreshold,
                        out'[d][k].kind = "live", phase'[out'[d][k].pty] = "live"
                 PROVE  paused'[out'[d][k].pty] /\ idOf'[out'[d][k].pty] \in held'[d]
      BY DEF Live
    <3>1. d # c /\ out'[d] = out[d] /\ held'[d] = held[d]
      BY <2>1 DEF TypeOK
    <3>2. Live(out[d][k].pty) /\ out[d][k] \in Unit
      BY <1>0, <2>1, <3>1 DEF Live
    <3>3. ~Resumes(c, out[d][k].pty)
      BY <3>1, <3>2, ResumeKeepsOver
    <3> QED
      BY <1>a, <2>1, <3>1, <3>2, <3>3 DEF Unit
  <2> QED
    BY <2>2, <2>3
<1>4. ASSUME NEW c \in Conns, Flush(c) PROVE Held' /\ Over'
  <2>0. out[c] # <<>> /\ out' = [out EXCEPT ![c] = Tail(out[c])] /\ UNCHANGED <<idOf, phase>>
    BY <1>4 DEF Flush
  <2>1. CASE Tail(out[c]) = <<>> /\ needDrain[c]
    <3>1. /\ out' = [out EXCEPT ![c] = <<>>] /\ held' = [held EXCEPT ![c] = {}]
          /\ \A p \in Ptys : paused'[p] = (paused[p] /\ ~Resumes(c, p))
      BY <1>4, <2>1 DEF Flush, ResumeFor
    <3>2. Held'
      BY <2>0, <3>1, ResumeKeepsHolder DEF TypeOK, Live
    <3>3. Over'
      <4> SUFFICES ASSUME NEW d \in Conns, NEW k \in DOMAIN out'[d], k > PauseThreshold,
                          out'[d][k].kind = "live", phase'[out'[d][k].pty] = "live"
                   PROVE  paused'[out'[d][k].pty] /\ idOf'[out'[d][k].pty] \in held'[d]
        BY DEF Live
      <4>1. d # c /\ out'[d] = out[d] /\ held'[d] = held[d]
        BY <3>1 DEF TypeOK
      <4>2. Live(out[d][k].pty) /\ out[d][k] \in Unit
        BY <1>0, <2>0, <4>1 DEF Live
      <4>3. ~Resumes(c, out[d][k].pty)
        BY <4>1, <4>2, ResumeKeepsOver
      <4> QED
        BY <1>a, <2>0, <3>1, <4>1, <4>2, <4>3 DEF Unit
    <3> QED
      BY <3>2, <3>3
  <2>2. CASE ~(Tail(out[c]) = <<>> /\ needDrain[c])
    <3>1. UNCHANGED <<held, paused>>
      BY <1>4, <2>2 DEF Flush, TypeOK
    <3>2. Over'
      <4> SUFFICES ASSUME NEW d \in Conns, NEW k \in DOMAIN out'[d], k > PauseThreshold,
                          out'[d][k].kind = "live", phase'[out'[d][k].pty] = "live"
                   PROVE  paused'[out'[d][k].pty] /\ idOf'[out'[d][k].pty] \in held'[d]
        BY DEF Live
      <4>1. CASE d # c
        BY <1>a, <2>0, <3>1, <4>1 DEF Live, TypeOK
      <4>2. CASE d = c
        <5>1. out'[d] = Tail(out[c])
          BY <2>0, <4>2 DEF TypeOK
        <5>2. k + 1 \in DOMAIN out[c] /\ out'[d][k] = out[c][k + 1]
          BY <1>0, <2>0, <5>1, TailType
        <5>3. k \in Nat /\ k + 1 > PauseThreshold
          BY <1>0, <2>0, <5>1, TailType, ThresholdAssumption
        <5> QED
          BY <1>a, <2>0, <3>1, <4>2, <5>2, <5>3 DEF Live
      <4> QED
        BY <4>1, <4>2
    <3> QED
      BY <1>a, <2>0, <3>1, <3>2 DEF Live
  <2> QED
    BY <2>1, <2>2
<1>5. ASSUME NEW c \in Conns, NEW i \in Ids, Open(c, i) PROVE Held' /\ Over'
  <2>1. /\ born + 1 \in Ptys /\ born \in Nat
        /\ idOf' = [idOf EXCEPT ![born + 1] = i]
        /\ phase' = [phase EXCEPT ![born + 1] = "live"]
        /\ UNCHANGED <<paused, held, out>>
    BY <1>5 DEF Open, TypeOK, Ptys, connVars
  <2>2. ~paused[born + 1]
    BY <2>1 DEF UnbornInv
  <2>3. \A d \in Conns : \A k \in DOMAIN out[d] :
           out[d][k].pty \in Ptys /\ out[d][k].pty # born + 1
    BY <1>0, <2>1 DEF UnbornInv, Unit, Ptys
  <2> QED
    BY <1>a, <2>1, <2>2, <2>3 DEF Live, TypeOK
<1>6. ASSUME NEW c \in Conns, NEW i \in Ids, Close(c, i) PROVE Held' /\ Over'
  <2>1. /\ store[i] \in Ptys
        /\ phase' = [phase EXCEPT ![store[i]] = "closed"]
        /\ UNCHANGED <<idOf, paused, held, out>>
    BY <1>6 DEF Close, TypeOK, Ptys, connVars
  <2>2. \A p \in Ptys : phase'[p] = "live" => phase[p] = "live"
    BY <2>1 DEF TypeOK
  <2> QED
    BY <1>0, <1>a, <2>1, <2>2 DEF Live, Unit
<1>7. ASSUME NEW c \in Conns, NEW i \in Ids, NEW replay \in BOOLEAN, Subscribe(c, i, replay)
      PROVE  Held' /\ Over'
  <2> DEFINE units == IF replay THEN Replay(store[i]) ELSE <<>>
  <2>1. store[i] \in Ptys
    BY <1>7 DEF TypeOK, Subscribe, Ptys
  <2>2. units \in Seq(Unit)
    BY <2>1, ReplayType
  <2>3. \A k \in DOMAIN units : units[k].kind = "replay"
    BY DEF Replay, Replayed
  <2>4. SendTo({c}, units) /\ UNCHANGED <<idOf, phase, paused, held>>
    BY <1>7 DEF Subscribe, ptyVars
  <2> HIDE DEF units
  <2>5. Over'
    <3> SUFFICES ASSUME NEW d \in Conns, NEW k \in DOMAIN out'[d], k > PauseThreshold,
                        out'[d][k].kind = "live", phase'[out'[d][k].pty] = "live"
                 PROVE  paused'[out'[d][k].pty] /\ idOf'[out'[d][k].pty] \in held'[d]
      BY DEF Live
    <3>1. k \in DOMAIN out[d] /\ out'[d][k] = out[d][k]
      BY <2>2, <2>3, <2>4, SendUnits
    <3> QED
      BY <1>a, <2>4, <3>1 DEF Live
  <2> QED
    BY <1>a, <2>4, <2>5 DEF Live
<1>8. ASSUME NEW p \in Ptys, Output(p) PROVE Held' /\ Over'
  <2> DEFINE units == <<Chunk(p, made[p] + 1)>>
  <2>1. units \in Seq(Unit) /\ Len(units) = 1 /\ DOMAIN units = {1} /\ units[1].pty = p
    BY <1>8 DEF Output, TypeOK, Chunk, Unit
  <2>2. /\ SendTo(Subscribed(p), units)
        /\ ~paused[p]
        /\ paused' = [paused EXCEPT ![p] = Congested(p) # {}]
        /\ \A c \in Conns : held'[c] = IF c \in Congested(p) THEN held[c] \cup {idOf[p]} ELSE held[c]
        /\ UNCHANGED <<idOf, phase>>
    BY <1>8 DEF Output
  <2>3. Held'
    <3> SUFFICES ASSUME NEW q \in Ptys, Live(q)', paused'[q]
                 PROVE  \E c \in Conns : idOf'[q] \in held'[c]
      OBVIOUS
    <3>1. CASE q = p
      <4>1. PICK c \in Congested(p) : TRUE
        BY <2>2, <3>1 DEF TypeOK
      <4>2. c \in Conns
        BY DEF Congested, Subscribed
      <4> QED
        BY <2>2, <3>1, <4>1, <4>2
    <3>2. CASE q # p
      <4>1. Live(q) /\ paused[q]
        BY <2>2, <3>2 DEF Live, TypeOK
      <4> QED
        BY <1>a, <2>2, <4>1
    <3> QED
      BY <3>1, <3>2
  <2>4. Over'
    <3> SUFFICES ASSUME NEW c \in Conns, NEW k \in DOMAIN out'[c], k > PauseThreshold,
                        out'[c][k].kind = "live", phase'[out'[c][k].pty] = "live"
                 PROVE  paused'[out'[c][k].pty] /\ idOf'[out'[c][k].pty] \in held'[c]
      BY DEF Live
    <3>1. CASE k \in DOMAIN out[c] /\ out'[c][k] = out[c][k]
      <4>1. Live(out[c][k].pty) /\ out[c][k].pty \in Ptys
        BY <1>0, <2>2, <3>1 DEF Live, Unit
      <4>2. paused[out[c][k].pty] /\ idOf[out[c][k].pty] \in held[c]
        BY <1>a, <3>1, <4>1
      <4> QED
        BY <2>2, <3>1, <4>1, <4>2 DEF TypeOK
    <3>2. CASE /\ k \in Nat /\ k \notin DOMAIN out[c]
               /\ c \in Subscribed(p) /\ IsOpen(c) /\ Fits(c, units)
               /\ k - Len(out[c]) \in DOMAIN units
               /\ out'[c][k] = units[k - Len(out[c])]
      <4>1. k = Len(out[c]) + 1 /\ out'[c][k].pty = p
        <5>1. Len(out[c]) \in Nat
          BY <1>0
        <5> QED
          BY <2>1, <3>2, <5>1
      <4>2. c \in Congested(p)
        BY <2>1, <3>2, <4>1 DEF Congested, Fits
      <4> QED
        BY <2>2, <4>1, <4>2 DEF TypeOK
    <3> QED
      <4> HIDE DEF units
      <4> QED
        BY <2>1, <2>2, <3>1, <3>2, SendUnits
  <2> QED
    BY <2>3, <2>4
<1>9. ASSUME NEW p \in Ptys, Exit(p) PROVE Held' /\ Over'
  <2>1. /\ phase' = [phase EXCEPT ![p] = "dead"]
        /\ paused' = [paused EXCEPT ![p] = FALSE]
        /\ UNCHANGED idOf
    BY <1>9 DEF Exit
  <2>2. ASSUME NEW q \in Ptys, Live(q)'
        PROVE  Live(q) /\ q # p /\ paused'[q] = paused[q]
    BY <2>1, <2>2 DEF Live, TypeOK
  <2>3. CASE ~OwnsRow(p)
    <3>1. UNCHANGED <<held, out>>
      BY <1>9, <2>3 DEF Exit, connVars
    <3>2. ASSUME NEW c \in Conns, NEW k \in DOMAIN out[c], phase'[out[c][k].pty] = "live"
          PROVE  Live(out[c][k].pty) /\ paused'[out[c][k].pty] = paused[out[c][k].pty]
      <4>1. out[c][k].pty \in Ptys
        BY <1>0 DEF Unit
      <4> QED
        BY <2>2, <3>2, <4>1 DEF Live
    <3>3. Held'
      BY <1>a, <2>1, <2>2, <3>1
    <3>4. Over'
      BY <1>a, <2>1, <3>1, <3>2 DEF Live
    <3> QED
      BY <3>3, <3>4
  <2>4. CASE OwnsRow(p)
    <3> DEFINE units == <<ExitOf(p)>>
    <3>1. /\ SendTo(Subscribed(p), units)
          /\ \A c \in Conns : held'[c] = held[c] \ {idOf[p]}
      BY <1>9, <2>4 DEF Exit
    <3>2. units \in Seq(Unit) /\ \A k \in DOMAIN units : units[k].kind = "exit"
      BY Zeros DEF ExitOf, Unit
    <3> HIDE DEF units
    <3>3. ASSUME NEW q \in Ptys, Live(q)' PROVE idOf[q] # idOf[p]
      BY <2>2, <2>4, <3>3 DEF LiveReachable, OwnsRow
    <3>4. Held'
      BY <1>a, <2>1, <2>2, <3>1, <3>3
    <3>5. Over'
      <4> SUFFICES ASSUME NEW c \in Conns, NEW k \in DOMAIN out'[c], k > PauseThreshold,
                          out'[c][k].kind = "live", phase'[out'[c][k].pty] = "live"
                   PROVE  paused'[out'[c][k].pty] /\ idOf'[out'[c][k].pty] \in held'[c]
        BY DEF Live
      <4>1. k \in DOMAIN out[c] /\ out'[c][k] = out[c][k]
        BY <3>1, <3>2, SendUnits
      <4>2. out[c][k].pty \in Ptys
        BY <1>0, <4>1 DEF Unit
      <4>3. Live(out[c][k].pty) /\ paused'[out[c][k].pty] = paused[out[c][k].pty]
        BY <2>2, <4>1, <4>2 DEF Live
      <4>4. idOf[out[c][k].pty] # idOf[p]
        BY <3>3, <4>1, <4>2 DEF Live
      <4>5. paused[out[c][k].pty] /\ idOf[out[c][k].pty] \in held[c]
        BY <1>a, <4>1, <4>3
      <4> QED
        BY <2>1, <3>1, <4>1, <4>3, <4>4, <4>5
    <3> QED
      BY <3>4, <3>5
  <2> QED
    BY <2>3, <2>4
<1> QED
  BY <1>1, <1>2, <1>3, <1>4, <1>5, <1>6, <1>7, <1>8, <1>9
     DEF Next, Connect, Hello, OpenFails, Unsubscribe, vars, ptyVars, connVars

-----------------------------------------------------------------------------
(* The order of exit frames. *)

LEMMA ExitOrderStep ==
    ASSUME TypeOK, RowInv, UnbornInv, ExitBeforeSuccessorOutput, [Next]_vars
    PROVE  ExitBeforeSuccessorOutput'
<1> DEFINE Order(c, q, i) ==
              \A j, k \in DOMAIN q :
                 /\ j < k /\ q[k].kind = "exit"
                 /\ i[q[j].pty] = i[q[k].pty]
                 => q[j].pty <= q[k].pty
<1>0. \A c \in Conns : out[c] \in Seq(Unit) /\ \A k \in DOMAIN out[c] : out[c][k] \in Unit
  <2> SUFFICES ASSUME NEW c \in Conns
               PROVE  out[c] \in Seq(Unit) /\ \A k \in DOMAIN out[c] : out[c][k] \in Unit
    OBVIOUS
  <2>1. out[c] \in Seq(Unit)
    BY DEF TypeOK
  <2> QED
    BY <2>1
<1>a. \A c \in Conns : Order(c, out[c], idOf)
  BY DEF ExitBeforeSuccessorOutput
<1>b. SUFFICES \A c \in Conns : Order(c, out'[c], idOf')
  BY DEF ExitBeforeSuccessorOutput
<1>1. CASE UNCHANGED <<idOf, out>>
  BY <1>1, <1>a
<1>2. ASSUME NEW c \in Conns, Reject(c) \/ DropConn(c)
      PROVE  \A d \in Conns : Order(d, out'[d], idOf')
  <2>1. out' = [out EXCEPT ![c] = <<>>] /\ UNCHANGED idOf
    BY <1>2 DEF Reject, DropConn, ptyVars
  <2> QED
    BY <1>a, <2>1 DEF TypeOK
<1>3. ASSUME NEW c \in Conns, Flush(c)
      PROVE  \A d \in Conns : Order(d, out'[d], idOf')
  <2>1. out[c] # <<>> /\ out' = [out EXCEPT ![c] = Tail(out[c])] /\ UNCHANGED idOf
    BY <1>3 DEF Flush
  <2>2. Order(c, Tail(out[c]), idOf)
    <3> SUFFICES ASSUME NEW j \in DOMAIN Tail(out[c]), NEW k \in DOMAIN Tail(out[c]), j < k,
                        Tail(out[c])[k].kind = "exit",
                        idOf[Tail(out[c])[j].pty] = idOf[Tail(out[c])[k].pty]
                 PROVE  Tail(out[c])[j].pty <= Tail(out[c])[k].pty
      OBVIOUS
    <3>1. /\ j + 1 \in DOMAIN out[c] /\ Tail(out[c])[j] = out[c][j + 1]
          /\ k + 1 \in DOMAIN out[c] /\ Tail(out[c])[k] = out[c][k + 1]
      BY <1>0, <2>1, TailType
    <3>2. j + 1 < k + 1
      BY <1>0, <2>1
    <3> QED
      BY <1>a, <3>1, <3>2
  <2> SUFFICES ASSUME NEW d \in Conns PROVE Order(d, out'[d], idOf')
    OBVIOUS
  <2>3. CASE d = c
    <3>1. out'[d] = Tail(out[c]) /\ idOf' = idOf
      BY <2>1, <2>3 DEF TypeOK
    <3> QED
      BY <2>2, <3>1
  <2>4. CASE d # c
    <3>1. out'[d] = out[d] /\ idOf' = idOf
      BY <2>1, <2>4 DEF TypeOK
    <3> QED
      BY <1>a, <3>1
  <2> QED
    BY <2>3, <2>4
<1>4. ASSUME NEW c \in Conns, NEW i \in Ids, Open(c, i)
      PROVE  \A d \in Conns : Order(d, out'[d], idOf')
  <2>1. born \in Nat /\ idOf' = [idOf EXCEPT ![born + 1] = i] /\ UNCHANGED out
    BY <1>4 DEF Open, TypeOK, connVars
  <2>2. \A d \in Conns : \A k \in DOMAIN out[d] : idOf'[out[d][k].pty] = idOf[out[d][k].pty]
    <3> SUFFICES ASSUME NEW d \in Conns, NEW k \in DOMAIN out[d]
                 PROVE  idOf'[out[d][k].pty] = idOf[out[d][k].pty]
      OBVIOUS
    <3>1. out[d][k].pty \in Ptys /\ out[d][k].pty # born + 1
      BY <1>0, <2>1 DEF UnbornInv, Unit, Ptys
    <3> QED
      BY <2>1, <3>1 DEF TypeOK
  <2> QED
    BY <1>a, <2>1, <2>2
<1>5. ASSUME NEW T, NEW units \in Seq(Unit), SendTo(T, units), UNCHANGED idOf,
             Len(units) <= 1 \/ \A k \in DOMAIN units : units[k].kind # "exit",
             \A c \in Conns : \A k \in DOMAIN units : units[k].kind = "exit" =>
                \A j \in DOMAIN out[c] :
                   idOf[out[c][j].pty] = idOf[units[k].pty] => out[c][j].pty <= units[k].pty
      PROVE  \A d \in Conns : Order(d, out'[d], idOf')
  <2> SUFFICES ASSUME NEW c \in Conns, NEW j \in DOMAIN out'[c], NEW k \in DOMAIN out'[c], j < k,
                      out'[c][k].kind = "exit", idOf[out'[c][j].pty] = idOf[out'[c][k].pty]
               PROVE  out'[c][j].pty <= out'[c][k].pty
    BY <1>5
  <2>1. Len(out[c]) \in Nat /\ DOMAIN out[c] = 1 .. Len(out[c])
        /\ Len(units) \in Nat /\ DOMAIN units = 1 .. Len(units)
    BY <1>0
  <2>2. CASE k \in DOMAIN out[c] /\ out'[c][k] = out[c][k]
    <3>1. j \in DOMAIN out[c] /\ out'[c][j] = out[c][j]
      BY <1>5, <2>1, <2>2, SendUnits
    <3> QED
      BY <1>a, <2>2, <3>1
  <2>3. CASE /\ k \in Nat /\ k \notin DOMAIN out[c] /\ k - Len(out[c]) \in DOMAIN units
             /\ out'[c][k] = units[k - Len(out[c])]
    <3>1. Len(units) = 1 /\ k = Len(out[c]) + 1
      BY <1>5, <2>1, <2>3
    <3>2. j \in DOMAIN out[c] /\ out'[c][j] = out[c][j]
      BY <1>5, <2>1, <2>3, <3>1, SendUnits
    <3> QED
      BY <1>5, <2>3, <3>2
  <2> QED
    BY <1>5, <2>2, <2>3, SendUnits
<1>6. ASSUME NEW c \in Conns, NEW i \in Ids, NEW replay \in BOOLEAN, Subscribe(c, i, replay)
      PROVE  \A d \in Conns : Order(d, out'[d], idOf')
  <2> DEFINE units == IF replay THEN Replay(store[i]) ELSE <<>>
  <2>1. store[i] \in Ptys
    BY <1>6 DEF TypeOK, Subscribe, Ptys
  <2>2. units \in Seq(Unit)
    BY <2>1, ReplayType
  <2>3. \A k \in DOMAIN units : units[k].kind # "exit"
    BY DEF Replay, Replayed
  <2>4. SendTo({c}, units) /\ UNCHANGED idOf
    BY <1>6 DEF Subscribe, ptyVars
  <2> HIDE DEF units
  <2> QED
    BY <1>5, <2>2, <2>3, <2>4
<1>7. ASSUME NEW p \in Ptys, Output(p)
      PROVE  \A d \in Conns : Order(d, out'[d], idOf')
  <2> DEFINE units == <<Chunk(p, made[p] + 1)>>
  <2>1. units \in Seq(Unit) /\ \A k \in DOMAIN units : units[k].kind # "exit"
    BY <1>7 DEF Output, TypeOK, Chunk, Unit
  <2>2. SendTo(Subscribed(p), units) /\ UNCHANGED idOf
    BY <1>7 DEF Output
  <2> HIDE DEF units
  <2> QED
    BY <1>5, <2>1, <2>2
<1>8. ASSUME NEW p \in Ptys, Exit(p)
      PROVE  \A d \in Conns : Order(d, out'[d], idOf')
  <2>1. CASE ~OwnsRow(p)
    BY <1>8, <1>a, <2>1 DEF Exit, connVars
  <2>2. CASE OwnsRow(p)
    <3> DEFINE units == <<ExitOf(p)>>
    <3>1. units \in Seq(Unit) /\ Len(units) = 1 /\ \A k \in DOMAIN units : units[k].pty = p
      BY Zeros DEF ExitOf, Unit
    <3>2. SendTo(Subscribed(p), units) /\ UNCHANGED idOf
      BY <1>8, <2>2 DEF Exit
    <3>3. ASSUME NEW c \in Conns, NEW j \in DOMAIN out[c], idOf[out[c][j].pty] = idOf[p]
          PROVE  out[c][j].pty <= p
      <4>1. out[c][j].pty \in Ptys /\ out[c][j].pty <= born
        BY <1>0 DEF Unit, UnbornInv
      <4>2. idOf[p] \in Ids /\ store[idOf[p]] = p
        BY <2>2 DEF OwnsRow, TypeOK
      <4>3. p # 0
        BY DEF Ptys
      <4> QED
        BY <3>3, <4>1, <4>2, <4>3 DEF RowInv
    <3> HIDE DEF units
    <3> QED
      BY <1>5, <3>1, <3>2, <3>3
  <2> QED
    BY <2>1, <2>2
<1> QED
  BY <1>1, <1>2, <1>3, <1>4, <1>6, <1>7, <1>8
     DEF Next, Connect, Hello, OpenFails, Close, Unsubscribe, vars, ptyVars, connVars

-----------------------------------------------------------------------------
(* What a client follows. *)

\* Output of other shells changes nothing.
LEMMA OthersFollow ==
    ASSUME NEW s \in Seq(Unit), NEW t \in Seq(Unit), NEW p, NEW m, NEW n,
           InStep(s, p, m, n), \A k \in DOMAIN t : t[k].pty # p
    PROVE  InStep(s \o t, p, m, n)
<1>. DEFINE w == s \o t
<1>1. Places(w, p) = Places(s, p) /\ \A k \in Places(s, p) : w[k] = s[k]
  <2>1. \A k \in DOMAIN w : /\ k \in DOMAIN s => w[k] = s[k]
                            /\ k \notin DOMAIN s => w[k].pty # p
    BY ConcatType
  <2>2. DOMAIN s \subseteq DOMAIN w
    OBVIOUS
  <2>. HIDE DEF w
  <2>. QED BY <2>1, <2>2 DEF Places
<1>. HIDE DEF w
<1>2. InStep(w, p, m, n)
  BY <1>1 DEF InStep
<1>. QED BY <1>2 DEF w

\* The next chunk follows what waits.
LEMMA NextFollows ==
    ASSUME NEW s \in Seq(Unit), NEW p \in Ptys, NEW m \in Nat, NEW n \in Nat,
           n + 1 <= MaxChunk, InStep(s, p, m, n)
    PROVE  InStep(s \o <<Chunk(p, n + 1)>>, p, m, n + 1)
<1>. DEFINE w == s \o <<Chunk(p, n + 1)>>
<1>1. /\ Len(s) \in Nat /\ DOMAIN s = 1 .. Len(s) /\ DOMAIN w = 1 .. Len(s) + 1
      /\ \A k \in 1 .. Len(s) : w[k] = s[k]
      /\ w[Len(s) + 1] = Chunk(p, n + 1)
  OBVIOUS
<1>2. /\ Chunk(p, n + 1).pty = p /\ Chunk(p, n + 1).kind # "exit"
      /\ Chunk(p, n + 1).n = n + 1
  BY DEF Chunk
<1>. HIDE DEF w
<1>3. /\ Places(w, p) = Places(s, p) \cup {Len(s) + 1}
      /\ \A k \in Places(s, p) : w[k] = s[k] /\ k \in 1 .. Len(s)
  <2>1. 1 .. Len(s) + 1 = 1 .. Len(s) \cup {Len(s) + 1}
    BY <1>1
  <2>. QED BY <1>1, <1>2, <2>1 DEF Places
<1>4. \A k \in Places(s, p) : s[k].n \in Nat
  <2>1. \A k \in 1 .. Len(s) : s[k] \in Unit
    OBVIOUS
  <2>. QED BY <1>3, <2>1, BoundsAssumption DEF Unit
<1>5. m <= n + 1 /\ \A k \in Places(w, p) : m < w[k].n /\ w[k].n <= n + 1
  BY <1>1, <1>2, <1>3, <1>4 DEF InStep
<1>6. \A j, k \in Places(w, p) : j < k => w[j].n < w[k].n
  BY <1>1, <1>2, <1>3, <1>4 DEF InStep
<1>7. ASSUME NEW l \in m + 1 .. n + 1
      PROVE  \E k \in Places(w, p) : w[k].n = l
  <2>1. CASE l = n + 1
    BY <1>1, <1>2, <1>3, <2>1
  <2>2. CASE l # n + 1
    <3>1. l \in m + 1 .. n
      BY <2>2
    <3>. QED BY <1>3, <3>1 DEF InStep
  <2>. QED BY <2>1, <2>2
<1>8. InStep(w, p, m, n + 1)
  BY <1>5, <1>6, <1>7 DEF InStep
<1>. QED BY <1>8 DEF w

\* A replay to a client for whom nothing waits.
LEMMA ReplayFollows ==
    ASSUME TypeOK, NEW s \in Seq(Unit), NEW p \in Ptys, \A k \in DOMAIN s : s[k].pty # p
    PROVE  InStep(s \o Replay(p), p, evicted[p], made[p])
<1>. DEFINE t == Replay(p)
            w == s \o t
<1>0. PICK e, n, h : e = evicted[p] /\ n = made[p] /\ h = Len(s)
  OBVIOUS
<1>1. e \in Nat /\ n \in Nat /\ e <= n /\ n - e \in Nat /\ h \in Nat /\ DOMAIN s = 1 .. h
  BY <1>0 DEF TypeOK
<1>2. /\ t \in Seq(Unit) /\ Len(t) = n - e
      /\ \A k \in 1 .. n - e : t[k] = Replayed(p, e + k)
  BY <1>0, <1>1, ReplayType DEF Replay
<1>. HIDE DEF t
<1>3. /\ DOMAIN w = 1 .. h + (n - e)
      /\ \A k \in 1 .. h : w[k] = s[k]
      /\ \A k \in h + 1 .. h + (n - e) : w[k] = Replayed(p, e + (k - h))
  <2>1. Len(w) = h + (n - e) /\ w \in Seq(Unit)
    <3>1. t \in Seq(Unit) /\ Len(t) = n - e
      BY <1>2
    <3>2. w \in Seq(Unit) /\ Len(w) = Len(s) + Len(t)
      BY <3>1
    <3>. QED BY <1>0, <3>1, <3>2
  <2>2. ASSUME NEW k \in 1 .. h
        PROVE  w[k] = s[k]
    <3>1. k \in DOMAIN w /\ k \in DOMAIN s
      BY <1>1, <2>1
    <3>. QED BY <1>2, <3>1, ConcatType
  <2>3. ASSUME NEW k \in h + 1 .. h + (n - e)
        PROVE  w[k] = Replayed(p, e + (k - h))
    <3>1. k - h \in 1 .. n - e
      BY <1>1
    <3>2. w[k] = t[k - h]
      BY <1>0, <1>1, <1>2, <3>1
    <3>. QED BY <1>2, <3>1, <3>2
  <2>. HIDE DEF w
  <2>. QED BY <2>1, <2>2, <2>3
<1>. HIDE DEF w
<1>4. \A l : /\ Replayed(p, l).pty = p /\ Replayed(p, l).kind # "exit"
             /\ Replayed(p, l).n = l
  BY DEF Replayed
<1>5. Places(w, p) = h + 1 .. h + (n - e)
  <2>1. \A k \in 1 .. h + (n - e) : k \in 1 .. h \/ k \in h + 1 .. h + (n - e)
    BY <1>1
  <2>2. h + 1 .. h + (n - e) \subseteq 1 .. h + (n - e)
    BY <1>1
  <2>. QED BY <1>1, <1>3, <1>4, <2>1, <2>2 DEF Places
<1>6. \A k \in Places(w, p) : w[k].n = e + (k - h) /\ k \in h + 1 .. h + (n - e)
  BY <1>3, <1>4, <1>5
<1>7. ASSUME NEW l \in e + 1 .. n
      PROVE  \E k \in Places(w, p) : w[k].n = l
  <2>1. h + (l - e) \in h + 1 .. h + (n - e) /\ e + ((h + (l - e)) - h) = l
    BY <1>1
  <2>. QED BY <1>5, <1>6, <2>1
<1>8. \A k \in Places(w, p) : e < w[k].n /\ w[k].n <= n
  BY <1>1, <1>6
<1>9. \A j, k \in Places(w, p) : j < k => w[j].n < w[k].n
  BY <1>1, <1>6
<1>10. InStep(w, p, e, n)
  BY <1>1, <1>7, <1>8, <1>9 DEF InStep
<1>. QED BY <1>0, <1>10 DEF w, t

\* The client reads the first unit: it is the next chunk, or of another shell.
LEMMA ReadingFollows ==
    ASSUME NEW s \in Seq(Unit), s # <<>>, NEW p, NEW m \in Nat, NEW n \in Nat,
           InStep(s, p, m, n), Head(s).pty = p => Head(s).kind # "exit"
    PROVE  InStep(Tail(s), p, IF Head(s).pty = p THEN Head(s).n ELSE m, n)
<1>. DEFINE w == Tail(s)
<1>0. PICK u, h : u = Head(s) /\ h = Len(s)
  OBVIOUS
<1>1. /\ h \in Nat /\ h >= 1 /\ DOMAIN s = 1 .. h /\ u = s[1]
      /\ DOMAIN w = 1 .. h - 1
      /\ \A k \in 1 .. h - 1 : w[k] = s[k + 1]
  BY <1>0
<1>2. \A k \in 1 .. h : s[k].n \in Nat
  <2>1. \A k \in 1 .. h : s[k] \in Unit
    BY <1>0
  <2>. QED BY <2>1, BoundsAssumption DEF Unit
<1>. HIDE DEF w
<1>3. \A k \in Places(w, p) : k + 1 \in Places(s, p) /\ w[k] = s[k + 1] /\ k \in 1 .. h - 1
  <2>1. \A k \in 1 .. h - 1 : k + 1 \in 1 .. h
    BY <1>1
  <2>. QED BY <1>1, <2>1 DEF Places
<1>4. \A k \in Places(s, p) : k = 1 \/ (k - 1 \in Places(w, p) /\ w[k - 1] = s[k])
  <2>1. \A k \in 1 .. h : k = 1 \/ (k - 1 \in 1 .. h - 1 /\ (k - 1) + 1 = k)
    BY <1>1
  <2>. QED BY <1>1, <2>1 DEF Places
<1>5. Places(s, p) \subseteq 1 .. h
  BY <1>1 DEF Places
<1>6. CASE u.pty # p
  <2>1. 1 \notin Places(s, p)
    BY <1>1, <1>6 DEF Places
  <2>2. \A j, k \in Places(w, p) : j < k => w[j].n < w[k].n
    <3>. SUFFICES ASSUME NEW j \in Places(w, p), NEW k \in Places(w, p), j < k
                  PROVE  w[j].n < w[k].n
      OBVIOUS
    <3>1. j + 1 \in Places(s, p) /\ k + 1 \in Places(s, p) /\ j + 1 < k + 1
      BY <1>1, <1>3
    <3>. QED BY <1>3, <3>1 DEF InStep
  <2>3. \A k \in Places(w, p) : m < w[k].n /\ w[k].n <= n
    BY <1>3 DEF InStep
  <2>4. ASSUME NEW l \in m + 1 .. n
        PROVE  \E k \in Places(w, p) : w[k].n = l
    <3>1. PICK k \in Places(s, p) : s[k].n = l
      BY <2>4 DEF InStep
    <3>. QED BY <1>4, <2>1, <3>1
  <2>5. InStep(w, p, m, n)
    BY <2>2, <2>3, <2>4 DEF InStep
  <2>. QED BY <1>0, <1>6, <2>5 DEF w
<1>7. CASE u.pty = p
  <2>1. 1 \in Places(s, p)
    BY <1>0, <1>1, <1>7 DEF Places
  <2>2. m < u.n /\ u.n <= n /\ u.n \in Nat
    BY <1>1, <1>2, <2>1 DEF InStep
  <2>3. \A j, k \in Places(w, p) : j < k => w[j].n < w[k].n
    <3>. SUFFICES ASSUME NEW j \in Places(w, p), NEW k \in Places(w, p), j < k
                  PROVE  w[j].n < w[k].n
      OBVIOUS
    <3>1. j + 1 \in Places(s, p) /\ k + 1 \in Places(s, p) /\ j + 1 < k + 1
      BY <1>1, <1>3
    <3>. QED BY <1>3, <3>1 DEF InStep
  <2>4. ASSUME NEW k \in Places(w, p)
        PROVE  u.n < w[k].n /\ w[k].n <= n
    <3>1. k + 1 \in Places(s, p) /\ 1 < k + 1 /\ w[k] = s[k + 1]
      BY <1>1, <1>3
    <3>. QED BY <1>1, <2>1, <3>1 DEF InStep
  <2>5. ASSUME NEW l \in u.n + 1 .. n
        PROVE  \E k \in Places(w, p) : w[k].n = l
    <3>1. l \in m + 1 .. n /\ l # u.n
      BY <2>2
    <3>2. PICK k \in Places(s, p) : s[k].n = l
      BY <3>1 DEF InStep
    <3>. QED BY <1>1, <1>4, <3>1, <3>2
  <2>6. InStep(w, p, u.n, n)
    BY <2>2, <2>3, <2>4, <2>5 DEF InStep
  <2>. QED BY <1>0, <1>7, <2>6 DEF w
<1>. QED BY <1>6, <1>7

\* Units of other shells, sent to some connections: no exit of a followed
\* shell begins to wait.
LEMMA SentFollowing ==
    ASSUME TypeOK, Following, NEW T, NEW units \in Seq(Unit), SendTo(T, units),
           NEW c \in Conns, NEW p \in whole[c],
           \A k \in DOMAIN units : units[k].pty # p
    PROVE  \A k \in DOMAIN out'[c] : out'[c][k].pty = p => out'[c][k].kind # "exit"
<1>. SUFFICES ASSUME NEW k \in DOMAIN out'[c], out'[c][k].pty = p
              PROVE  out'[c][k].kind # "exit"
  OBVIOUS
<1>1. k \in DOMAIN out[c] /\ out'[c][k] = out[c][k]
  BY SendUnits
<1>. QED BY <1>1 DEF Following

\* ... and what a connection follows stays in step.
LEMMA SentInStep ==
    ASSUME TypeOK, NEW T, NEW units \in Seq(Unit), SendTo(T, units),
           NEW c \in Conns, NEW p \in Ptys, NEW m, NEW n,
           InStep(out[c], p, m, n), IsOpen(c)',
           \A k \in DOMAIN units : units[k].pty # p
    PROVE  InStep(out'[c], p, m, n)
<1>1. out[c] \in Seq(Unit)
  BY DEF TypeOK
<1>2. out'[c] = out[c] \/ out'[c] = out[c] \o units
  <2>1. conn'[c] # "destroyed"
    BY DEF IsOpen
  <2>. QED BY <2>1, SendEffect
<1>. QED BY <1>1, <1>2, OthersFollow

\* A send opens no connection, and none leaves the server's set by it.
LEMMA OpenBefore ==
    ASSUME TypeOK, NEW T, NEW units \in Seq(Unit), SendTo(T, units),
           NEW c \in Conns
    PROVE  /\ IsOpen(c)' => IsOpen(c)
           /\ InConns(c) => InConns(c)'
<1>1. conn'[c] = conn[c] \/ conn'[c] = "destroyed"
  BY SendEffect
<1>. QED BY <1>1 DEF IsOpen, InConns

\* No step leaves a gap, a repeat or a reordering between what a client has
\* read and what waits for it.
LEMMA FollowingStep ==
    ASSUME TypeOK, LiveReachable, RowInv, UnbornInv, FollowInv, [Next]_vars
    PROVE  FollowInv'
<1>. DEFINE Good(c, p) ==
              /\ InConns(c)' /\ phase'[p] \in {"live", "closed"}
              /\ store'[idOf'[p]] = p => idOf'[p] \in subs'[c]
              /\ \A k \in DOMAIN out'[c] : out'[c][k].pty = p => out'[c][k].kind # "exit"
              /\ IsOpen(c)' => InStep(out'[c], p, seen'[c][p], made'[p])
<1>a. ASSUME NEW c \in Conns, NEW p \in whole[c]
      PROVE  /\ InConns(c) /\ phase[p] \in {"live", "closed"} /\ p \in Ptys
             /\ store[idOf[p]] = p => idOf[p] \in subs[c]
             /\ \A k \in DOMAIN out[c] : out[c][k].pty = p => out[c][k].kind # "exit"
             /\ IsOpen(c) => InStep(out[c], p, seen[c][p], made[p])
  BY DEF FollowInv, Following, ReplayThenLive, TypeOK
<1>b. SUFFICES \A c \in Conns : \A p \in whole'[c] : Good(c, p)
  BY DEF FollowInv, Following, ReplayThenLive
<1>c. \A c \in Conns : out[c] \in Seq(Unit)
  BY DEF TypeOK
<1>1. CASE UNCHANGED vars
  BY <1>1, <1>a DEF vars, ptyVars, connVars, histVars, InConns, IsOpen
<1>2. ASSUME NEW d \in Conns, Connect(d) \/ Hello(d) \/ Reject(d)
      PROVE  \A c \in Conns : \A p \in whole'[c] : Good(c, p)
  <2>. SUFFICES ASSUME NEW c \in Conns, NEW p \in whole'[c]
                PROVE  Good(c, p)
    OBVIOUS
  <2>1. UNCHANGED <<ptyVars, subs, histVars>>
    BY <1>2 DEF Connect, Hello, Reject
  <2>2. p \in whole[c]
    BY <2>1 DEF histVars
  <2>3. /\ InConns(c) => InConns(c)'
        /\ InConns(c) /\ IsOpen(c)' => IsOpen(c) /\ out'[c] = out[c]
        /\ out'[c] = out[c] \/ out'[c] = <<>>
    BY <1>2 DEF Connect, Hello, Reject, InConns, IsOpen, TypeOK
  <2>4. DOMAIN <<>> = {}
    OBVIOUS
  <2>. QED BY <1>a, <2>1, <2>2, <2>3, <2>4 DEF ptyVars, histVars
<1>3. ASSUME NEW d \in Conns, DropConn(d)
      PROVE  \A c \in Conns : \A p \in whole'[c] : Good(c, p)
  <2>. SUFFICES ASSUME NEW c \in Conns, NEW p \in whole'[c]
                PROVE  Good(c, p)
    OBVIOUS
  <2>1. c # d /\ p \in whole[c]
    BY <1>3 DEF DropConn, TypeOK
  <2>2. /\ conn'[c] = conn[c] /\ subs'[c] = subs[c] /\ out'[c] = out[c]
        /\ seen'[c] = seen[c]
        /\ UNCHANGED <<store, born, idOf, phase, made, evicted>>
    BY <1>3, <2>1 DEF DropConn, TypeOK
  <2>. QED BY <1>a, <2>1, <2>2 DEF InConns, IsOpen
<1>4. ASSUME NEW d \in Conns, Flush(d)
      PROVE  \A c \in Conns : \A p \in whole'[c] : Good(c, p)
  <2>. SUFFICES ASSUME NEW c \in Conns, NEW p \in whole'[c]
                PROVE  Good(c, p)
    OBVIOUS
  <2>1. /\ IsOpen(d) /\ out[d] # <<>> /\ out' = [out EXCEPT ![d] = Tail(out[d])]
        /\ UNCHANGED <<store, born, idOf, phase, made, evicted, conn, subs, whole>>
        /\ seen' = [seen EXCEPT ![d][Head(out[d]).pty] =
                       IF Head(out[d]).pty \in whole[d] THEN Head(out[d]).n ELSE @]
    BY <1>4 DEF Flush
  <2>2. CASE c # d
    <3>1. out'[c] = out[c] /\ seen'[c] = seen[c]
      BY <2>1, <2>2 DEF TypeOK
    <3>. QED BY <1>a, <2>1, <3>1 DEF InConns, IsOpen
  <2>3. CASE c = d
    <3>1. out'[c] = Tail(out[c])
      BY <2>1, <2>3 DEF TypeOK
    <3>2. /\ Head(out[c]) \in Unit /\ Head(out[c]) = out[c][1] /\ 1 \in DOMAIN out[c]
          /\ \A k \in DOMAIN Tail(out[c]) :
                k + 1 \in DOMAIN out[c] /\ Tail(out[c])[k] = out[c][k + 1]
      <4>1. out[c] \in Seq(Unit) /\ out[c] # <<>>
        BY <1>c, <2>1, <2>3
      <4>. QED BY <4>1, TailType
    <3>3. seen'[c][p] = IF Head(out[c]).pty = p THEN Head(out[c]).n ELSE seen[c][p]
      <4>1. Head(out[c]).pty \in Ptys /\ seen[c] \in [Ptys -> 0 .. MaxChunk] /\ p \in Ptys
        BY <1>a, <2>1, <3>2 DEF Unit, TypeOK
      <4>2. seen' = [seen EXCEPT ![c] = [seen[c] EXCEPT ![Head(out[c]).pty] =
                       IF Head(out[c]).pty \in whole[c] THEN Head(out[c]).n ELSE @]]
        BY <2>1, <2>3
      <4>3. seen'[c] = [seen[c] EXCEPT ![Head(out[c]).pty] =
                       IF Head(out[c]).pty \in whole[c] THEN Head(out[c]).n ELSE @]
        BY <4>2 DEF TypeOK
      <4>. QED BY <2>1, <4>1, <4>3
    <3>4. seen[c][p] \in Nat /\ made[p] \in Nat
      BY <1>a, <2>1 DEF TypeOK
    <3>5. InStep(out'[c], p, seen'[c][p], made[p])
      <4>1. Head(out[c]).pty = p => Head(out[c]).kind # "exit"
        BY <1>a, <2>1, <3>2
      <4>2. InStep(out[c], p, seen[c][p], made[p]) /\ out[c] # <<>>
        BY <1>a, <2>1, <2>3
      <4>. QED BY <1>c, <3>1, <3>3, <3>4, <4>1, <4>2, ReadingFollows
    <3>6. \A k \in DOMAIN out'[c] : out'[c][k].pty = p => out'[c][k].kind # "exit"
      BY <1>a, <2>1, <3>1, <3>2
    <3>. QED BY <1>a, <2>1, <3>5, <3>6 DEF InConns, IsOpen
  <2>. QED BY <2>2, <2>3
<1>5. ASSUME NEW d \in Conns, NEW i \in Ids, Open(d, i) \/ OpenFails(d, i) \/ Close(d, i)
      PROVE  \A c \in Conns : \A p \in whole'[c] : Good(c, p)
  <2>. SUFFICES ASSUME NEW c \in Conns, NEW p \in whole'[c]
                PROVE  Good(c, p)
    OBVIOUS
  <2>1. UNCHANGED <<made, conn, subs, out, seen, whole>>
    BY <1>5 DEF Open, OpenFails, Close, connVars, histVars
  <2>2. /\ phase'[p] \in {"live", "closed"} /\ idOf'[p] = idOf[p] /\ idOf[p] \in Ids
        /\ store'[idOf[p]] = p => store[idOf[p]] = p
    <3>1. p \in Ptys /\ phase[p] \in {"live", "closed"}
      BY <1>a, <2>1
    <3>2. CASE Open(d, i)
      <4>1. /\ born + 1 \in Ptys /\ born \in Nat /\ phase[born + 1] = "unborn"
            /\ store' = [store EXCEPT ![i] = born + 1]
            /\ idOf' = [idOf EXCEPT ![born + 1] = i]
            /\ phase' = [phase EXCEPT ![born + 1] = "live"]
        BY <3>2 DEF Open, TypeOK, UnbornInv, Ptys
      <4>2. p # born + 1
        BY <3>1, <4>1
      <4>. QED BY <3>1, <4>1, <4>2 DEF TypeOK
    <3>3. CASE OpenFails(d, i)
      <4>1. store' = [store EXCEPT ![i] = 0] /\ UNCHANGED <<idOf, phase>>
        BY <3>3 DEF OpenFails
      <4>. QED BY <3>1, <4>1 DEF TypeOK, Ptys
    <3>4. CASE Close(d, i)
      <4>1. phase' = [phase EXCEPT ![store[i]] = "closed"] /\ UNCHANGED <<idOf, store>>
        BY <3>4 DEF Close
      <4>. QED BY <3>1, <4>1 DEF TypeOK
    <3>. QED BY <1>5, <3>2, <3>3, <3>4
  <2>. QED BY <1>a, <2>1, <2>2 DEF InConns, IsOpen
<1>6. ASSUME NEW d \in Conns, NEW i \in Ids, NEW replay \in BOOLEAN, Subscribe(d, i, replay)
      PROVE  \A c \in Conns : \A p \in whole'[c] : Good(c, p)
  <2>. SUFFICES ASSUME NEW c \in Conns, NEW p \in whole'[c]
                PROVE  Good(c, p)
    OBVIOUS
  <2>. DEFINE units == IF replay THEN Replay(store[i]) ELSE <<>>
              follow == replay /\ \A k \in DOMAIN out[d] : out[d][k].pty # store[i]
  <2>1. /\ store[i] \in Ptys /\ i \notin subs[d] /\ conn[d] = "ready"
        /\ subs' = [subs EXCEPT ![d] = @ \cup {i}]
        /\ SendTo({d}, units)
        /\ whole' = [whole EXCEPT ![d] = IF follow THEN @ \cup {store[i]} ELSE @]
        /\ seen' = [seen EXCEPT ![d][store[i]] = IF follow THEN evicted[store[i]] ELSE @]
        /\ UNCHANGED <<ptyVars, held>>
    BY <1>6 DEF TypeOK, Subscribe, Ptys
  <2>2. units \in Seq(Unit) /\ \A k \in DOMAIN units : units[k].pty = store[i]
    BY <2>1, ReplayType DEF Replay, Replayed
  <2>3. /\ idOf[store[i]] = i /\ phase[store[i]] \in {"live", "closed"}
        /\ store[i] \notin whole[d]
    <3>1. store[i] # 0
      BY <2>1 DEF Ptys
    <3>2. idOf[store[i]] = i /\ phase[store[i]] \in {"live", "closed"}
      BY <3>1 DEF RowInv
    <3>. QED BY <1>a, <2>1, <3>2
  <2>4. CASE p \in whole[c] /\ (c # d \/ p # store[i])
    <3>1. seen'[c][p] = seen[c][p] /\ subs[c] \subseteq subs'[c]
      BY <1>a, <2>1, <2>4 DEF TypeOK
    <3>2. p \in Ptys /\ UNCHANGED <<store, idOf, phase, made>>
      BY <1>a, <2>1, <2>4 DEF ptyVars
    <3>3. CASE p # store[i]
      <4>1. \A k \in DOMAIN units : units[k].pty # p
        BY <2>2, <3>3
      <4>. HIDE DEF units
      <4>2. \A k \in DOMAIN out'[c] : out'[c][k].pty = p => out'[c][k].kind # "exit"
        BY <2>1, <2>2, <2>4, <4>1, SentFollowing DEF FollowInv
      <4>3. IsOpen(c)' => IsOpen(c)
        BY <2>1, <2>2, OpenBefore
      <4>4. InConns(c) => InConns(c)'
        BY <2>1, <2>2, OpenBefore
      <4>5. IsOpen(c)' => InStep(out'[c], p, seen[c][p], made[p])
        BY <1>a, <2>1, <2>2, <2>4, <3>2, <4>1, <4>3, SentInStep
      <4>. QED BY <1>a, <2>4, <3>1, <3>2, <4>2, <4>4, <4>5
    <3>4. CASE c # d
      <4>. HIDE DEF units
      <4>1. conn'[c] = conn[c] /\ out'[c] = out[c]
        BY <2>1, <2>2, <3>4, SendEffect
      <4>. QED BY <1>a, <2>4, <3>1, <3>2, <4>1 DEF InConns, IsOpen
    <3>. QED BY <2>4, <3>3, <3>4
  <2>5. CASE p \notin whole[c] \/ (c = d /\ p = store[i])
    <3>1. c = d /\ p = store[i] /\ follow
      BY <2>1, <2>3, <2>5 DEF TypeOK
    <3>2. /\ seen'[c][p] = evicted[p] /\ idOf[p] \in subs'[c]
          /\ UNCHANGED <<store, idOf, phase, made>>
      BY <2>1, <2>3, <3>1 DEF TypeOK, ptyVars
    <3>3. units = Replay(p) /\ \A k \in DOMAIN units : units[k].kind = "replay"
      BY <3>1 DEF Replay, Replayed
    <3>4. \A k \in DOMAIN out[c] : out[c][k].pty # p
      BY <3>1
    <3>. HIDE DEF units, follow
    <3>5. \A k \in DOMAIN out'[c] : out'[c][k].pty = p => out'[c][k].kind # "exit"
      <4>. SUFFICES ASSUME NEW k \in DOMAIN out'[c], out'[c][k].pty = p
                    PROVE  out'[c][k].kind # "exit"
        OBVIOUS
      <4>1. \/ k \in DOMAIN out[c] /\ out'[c][k] = out[c][k]
            \/ /\ k - Len(out[c]) \in DOMAIN units
               /\ out'[c][k] = units[k - Len(out[c])]
        BY <2>1, <2>2, SendUnits
      <4>. QED BY <3>3, <3>4, <4>1
    <3>6. InConns(c)'
      <4>1. InConns(c)
        BY <2>1, <3>1 DEF InConns
      <4>. QED BY <2>1, <2>2, <4>1, OpenBefore
    <3>7. IsOpen(c)' => InStep(out'[c], p, evicted[p], made[p])
      <4>. SUFFICES ASSUME IsOpen(c)' PROVE InStep(out'[c], p, evicted[p], made[p])
        OBVIOUS
      <4>1. out'[c] = out[c] \o units
        <5>1. conn'[c] # "destroyed" /\ c \in {d} /\ IsOpen(c)
          BY <2>1, <3>1 DEF IsOpen
        <5>. QED BY <2>1, <2>2, <5>1, SendEffect
      <4>2. p \in Ptys
        BY <2>1, <3>1
      <4>. QED BY <1>c, <3>3, <3>4, <4>1, <4>2, ReplayFollows
    <3>. QED BY <2>3, <3>1, <3>2, <3>5, <3>6, <3>7
  <2>. QED BY <2>4, <2>5
<1>7. ASSUME NEW d \in Conns, NEW i \in Ids, Unsubscribe(d, i)
      PROVE  \A c \in Conns : \A p \in whole'[c] : Good(c, p)
  <2>. SUFFICES ASSUME NEW c \in Conns, NEW p \in whole'[c]
                PROVE  Good(c, p)
    OBVIOUS
  <2>1. /\ subs' = [subs EXCEPT ![d] = @ \ {i}]
        /\ Forget({d}, {q \in Ptys : idOf[q] = i})
        /\ UNCHANGED <<ptyVars, conn, held, out, needDrain>>
    BY <1>7 DEF Unsubscribe
  <2>2. p \in whole[c] /\ (c = d => idOf[p] # i)
    BY <1>a, <2>1 DEF Forget, TypeOK
  <2>3. seen'[c][p] = seen[c][p] /\ p \in Ptys
    BY <1>a, <2>1, <2>2 DEF Forget
  <2>4. idOf[p] \in subs[c] => idOf[p] \in subs'[c]
    BY <2>1, <2>2 DEF TypeOK
  <2>. QED BY <1>a, <2>1, <2>2, <2>3, <2>4 DEF ptyVars, InConns, IsOpen
<1>8. ASSUME NEW q \in Ptys, Output(q)
      PROVE  \A c \in Conns : \A p \in whole'[c] : Good(c, p)
  <2>. SUFFICES ASSUME NEW c \in Conns, NEW p \in whole'[c]
                PROVE  Good(c, p)
    OBVIOUS
  <2>. DEFINE units == <<Chunk(q, made[q] + 1)>>
  <2>1. /\ Live(q) /\ made[q] + 1 <= MaxChunk /\ made' = [made EXCEPT ![q] = made[q] + 1]
        /\ SendTo(Subscribed(q), units)
        /\ UNCHANGED <<store, born, idOf, phase, subs, histVars>>
    BY <1>8 DEF Output
  <2>2. /\ units \in Seq(Unit)
        /\ \A k \in DOMAIN units : units[k].pty = q /\ units[k].kind = "live"
    BY <1>8 DEF Output, TypeOK, Chunk, Unit
  <2>3. p \in whole[c] /\ p \in Ptys /\ seen'[c][p] = seen[c][p]
    BY <1>a, <2>1 DEF histVars
  <2>4. CASE p # q
    <3>1. made'[p] = made[p] /\ \A k \in DOMAIN units : units[k].pty # p
      BY <2>1, <2>2, <2>3, <2>4 DEF TypeOK
    <3>. HIDE DEF units
    <3>2. \A k \in DOMAIN out'[c] : out'[c][k].pty = p => out'[c][k].kind # "exit"
      BY <2>1, <2>2, <2>3, <3>1, SentFollowing DEF FollowInv
    <3>3. (IsOpen(c)' => IsOpen(c)) /\ (InConns(c) => InConns(c)')
      BY <2>1, <2>2, OpenBefore
    <3>4. IsOpen(c)' => InStep(out'[c], p, seen[c][p], made[p])
      BY <1>a, <2>1, <2>2, <2>3, <3>1, <3>3, SentInStep
    <3>. QED BY <1>a, <2>1, <2>3, <3>1, <3>2, <3>3, <3>4
  <2>5. CASE p = q
    <3>1. made'[p] = made[p] + 1 /\ made[p] \in Nat /\ seen[c][p] \in Nat
      BY <2>1, <2>3, <2>5 DEF TypeOK
    <3>2. c \in Subscribed(q)
      <4>1. store[idOf[q]] = q
        BY <2>1 DEF LiveReachable
      <4>. QED BY <1>a, <2>3, <2>5, <4>1 DEF Subscribed
    <3>3. units = <<Chunk(p, made[p] + 1)>>
      BY <2>5
    <3>. HIDE DEF units
    <3>4. (IsOpen(c)' => IsOpen(c)) /\ (InConns(c) => InConns(c)')
      BY <2>1, <2>2, OpenBefore
    <3>5. IsOpen(c)' => InStep(out'[c], p, seen[c][p], made[p] + 1)
      <4>. SUFFICES ASSUME IsOpen(c)' PROVE InStep(out'[c], p, seen[c][p], made[p] + 1)
        OBVIOUS
      <4>1. out'[c] = out[c] \o units
        <5>1. conn'[c] # "destroyed" /\ IsOpen(c)
          BY <3>4 DEF IsOpen
        <5>. QED BY <2>1, <2>2, <3>2, <5>1, SendEffect
      <4>2. InStep(out[c], p, seen[c][p], made[p])
        BY <1>a, <2>3, <3>4
      <4>3. made[p] + 1 <= MaxChunk
        BY <2>1, <2>5
      <4>. QED BY <1>c, <2>3, <3>1, <3>3, <4>1, <4>2, <4>3, NextFollows
    <3>6. \A k \in DOMAIN out'[c] : out'[c][k].pty = p => out'[c][k].kind # "exit"
      <4>. SUFFICES ASSUME NEW k \in DOMAIN out'[c], out'[c][k].pty = p
                    PROVE  out'[c][k].kind # "exit"
        OBVIOUS
      <4>1. \/ k \in DOMAIN out[c] /\ out'[c][k] = out[c][k]
            \/ /\ k - Len(out[c]) \in DOMAIN units
               /\ out'[c][k] = units[k - Len(out[c])]
        BY <2>1, <2>2, SendUnits
      <4>. QED BY <1>a, <2>2, <2>3, <4>1
    <3>. QED BY <1>a, <2>1, <2>3, <3>1, <3>4, <3>5, <3>6
  <2>. QED BY <2>4, <2>5
<1>9. ASSUME NEW q \in Ptys, Exit(q)
      PROVE  \A c \in Conns : \A p \in whole'[c] : Good(c, p)
  <2>. SUFFICES ASSUME NEW c \in Conns, NEW p \in whole'[c]
                PROVE  Good(c, p)
    OBVIOUS
  <2>. DEFINE units == <<ExitOf(q)>>
  <2>1. /\ phase' = [phase EXCEPT ![q] = "dead"] /\ made' = [made EXCEPT ![q] = 0]
        /\ Forget(Conns, {q}) /\ UNCHANGED idOf
    BY <1>9 DEF Exit
  <2>2. p \in whole[c] /\ p # q /\ p \in Ptys
    BY <1>a, <2>1 DEF Forget, TypeOK
  <2>3. seen'[c][p] = seen[c][p] /\ made'[p] = made[p] /\ phase'[p] = phase[p]
    BY <2>1, <2>2 DEF Forget, TypeOK
  <2>4. CASE ~OwnsRow(q)
    <3>1. UNCHANGED <<connVars, store>>
      BY <1>9, <2>4 DEF Exit
    <3>. QED BY <1>a, <2>1, <2>2, <2>3, <3>1 DEF connVars, InConns, IsOpen
  <2>5. CASE OwnsRow(q)
    <3>1. /\ SendTo(Subscribed(q), units) /\ subs'[c] = subs[c] \ {idOf[q]}
          /\ store' = [store EXCEPT ![idOf[q]] = 0]
      BY <1>9, <2>5 DEF Exit
    <3>2. units \in Seq(Unit) /\ \A k \in DOMAIN units : units[k].pty # p
      BY <2>2, Zeros DEF ExitOf, Unit
    <3>. HIDE DEF units
    <3>3. \A k \in DOMAIN out'[c] : out'[c][k].pty = p => out'[c][k].kind # "exit"
      BY <2>2, <3>1, <3>2, SentFollowing DEF FollowInv
    <3>4. (IsOpen(c)' => IsOpen(c)) /\ (InConns(c) => InConns(c)')
      BY <3>1, <3>2, OpenBefore
    <3>5. IsOpen(c)' => InStep(out'[c], p, seen[c][p], made[p])
      BY <1>a, <2>2, <3>1, <3>2, <3>4, SentInStep
    <3>6. store'[idOf[p]] = p => store[idOf[p]] = p /\ idOf[p] # idOf[q]
      <4>1. idOf[p] \in Ids /\ idOf[q] \in Ids /\ p # 0
        BY <2>2 DEF TypeOK, Ptys
      <4>. QED BY <3>1, <4>1 DEF TypeOK
    <3>. QED BY <1>a, <2>1, <2>2, <2>3, <3>1, <3>3, <3>4, <3>5, <3>6
  <2>. QED BY <2>4, <2>5
<1>. QED BY <1>1, <1>2, <1>3, <1>4, <1>5, <1>6, <1>7, <1>8, <1>9 DEF Next

-----------------------------------------------------------------------------
(* The theorems. *)

LEMMA InvInit == Init => Inv
<1> SUFFICES ASSUME Init PROVE Inv
  OBVIOUS
<1>1. TypeOK
  BY TypeInit
<1>2. LiveReachable /\ RowInv
  BY DEF Init, LiveReachable, RowInv, Live
<1>3. \A c \in Conns : out[c] = <<>> /\ DOMAIN out[c] = {}
  BY DEF Init
<1>4. UnbornInv
  BY <1>3 DEF Init, UnbornInv
<1>5. SocketInv
  BY <1>3 DEF Init, SocketInv, IsOpen
<1>6. PauseInv
  BY <1>3 DEF Init, PauseInv, Live
<1>7. ExitBeforeSuccessorOutput
  BY <1>3 DEF ExitBeforeSuccessorOutput
<1>8. FollowInv
  BY DEF Init, FollowInv, Following, ReplayThenLive
<1> QED
  BY <1>1, <1>2, <1>4, <1>5, <1>6, <1>7, <1>8 DEF Inv

LEMMA InvStep == Inv /\ [Next]_vars => Inv'
  BY TypeStep, RowStep, UnbornStep, SocketStep, PauseStep, ExitOrderStep,
     FollowingStep DEF Inv

LEMMA InvAlways == Spec => []Inv
  BY InvInit, InvStep, PTL DEF Spec

\* No interleaving of exits, closes and reopenings of one id takes the store
\* row away from a shell that is still served.
THEOREM ServedShellsReachable == Spec => []LiveReachable
<1>1. Inv => LiveReachable
  BY DEF Inv
<1> QED
  BY <1>1, InvAlways, PTL

\* A paused shell always has a connection that will release it.
THEOREM PausesHaveHolders == Spec => []PausedHasHolder
<1>1. Inv => PausedHasHolder
  <2> SUFFICES ASSUME Inv, NEW p \in Ptys, Live(p), paused[p]
               PROVE  \E c \in Conns : /\ idOf[p] \in held[c]
                                       /\ \/ conn[c] = "destroyed"
                                          \/ IsOpen(c) /\ needDrain[c] /\ out[c] # <<>>
    BY DEF PausedHasHolder
  <2>1. PICK c \in Conns : idOf[p] \in held[c]
    BY DEF Inv, PauseInv
  <2> QED
    BY <2>1 DEF Inv, SocketInv
<1> QED
  BY <1>1, InvAlways, PTL

\* Backpressure holds for as long as a connection is over its threshold.
THEOREM FlowControl == Spec => []OverThresholdIsPaused
<1>1. Inv => OverThresholdIsPaused
  BY DEF Inv, PauseInv, OverThresholdIsPaused
<1> QED
  BY <1>1, InvAlways, PTL

\* No client reads a stale exit after output of the session that reuses the id.
THEOREM ExitOrder == Spec => []ExitBeforeSuccessorOutput
<1>1. Inv => ExitBeforeSuccessorOutput
  BY DEF Inv
<1> QED
  BY <1>1, InvAlways, PTL

\* A client whose subscription began with a replay reads every later chunk of
\* the shell once and in order: what it has read and what waits for it are the
\* chunks up to the newest.
THEOREM NoGapAfterReplay == Spec => []ReplayThenLive
<1>1. Inv => ReplayThenLive
  BY DEF Inv, FollowInv
<1> QED
  BY <1>1, InvAlways, PTL
=============================================================================

--------------------------- MODULE ChatStreamProofs --------------------------
(***************************************************************************)
(* Proofs about ChatStream, for any items, sockets, page sizes and bounds  *)
(* and any course of drops, crashes and lost journals.                     *)
(*                                                                         *)
(* The argument: a replay is a window of the journal that ends with it,    *)
(* and whoever has one is registered in the same step, so what is on the   *)
(* wire of a served socket stays without a hole and ends with the journal  *)
(* (Sound).  The cursor moves with the frame the pane takes, and a new     *)
(* connection carries it (PaneInv).                                        *)
(*                                                                         *)
(* What the pane shows needs more (Shown). Its cursor says how far it has  *)
(* been sent the journal, the snapshot how far it has taken it in, and     *)
(* the frames between are a run: the rows from one to the other, with      *)
(* text that is about the newest version before it (Run, Arriving). A      *)
(* page in flight is a stretch of a journal that has only grown since      *)
(* (Pending, Paging). Showing relates the snapshot to one window of the    *)
(* rows; each reply, frame and batch moves one end of it, which is a step  *)
(* of ChatLog.                                                             *)
(***************************************************************************)
EXTENDS ChatStream, FiniteSetTheorems, TLAPS

Resets    == {"session_not_found", "epoch_changed", "journal_missing", "invalid_cursor"}
Deltas    == [kind : {"delta"}, at : {Null}, item : Items, ver : 0 .. MaxVersion]

\* What is sent: events are of an epoch and have a place in it.
Frames    == {e \in Envelopes : e.kind = "durable" => e.at.epoch # 0 /\ e.at.seq # 0}
Snapshots == [items : [Subjects -> 0 .. MaxVersion], live : [Items -> SUBSET (0 .. MaxVersion)],
              cursor : Cursors, reset : Resets \cup {"none"}]

\* The cursors of older pages name a row, or nothing.
Nexts     == {c \in Cursors : c = Null \/ c.seq > 0}
Replies   == [ok : BOOLEAN, rows : Seq(Frames), next : Nexts, why : Resets \cup {"none"}]

\* The journal never holds more than was appended, and a live session has an epoch.
HostInv ==
    /\ version \in 0 .. MaxVersion /\ minted \in Nat /\ epoch \in 0 .. minted
    /\ rows \in Seq(Row) /\ LastSeq <= version /\ bad \subseteq 1 .. LastSeq
    /\ rows # <<>> => epoch # 0
    /\ up \in BOOLEAN /\ (live => up /\ cached /\ epoch # 0)

HubInv ==
    /\ reg \subseteq Sockets
    /\ \A s \in reg : up /\ link[s] \in {"up", "cut"}
    /\ reg = {} => held = <<>>
    /\ held \in Seq(Deltas)

NetInv ==
    /\ link \in [Sockets -> {"free", "dialing", "up", "cut"}]
    /\ url \in [Sockets -> Cursors]
    /\ wire \in [Sockets -> Seq(Frames)]

\* A connection under way carries the pane's cursor.
PaneInv ==
    /\ cur \in Sockets \cup {0}
    /\ cur # 0 => link[cur] \in {"dialing", "up"}
    /\ cur # 0 /\ link[cur] = "dialing" => url[cur] = since
    /\ since \in Cursors /\ asked \in Cursors
    /\ batch \in Seq(Frames) /\ snap \in Snapshots
    /\ {page, answer, older} \subseteq Replies
    /\ nextBefore \in Nexts

Typed == HostInv /\ HubInv /\ NetInv /\ PaneInv

-----------------------------------------------------------------------------
(* Induction: over the naturals, and so over the envelopes that are reduced. *)

\* The engine of every induction below: a non-empty set of naturals has a least element.
LEMMA Least ==
    ASSUME NEW S \in SUBSET Nat, S # {}
    PROVE  \E m \in S : \A n \in S : m <= n
<1>. DEFINE F == {0 .. n : n \in S}
<1>1. F \subseteq FiniteSubsetsOf(Nat)
  <2>1. \A n \in S : IsFiniteSet(0 .. n) /\ 0 .. n \subseteq Nat
    BY FS_Interval
  <2>. QED BY <2>1 DEF FiniteSubsetsOf
<1>2. F # {}
  OBVIOUS
<1>3. PICK x \in F : \A y \in F : ~(<<y, x>> \in StrictSubsetOrdering(Nat))
  <2>1. IsWellFoundedOn(StrictSubsetOrdering(Nat), FiniteSubsetsOf(Nat))
    BY FS_StrictSubsetOrderingWellFounded
  <2>. HIDE DEF F
  <2>. QED BY <1>1, <1>2, <2>1, WFMin
<1>4. PICK m \in S : x = 0 .. m
  BY <1>3
<1>5. ASSUME NEW n \in S, n < m
      PROVE  FALSE
  <2>1. m \in 0 .. m /\ m \notin 0 .. n /\ 0 .. n \subseteq 0 .. m
    BY <1>5
  <2>2. 0 .. n # 0 .. m /\ 0 .. m \in SUBSET Nat /\ 0 .. n \in SUBSET Nat
    BY <2>1
  <2>3. <<0 .. n, x>> \in StrictSubsetOrdering(Nat)
    BY <1>4, <2>1, <2>2, Zenon DEF StrictSubsetOrdering
  <2>. QED BY <1>3, <2>3
<1>. QED BY <1>5

\* What reduceMany does: the snapshots after each envelope exist, and each is
\* the one before with its envelope applied.
LEMMA Reduction ==
    ASSUME NEW s, NEW es, Len(es) \in Nat
    PROVE  \E a : /\ a = [n \in 0 .. Len(es) |-> a[n]]
                  /\ a[0] = s
                  /\ \A n \in 1 .. Len(es) : a[n] = Apply(a[n - 1], es[n])
                  /\ ReduceMany(s, es) = a[Len(es)]
<1>. DEFINE T(a, m) == a = [n \in 0 .. m |-> IF n = 0 THEN s ELSE Apply(a[n - 1], es[n])]
            N == Len(es)
            B == {m \in 0 .. N : ~ \E a : T(a, m)}
<1>1. N \in Nat
  OBVIOUS
<1>. HIDE DEF N
<1>2. B = {}
  <2>. SUFFICES ASSUME B # {} PROVE FALSE
    OBVIOUS
  <2>1. B \in SUBSET Nat
    BY <1>1
  <2>. HIDE DEF B
  <2>2. PICK m \in B : \A n \in B : m <= n
    BY <2>1, Least
  <2>3. m \in 0 .. N /\ m \in Nat /\ ~ \E a : T(a, m)
    BY <2>1, <2>2 DEF B
  <2>4. CASE m = 0
    <3>1. T([n \in 0 .. 0 |-> s], 0)
      OBVIOUS
    <3>. QED BY <2>3, <2>4, <3>1
  <2>5. CASE m # 0
    <3>1. m - 1 \in 0 .. N /\ m - 1 < m
      BY <1>1, <2>3, <2>5
    <3>2. m - 1 \notin B
      BY <2>2, <2>3, <3>1
    <3>3. PICK a : T(a, m - 1)
      BY <3>1, <3>2 DEF B
    <3>. DEFINE b == [n \in 0 .. m |-> IF n = m THEN Apply(a[m - 1], es[m]) ELSE a[n]]
    <3>4. ASSUME NEW n \in 0 .. m
          PROVE  b[n] = IF n = 0 THEN s ELSE Apply(b[n - 1], es[n])
      <4>1. CASE n = m
        <5>1. m - 1 \in 0 .. m /\ m - 1 # m
          BY <2>3, <2>5
        <5>. QED BY <2>5, <4>1, <5>1
      <4>2. CASE n # m /\ n = 0
        <5>1. 0 \in 0 .. m - 1
          BY <2>3, <2>5
        <5>. QED BY <3>3, <4>2, <5>1
      <4>3. CASE n # m /\ n # 0
        <5>1. n \in 0 .. m - 1 /\ n - 1 \in 0 .. m /\ n - 1 # m /\ n - 1 \in 0 .. m - 1
          BY <2>3, <4>3
        <5>2. a[n] = Apply(a[n - 1], es[n])
          BY <3>3, <4>3, <5>1
        <5>. QED BY <4>3, <5>1, <5>2
      <4>. QED BY <4>1, <4>2, <4>3
    <3>5. b = [n \in 0 .. m |-> b[n]]
      OBVIOUS
    <3>. HIDE DEF b
    <3>6. T(b, m)
      BY <3>4, <3>5
    <3>. QED BY <2>3, <3>6
  <2>. QED BY <2>4, <2>5
<1>3. \E a : T(a, N)
  BY <1>1, <1>2
<1>. DEFINE after == CHOOSE a : T(a, N)
<1>4. T(after, N)
  BY <1>3
<1>5. ReduceMany(s, es) = after[N]
  BY DEF ReduceMany, N
<1>. HIDE DEF after
<1>6. after = [n \in 0 .. N |-> after[n]]
  BY <1>4
<1>7. after[0] = s
  BY <1>1, <1>4
<1>8. \A n \in 1 .. N : after[n] = Apply(after[n - 1], es[n])
  BY <1>1, <1>4
<1>. QED BY <1>5, <1>6, <1>7, <1>8 DEF N

\* The largest element of a bounded set of naturals.
LEMMA Greatest ==
    ASSUME NEW n \in Nat, NEW S \in SUBSET (0 .. n), S # {}
    PROVE  \E m \in S : \A k \in S : k <= m
<1>. DEFINE D == {n - k : k \in S}
<1>1. \A k \in S : k \in Nat /\ n - k \in Nat
  OBVIOUS
<1>2. D \in SUBSET Nat /\ D # {}
  BY <1>1
<1>. HIDE DEF D
<1>3. PICK d \in D : \A e \in D : d <= e
  BY <1>2, Least
<1>4. PICK m \in S : d = n - m
  BY <1>3 DEF D
<1>5. ASSUME NEW k \in S PROVE k <= m
  <2>1. n - k \in D
    BY DEF D
  <2>2. n - m <= n - k
    BY <1>3, <1>4, <2>1
  <2>. QED BY <1>1, <2>2
<1>. QED BY <1>5

-----------------------------------------------------------------------------
(* Types. *)

\* Epochs are only ever added: what has a type keeps it.
LEMMA TypesGrow ==
    ASSUME minted \in Nat, minted' \in Nat, minted <= minted'
    PROVE  /\ Cursors \subseteq Cursors' /\ Envelopes \subseteq Envelopes'
           /\ Frames \subseteq Frames' /\ Nexts \subseteq Nexts'
           /\ Snapshots \subseteq Snapshots' /\ Replies \subseteq Replies'
           /\ Seq(Frames) \subseteq Seq(Frames')
<1>1. Cursors \subseteq Cursors'
  BY DEF Cursors
<1>2. Envelopes \subseteq Envelopes'
  BY <1>1 DEF Envelopes
<1>3. Frames \subseteq Frames' /\ Nexts \subseteq Nexts'
  BY <1>1, <1>2 DEF Frames, Nexts
<1>4. Snapshots \subseteq Snapshots'
  BY <1>1 DEF Snapshots
<1>5. Seq(Frames) \subseteq Seq(Frames')
  BY <1>3
<1>6. Replies \subseteq Replies'
  BY <1>3, <1>5 DEF Replies
<1>. QED BY <1>1, <1>2, <1>3, <1>4, <1>5, <1>6

LEMMA Kinds ==
    ASSUME minted \in Nat
    PROVE  /\ Null \in Cursors /\ Null \in Nexts /\ Null.epoch = 0 /\ Null.seq = 0
           /\ Deltas \subseteq Frames
           /\ \A w \in Resets : Reset(w) \in Frames /\ Reset(w).kind = "reset"
           /\ \A e \in Frames : e.kind \in {"durable", "delta", "reset"}
           /\ \A e \in Frames : e.kind = "durable" =>
                 /\ e.at \in Cursors /\ e.item \in Subjects /\ e.ver \in 0 .. MaxVersion
                 /\ e.at.epoch # 0 /\ e.at.seq # 0
           /\ \A e \in Frames : e.kind = "delta" =>
                 e.item \in Items /\ e.ver \in 0 .. MaxVersion
           /\ \A e \in Frames : e.kind = "reset" => e.why \in Resets
           /\ \A e \in Deltas : e.kind = "delta"
<1>1. Null \in Cursors /\ Null \in Nexts /\ Null.epoch = 0 /\ Null.seq = 0
  BY BoundsAssumption DEF Null, At, Cursors, Nexts
<1>2. \A e \in Envelopes : e.kind \in {"durable", "delta", "reset"}
  BY DEF Envelopes, Reset
<1>3. \A e \in Envelopes : e.kind = "durable" =>
          e.at \in Cursors /\ e.item \in Subjects /\ e.ver \in 0 .. MaxVersion
  BY BoundsAssumption DEF Envelopes, Reset
<1>4. \A e \in Envelopes : e.kind = "delta" => e.item \in Items /\ e.ver \in 0 .. MaxVersion
  BY DEF Envelopes, Reset
<1>5. \A e \in Envelopes : e.kind = "reset" => e.why \in Resets
  BY DEF Envelopes, Reset, Resets
<1>6. Deltas \subseteq Frames /\ \A e \in Deltas : e.kind = "delta"
  BY DEF Deltas, Envelopes, Frames
<1>7. \A w \in Resets : Reset(w) \in Frames /\ Reset(w).kind = "reset"
  BY DEF Resets, Reset, Envelopes, Frames
<1>. QED BY <1>1, <1>2, <1>3, <1>4, <1>5, <1>6, <1>7 DEF Frames

\* The durable envelopes of a stretch of the journal.
LEMMA WindowIs ==
    ASSUME HostInv, epoch # 0, NEW f \in Nat, NEW t \in Nat, 1 <= f, f <= t + 1, t <= LastSeq
    PROVE  /\ Window(f, t) \in Seq(Frames)
           /\ Len(Window(f, t)) = t + 1 - f
           /\ \A k \in 1 .. t + 1 - f : /\ Window(f, t)[k].kind = "durable"
                                        /\ Window(f, t)[k].at = At(epoch, f + k - 1)
<1>1. t + 1 - f \in Nat /\ LastSeq \in Nat /\ LastSeq <= MaxVersion
  BY BoundsAssumption DEF HostInv, LastSeq
<1>2. ASSUME NEW k \in 1 .. t + 1 - f
      PROVE  Durable(epoch, f + k - 1, rows[f + k - 1]) \in Frames
  <2>1. f + k - 1 \in 1 .. LastSeq /\ f + k - 1 \in 0 .. MaxVersion /\ f + k - 1 # 0
    BY <1>1, BoundsAssumption
  <2>2. rows[f + k - 1] \in Row
    BY <2>1 DEF HostInv, LastSeq
  <2>3. At(epoch, f + k - 1) \in Cursors
    BY <2>1 DEF HostInv, At, Cursors
  <2>. QED BY <2>1, <2>2, <2>3 DEF Durable, Frames, Envelopes, Row, At
<1>3. Window(f, t) \in [1 .. t + 1 - f -> Frames]
  BY <1>2 DEF Window
<1>4. Window(f, t) \in Seq(Frames) /\ Len(Window(f, t)) = t + 1 - f
  BY <1>1, <1>3
<1>5. \A k \in 1 .. t + 1 - f : /\ Window(f, t)[k].kind = "durable"
                                /\ Window(f, t)[k].at = At(epoch, f + k - 1)
  BY DEF Window, Durable
<1>. QED BY <1>4, <1>5

LEMMA FailsIs ==
    ASSUME minted \in Nat
    PROVE  /\ NoPage \in Replies
           /\ \A w \in Resets : Fails(w) \in Replies /\ Fails(w).why = w /\ ~Fails(w).ok
<1>1. NoPage \in Replies
  BY Kinds DEF NoPage, Replies
<1>2. ASSUME NEW w \in Resets PROVE Fails(w) \in Replies /\ Fails(w).why = w /\ ~Fails(w).ok
  BY <1>1 DEF Fails, NoPage, Replies
<1>. QED BY <1>1, <1>2

\* A page is of the journal's epoch and names the row the next one ends before.
LEMMA ReadPageIs ==
    ASSUME HostInv, NEW before \in Nexts, NEW limit \in Nat \ {0}
    PROVE  /\ ReadPage(before, limit) \in Replies
           /\ ~ReadPage(before, limit).ok => ReadPage(before, limit).why \in Resets
<1>. DEFINE t == IF before = Null THEN LastSeq ELSE before.seq - 1
            f == IF t > limit THEN t + 1 - limit ELSE 1
            reply == [ok |-> TRUE, rows |-> Window(f, t), why |-> "none",
                     next |-> IF f > 1 THEN At(epoch, f) ELSE Null]
<1>0. minted \in Nat /\ LastSeq \in Nat /\ LastSeq <= MaxVersion
  BY BoundsAssumption DEF HostInv, LastSeq
<1>1. /\ t \in Nat /\ f \in Nat /\ 1 <= f /\ f <= t + 1
      /\ (before # Null => t < before.seq)
  BY <1>0, Kinds DEF Nexts, Cursors
<1>2. CASE /\ epoch # 0 /\ ~(before # Null /\ before.epoch # epoch)
           /\ ~(before # Null /\ before.seq > LastSeq) /\ bad \cap (f .. t) = {}
  <2>1. ReadPage(before, limit) = reply
    BY <1>2 DEF ReadPage
  <2>2. t <= LastSeq
    BY <1>0, <1>1, <1>2 DEF Nexts, Cursors
  <2>3. Window(f, t) \in Seq(Frames)
    BY <1>1, <1>2, <2>2, WindowIs
  <2>4. (IF f > 1 THEN At(epoch, f) ELSE Null) \in Nexts
    <3>1. CASE f > 1
      <4>1. f \in 0 .. MaxVersion /\ f > 0
        <5>1. f <= t
          BY <1>0, <1>1, <3>1
        <5>. QED BY <1>0, <1>1, <2>2, <5>1, BoundsAssumption
      <4>. HIDE DEF f
      <4>2. At(epoch, f) \in Cursors /\ At(epoch, f).seq > 0
        BY <4>1 DEF At, Cursors, HostInv
      <4>. QED BY <3>1, <4>2 DEF Nexts
    <3>. QED BY <1>0, <3>1, Kinds
  <2>. HIDE DEF f, t
  <2>5. reply \in Replies /\ reply.ok
    BY <2>3, <2>4 DEF Replies
  <2>. QED BY <2>1, <2>5
<1>3. CASE ~(/\ epoch # 0 /\ ~(before # Null /\ before.epoch # epoch)
             /\ ~(before # Null /\ before.seq > LastSeq) /\ bad \cap (f .. t) = {})
  <2>1. \E w \in Resets : ReadPage(before, limit) = Fails(w)
    BY <1>3 DEF ReadPage, Resets
  <2>. QED BY <1>0, <2>1, FailsIs
<1>. QED BY <1>2, <1>3

\* The bootstrap ends with the journal.
LEMMA BootstrapIs ==
    ASSUME HostInv
    PROVE  LET reply == ReadPage(Null, BootstrapLimit)
           IN  /\ ~reply.ok => reply.why \in Resets
               /\ reply.ok => /\ epoch # 0
                             /\ \E f \in Nat : /\ 1 <= f /\ f <= LastSeq + 1
                                               /\ reply.rows = Window(f, LastSeq)
<1>. DEFINE f == IF LastSeq > BootstrapLimit THEN LastSeq + 1 - BootstrapLimit ELSE 1
            reply == ReadPage(Null, BootstrapLimit)
<1>0. LastSeq \in Nat /\ BootstrapLimit \in Nat \ {0} /\ minted \in Nat /\ Null \in Nexts
  BY BoundsAssumption, Kinds DEF HostInv, LastSeq
<1>1. f \in Nat /\ 1 <= f /\ f <= LastSeq + 1
  BY <1>0
<1>2. ~reply.ok => reply.why \in Resets
  BY <1>0, ReadPageIs
<1>3. reply.ok => epoch # 0 /\ reply.rows = Window(f, LastSeq)
  <2>1. CASE epoch # 0 /\ bad \cap (f .. LastSeq) = {}
    BY <2>1 DEF ReadPage
  <2>2. CASE ~(epoch # 0 /\ bad \cap (f .. LastSeq) = {})
    <3>1. \E w \in Resets : reply = Fails(w)
      BY <2>2 DEF ReadPage, Resets
    <3>. QED BY <1>0, <3>1, FailsIs
  <2>. QED BY <2>1, <2>2
<1>. QED BY <1>1, <1>2, <1>3

LEMMA ReadSinceIs ==
    ASSUME HostInv, NEW c \in Cursors
    PROVE  /\ ReadSince(c) \in Replies
           /\ ~ReadSince(c).ok => ReadSince(c).why \in Resets
           /\ ReadSince(c).ok => /\ epoch # 0 /\ epoch = c.epoch /\ c.seq <= LastSeq
                                 /\ ReadSince(c).rows = Window(c.seq + 1, LastSeq)
<1>0. minted \in Nat /\ LastSeq \in Nat /\ LastSeq <= MaxVersion /\ c.seq \in Nat
  BY BoundsAssumption DEF HostInv, LastSeq, Cursors
<1>. DEFINE reply == [ok |-> TRUE, rows |-> Window(c.seq + 1, LastSeq), next |-> Null,
                     why |-> "none"]
<1>1. CASE /\ epoch # 0 /\ epoch = c.epoch /\ ~(LastSeq = 0 /\ c.seq > 0)
           /\ ~(c.seq > LastSeq) /\ bad \cap (c.seq + 1 .. LastSeq) = {}
  <2>1. ReadSince(c) = reply
    BY <1>1 DEF ReadSince
  <2>2. Window(c.seq + 1, LastSeq) \in Seq(Frames)
    <3>1. PICK f : f = c.seq + 1
      OBVIOUS
    <3>2. f \in Nat /\ 1 <= f /\ f <= LastSeq + 1 /\ LastSeq <= LastSeq
      BY <1>0, <1>1, <3>1
    <3>3. Window(f, LastSeq) \in Seq(Frames)
      BY <1>0, <1>1, <3>2, WindowIs
    <3>. QED BY <3>1, <3>3
  <2>3. reply \in Replies
    BY <1>0, <2>2, Kinds DEF Replies
  <2>. QED BY <1>0, <1>1, <2>1, <2>3
<1>2. CASE ~(/\ epoch # 0 /\ epoch = c.epoch /\ ~(LastSeq = 0 /\ c.seq > 0)
             /\ ~(c.seq > LastSeq) /\ bad \cap (c.seq + 1 .. LastSeq) = {})
  <2>1. \E w \in Resets : ReadSince(c) = Fails(w)
    BY <1>2 DEF ReadSince, Resets
  <2>. QED BY <1>0, <2>1, FailsIs
<1>. QED BY <1>1, <1>2

\* One envelope, and so many, make a snapshot of a snapshot.
LEMMA ApplyIs ==
    ASSUME minted \in Nat, NEW s \in Snapshots, NEW e \in Frames
    PROVE  Apply(s, e) \in Snapshots
<1>1. CASE e.kind = "reset"
  <2>1. e.why \in Resets
    BY <1>1, Kinds
  <2>2. Apply(s, e) = [s EXCEPT !.reset = e.why]
    BY <1>1 DEF Apply
  <2>. QED BY <2>1, <2>2 DEF Snapshots
<1>2. CASE e.kind = "delta"
  <2>1. e.item \in Items /\ e.ver \in 0 .. MaxVersion
    BY <1>2, Kinds
  <2>2. Apply(s, e) = [s EXCEPT !.live = [s.live EXCEPT ![e.item] = @ \cup {e.ver}]]
    BY <1>2 DEF Apply
  <2>3. [s.live EXCEPT ![e.item] = @ \cup {e.ver}] \in [Items -> SUBSET (0 .. MaxVersion)]
    BY <2>1 DEF Snapshots
  <2>. QED BY <2>2, <2>3 DEF Snapshots
<1>3. CASE e.kind = "durable" /\ s.cursor # Null /\ s.cursor.epoch # e.at.epoch
  <2>2. Apply(s, e) = [s EXCEPT !.reset = "epoch_changed"]
    BY <1>3 DEF Apply
  <2>. QED BY <2>2 DEF Snapshots, Resets
<1>4. CASE e.kind = "durable" /\ ~(s.cursor # Null /\ s.cursor.epoch # e.at.epoch)
  <2>1. e.at \in Cursors /\ e.item \in Subjects /\ e.ver \in 0 .. MaxVersion
    BY <1>4, Kinds
  <2>. DEFINE is == [s.items EXCEPT ![e.item] = e.ver]
              ls == [i \in Items |-> IF i = e.item THEN {} ELSE s.live[i]]
              c  == IF s.cursor = Null \/ e.at.seq > s.cursor.seq THEN e.at ELSE s.cursor
  <2>2. Apply(s, e) = [s EXCEPT !.items = is, !.live = ls, !.cursor = c]
    BY <1>4 DEF Apply
  <2>3. is \in [Subjects -> 0 .. MaxVersion] /\ c \in Cursors
    BY <2>1 DEF Snapshots
  <2>4. ls \in [Items -> SUBSET (0 .. MaxVersion)]
    BY DEF Snapshots
  <2>. HIDE DEF is, ls, c
  <2>. QED BY <2>2, <2>3, <2>4 DEF Snapshots
<1>. QED BY <1>1, <1>2, <1>3, <1>4, Kinds

LEMMA ReduceIs ==
    ASSUME minted \in Nat, NEW s \in Snapshots, NEW es \in Seq(Frames)
    PROVE  ReduceMany(s, es) \in Snapshots
<1>1. Len(es) \in Nat /\ \A n \in 1 .. Len(es) : es[n] \in Frames
  OBVIOUS
<1>2. PICK a : /\ a[0] = s /\ ReduceMany(s, es) = a[Len(es)]
               /\ \A n \in 1 .. Len(es) : a[n] = Apply(a[n - 1], es[n])
  BY <1>1, Reduction
<1>. DEFINE B == {n \in 0 .. Len(es) : a[n] \notin Snapshots}
<1>3. B = {}
  <2>. SUFFICES ASSUME B # {} PROVE FALSE
    OBVIOUS
  <2>1. B \in SUBSET Nat
    BY <1>1
  <2>. HIDE DEF B
  <2>2. PICK m \in B : \A n \in B : m <= n
    BY <2>1, Least
  <2>3. m \in 0 .. Len(es) /\ a[m] \notin Snapshots
    BY <2>2 DEF B
  <2>4. m # 0
    BY <1>2, <2>3
  <2>5. m - 1 \in 0 .. Len(es) /\ m - 1 < m /\ m \in 1 .. Len(es)
    BY <1>1, <2>3, <2>4
  <2>6. a[m - 1] \in Snapshots
    BY <2>2, <2>5 DEF B
  <2>. QED BY <1>1, <1>2, <2>3, <2>5, <2>6, ApplyIs
<1>. QED BY <1>1, <1>2, <1>3

\* The version of an item's newest event, or zero.
LEMMA LatestIs ==
    ASSUME HostInv, NEW i, NEW n \in Nat
    PROVE  Latest(i, n) \in 0 .. MaxVersion
<1>. DEFINE about == {k \in 1 .. n : k <= LastSeq /\ rows[k].item = i}
<1>0. LastSeq \in Nat /\ \A k \in 1 .. LastSeq : rows[k] \in Row
  BY DEF LastSeq, HostInv
<1>1. CASE about = {}
  BY <1>1, BoundsAssumption DEF Latest
<1>2. CASE about # {}
  <2>1. about \in SUBSET (0 .. n)
    OBVIOUS
  <2>2. Latest(i, n) = rows[CHOOSE k \in about : \A j \in about : j <= k].ver
    BY <1>2 DEF Latest
  <2>3. \A k \in about : rows[k].ver \in 0 .. MaxVersion
    BY <1>0, BoundsAssumption DEF Row
  <2>. HIDE DEF about
  <2>4. \E k \in about : \A j \in about : j <= k
    BY <1>2, <2>1, Greatest
  <2>5. (CHOOSE k \in about : \A j \in about : j <= k) \in about
    BY <2>4
  <2>. QED BY <2>2, <2>3, <2>5
<1>. QED BY <1>1, <1>2

LEMMA TypesSame ==
    ASSUME minted' = minted
    PROVE  /\ Cursors' = Cursors /\ Frames' = Frames /\ Nexts' = Nexts
           /\ Snapshots' = Snapshots /\ Replies' = Replies
<1>1. Cursors' = Cursors
  BY DEF Cursors
<1>2. Envelopes' = Envelopes
  BY <1>1 DEF Envelopes
<1>3. Frames' = Frames /\ Nexts' = Nexts
  BY <1>1, <1>2 DEF Frames, Nexts
<1>. QED BY <1>1, <1>3 DEF Snapshots, Replies

\* A send leaves every wire typed.
LEMMA SentIs ==
    ASSUME NEW F, NEW w \in [Sockets -> Seq(F)], NEW es \in Seq(F)
    PROVE  Sent(w, es) \in [Sockets -> Seq(F)]
<1>1. \A s \in Sockets : w[s] \o es \in Seq(F)
  OBVIOUS
<1>. QED BY <1>1 DEF Sent

LEMMA HostStays ==
    ASSUME HostInv, UNCHANGED <<hostVars, version>>
    PROVE  HostInv' /\ minted' = minted /\ epoch' = epoch /\ rows' = rows
BY DEF HostInv, hostVars, LastSeq

\* The pane's own state outlives whatever the host does.
LEMMA PaneStays ==
    ASSUME PaneInv, minted \in Nat, minted' \in Nat, minted <= minted',
           UNCHANGED <<seedVars, cur, since, batch, snap, answer, nextBefore, older>>,
           cur # 0 => link'[cur] \in {link[cur], "up"} /\ url'[cur] = url[cur]
    PROVE  PaneInv'
<1>1. UNCHANGED <<asked, page>>
  BY DEF seedVars
<1>2. /\ since' \in Cursors' /\ asked' \in Cursors'
      /\ batch' \in Seq(Frames') /\ snap' \in Snapshots'
      /\ {page', answer', older'} \subseteq Replies'
      /\ nextBefore' \in Nexts'
  BY <1>1, TypesGrow DEF PaneInv
<1>. QED BY <1>2 DEF PaneInv

LEMMA NetStays ==
    ASSUME NetInv, minted \in Nat, minted' \in Nat, minted <= minted',
           UNCHANGED <<link, url>>, wire' \in [Sockets -> Seq(Frames')]
    PROVE  NetInv'
<1>1. url' \in [Sockets -> Cursors']
  BY TypesGrow DEF NetInv
<1>. QED BY <1>1 DEF NetInv

\* The journal grows by one row, and its event is sent.
LEMMA AppendIs ==
    ASSUME HostInv, HubInv, NetInv, NEW e, NEW i \in Subjects, e \in 1 .. minted',
           minted' \in Nat, minted <= minted', AppendEnvelope(e, i)
    PROVE  /\ rows' \in Seq(Row) /\ Len(rows') = LastSeq + 1
           /\ version' \in 0 .. MaxVersion /\ LastSeq + 1 <= version'
           /\ wire' \in [Sockets -> Seq(Frames')] /\ held' = <<>>
           /\ \E d : /\ wire' = Sent(wire, held \o <<d>>)
                    /\ d.kind = "durable" /\ d.at = At(e, LastSeq + 1)
<1>. DEFINE row == [item |-> i, ver |-> version + 1]
            d   == Durable(e, LastSeq + 1, row)
<1>0. minted \in Nat /\ LastSeq \in Nat /\ LastSeq <= version /\ version \in Nat
  BY BoundsAssumption DEF HostInv, LastSeq
<1>1. /\ version' = version + 1 /\ version + 1 <= MaxVersion
      /\ rows' = Append(rows, row) /\ held' = <<>>
      /\ wire' = Sent(wire, held \o <<d>>)
  BY <1>0, BoundsAssumption DEF AppendEnvelope, Publish
<1>2. row \in Row
  BY <1>0, <1>1, BoundsAssumption DEF Row
<1>3. rows' \in Seq(Row) /\ Len(rows') = LastSeq + 1
  BY <1>1, <1>2 DEF HostInv, LastSeq
<1>4. d \in Frames' /\ d.kind = "durable" /\ d.at = At(e, LastSeq + 1)
  <2>1. LastSeq + 1 \in 0 .. MaxVersion /\ version + 1 \in 1 .. MaxVersion
    BY <1>0, <1>1, BoundsAssumption
  <2>2. At(e, LastSeq + 1) \in Cursors' /\ At(e, LastSeq + 1).epoch = e /\ e # 0
        /\ At(e, LastSeq + 1).seq = LastSeq + 1 /\ LastSeq + 1 # 0
    BY <1>0, <2>1 DEF Cursors, At
  <2>. QED BY <2>1, <2>2 DEF Durable, Frames, Envelopes
<1>5. wire \in [Sockets -> Seq(Frames')] /\ held \in Seq(Frames')
  BY <1>0, Kinds, TypesGrow DEF NetInv, HubInv
<1>. HIDE DEF d, row
<1>6. wire' \in [Sockets -> Seq(Frames')]
  <2>1. held \o <<d>> \in Seq(Frames')
    BY <1>4, <1>5
  <2>. HIDE DEF d
  <2>. QED BY <1>1, <1>5, <2>1, SentIs
<1>7. version' \in 0 .. MaxVersion /\ LastSeq + 1 <= version'
  BY <1>0, <1>1, BoundsAssumption
<1>. QED BY <1>1, <1>3, <1>4, <1>6, <1>7

LEMMA OpenEpochIs ==
    ASSUME HostInv, OpenEpoch
    PROVE  /\ minted' \in Nat /\ minted <= minted' /\ epoch' \in 1 .. minted'
           /\ epoch # 0 /\ LastSeq > 0 => epoch' = epoch
           /\ ~(epoch # 0 /\ LastSeq > 0) => epoch' = minted + 1 /\ LastSeq = 0
<1>1. minted \in Nat /\ LastSeq \in Nat /\ (epoch = 0 => LastSeq = 0)
  BY DEF HostInv, LastSeq
<1>. QED BY <1>1 DEF OpenEpoch, HostInv

LEMMA OpenSessionTyped ==
    ASSUME Typed, OpenSession
    PROVE  Typed'
<1>1. /\ up /\ bad = {} /\ live' = TRUE /\ cached' = TRUE
      /\ OpenEpoch /\ AppendEnvelope(epoch', State)
      /\ UNCHANGED <<up, bad, reg, link, url, seedVars, paneVars>>
  BY DEF OpenSession
<1>2. State \in Subjects
  BY DEF Subjects
<1>3. /\ minted \in Nat /\ minted' \in Nat /\ minted <= minted' /\ epoch' \in 1 .. minted'
  BY <1>1, OpenEpochIs DEF Typed, HostInv
<1>4. /\ rows' \in Seq(Row) /\ Len(rows') = LastSeq + 1
      /\ version' \in 0 .. MaxVersion /\ LastSeq + 1 <= version'
      /\ wire' \in [Sockets -> Seq(Frames')] /\ held' = <<>>
  BY <1>1, <1>2, <1>3, AppendIs DEF Typed
<1>5. HostInv'
  BY <1>1, <1>3, <1>4 DEF Typed, HostInv, LastSeq
<1>6. HubInv'
  BY <1>1, <1>4 DEF Typed, HubInv
<1>7. NetInv'
  BY <1>1, <1>3, <1>4, NetStays DEF Typed
<1>8. PaneInv'
  BY <1>1, <1>3, PaneStays DEF Typed, paneVars
<1>. QED BY <1>5, <1>6, <1>7, <1>8 DEF Typed

LEMMA AppendEventTyped ==
    ASSUME Typed, NEW i \in Subjects, AppendEvent(i)
    PROVE  Typed'
<1>1. /\ up /\ live /\ AppendEnvelope(epoch, i)
      /\ UNCHANGED <<up, live, cached, epoch, minted, bad, reg, link, url, seedVars, paneVars>>
  BY DEF AppendEvent
<1>3. /\ minted \in Nat /\ minted' \in Nat /\ minted <= minted' /\ epoch \in 1 .. minted'
  BY <1>1 DEF Typed, HostInv
<1>4. /\ rows' \in Seq(Row) /\ Len(rows') = LastSeq + 1
      /\ version' \in 0 .. MaxVersion /\ LastSeq + 1 <= version'
      /\ wire' \in [Sockets -> Seq(Frames')] /\ held' = <<>>
  BY <1>1, <1>3, AppendIs DEF Typed
<1>5. HostInv'
  <2>1. LastSeq \in Nat /\ bad \subseteq 1 .. LastSeq /\ 1 .. LastSeq \subseteq 1 .. LastSeq + 1
    BY DEF Typed, HostInv, LastSeq
  <2>. QED BY <1>1, <1>3, <1>4, <2>1 DEF Typed, HostInv, LastSeq
<1>6. HubInv'
  BY <1>1, <1>4 DEF Typed, HubInv
<1>7. NetInv'
  BY <1>1, <1>3, <1>4, NetStays DEF Typed
<1>8. PaneInv'
  BY <1>1, <1>3, PaneStays DEF Typed, paneVars
<1>. QED BY <1>5, <1>6, <1>7, <1>8 DEF Typed

LEMMA OpenVoidTyped ==
    ASSUME Typed, OpenVoid
    PROVE  Typed'
<1>1. /\ up /\ OpenEpoch /\ cached' = TRUE
      /\ UNCHANGED <<up, live, rows, bad, hubVars, netVars, seedVars, paneVars, version>>
  BY DEF OpenVoid
<1>2. UNCHANGED <<reg, held, link, url, wire>>
  BY <1>1 DEF hubVars, netVars
<1>3. /\ minted \in Nat /\ minted' \in Nat /\ minted <= minted' /\ epoch' \in 1 .. minted'
  BY <1>1, OpenEpochIs DEF Typed, HostInv
<1>5. HostInv'
  BY <1>1, <1>3 DEF Typed, HostInv, LastSeq
<1>6. HubInv'
  BY <1>1, <1>2 DEF Typed, HubInv
<1>7. NetInv'
  <2>1. wire' \in [Sockets -> Seq(Frames')]
    BY <1>2, <1>3, TypesGrow DEF Typed, NetInv
  <2>. QED BY <1>2, <1>3, <2>1, NetStays DEF Typed
<1>8. PaneInv'
  BY <1>1, <1>2, <1>3, PaneStays DEF Typed, paneVars
<1>. QED BY <1>5, <1>6, <1>7, <1>8 DEF Typed

LEMMA PublishDeltaTyped ==
    ASSUME Typed, NEW i \in Items, PublishDelta(i)
    PROVE  Typed'
<1>1. /\ up /\ reg # {} /\ held' = Append(held, Delta(i, Latest(i, LastSeq)))
      /\ UNCHANGED <<hostVars, reg, netVars, seedVars, paneVars, version>>
  BY DEF PublishDelta
<1>2. UNCHANGED <<up, minted, link, url, wire>>
  BY <1>1 DEF hostVars, netVars
<1>3. HostInv' /\ minted \in Nat /\ LastSeq \in Nat
  BY <1>1, HostStays DEF Typed, HostInv, LastSeq
<1>4. held' \in Seq(Deltas)
  <2>1. Delta(i, Latest(i, LastSeq)) \in Deltas
    BY <1>3, LatestIs DEF Delta, Deltas, Typed
  <2>. QED BY <1>1, <2>1 DEF Typed, HubInv
<1>6. HubInv'
  BY <1>1, <1>2, <1>4 DEF Typed, HubInv
<1>7. NetInv'
  BY <1>2, TypesSame DEF Typed, NetInv
<1>8. PaneInv'
  BY <1>1, <1>2, <1>3, PaneStays DEF Typed, paneVars
<1>. QED BY <1>3, <1>6, <1>7, <1>8 DEF Typed

LEMMA FlushDeltasTyped ==
    ASSUME Typed, FlushDeltas
    PROVE  Typed'
<1>1. /\ up /\ held' = <<>> /\ wire' = Sent(wire, held)
      /\ UNCHANGED <<hostVars, reg, link, url, seedVars, paneVars, version>>
  BY DEF FlushDeltas, histVars
<1>2. UNCHANGED <<up, minted>>
  BY <1>1 DEF hostVars
<1>3. HostInv' /\ minted \in Nat
  BY <1>1, HostStays DEF Typed, HostInv
<1>6. HubInv'
  BY <1>1, <1>2 DEF Typed, HubInv
<1>7. NetInv'
  <2>1. wire \in [Sockets -> Seq(Frames)] /\ held \in Seq(Frames)
    BY <1>3, Kinds DEF Typed, NetInv, HubInv
  <2>2. wire' \in [Sockets -> Seq(Frames')]
    BY <1>1, <1>2, <2>1, SentIs, TypesSame
  <2>. QED BY <1>1, <1>2, <1>3, <2>2, NetStays DEF Typed
<1>8. PaneInv'
  BY <1>1, <1>2, <1>3, PaneStays DEF Typed, paneVars
<1>. QED BY <1>3, <1>6, <1>7, <1>8 DEF Typed

\* What a new subscriber is sent.
Replay(s)  == IF url[s] = Null THEN ReadPage(Null, BootstrapLimit) ELSE ReadSince(url[s])
Replied(s) == IF Replay(s).ok THEN Replay(s).rows ELSE <<Reset(Replay(s).why)>>

LEMMA RepliedIs ==
    ASSUME Typed, NEW s \in Sockets
    PROVE  Replied(s) \in Seq(Frames)
<1>1. minted \in Nat /\ url[s] \in Cursors
  BY DEF Typed, HostInv, NetInv
<1>2. Replay(s) \in Replies /\ (~Replay(s).ok => Replay(s).why \in Resets)
  BY <1>1, ReadPageIs, ReadSinceIs, Kinds, BoundsAssumption DEF Replay, Typed
<1>3. Replay(s).rows \in Seq(Frames)
  BY <1>2 DEF Replies
<1>4. ~Replay(s).ok => Reset(Replay(s).why) \in Frames
  BY <1>1, <1>2, Kinds
<1>. QED BY <1>3, <1>4 DEF Replied

LEMMA SubscribeDoes ==
    ASSUME NEW s \in Sockets, Subscribe(s)
    PROVE  /\ up /\ link[s] = "dialing"
           /\ link' = [link EXCEPT ![s] = "up"]
           /\ wire' = [Sent(wire, held) EXCEPT ![s] = Replied(s)]
           /\ held' = <<>> /\ reg' = reg \cup {s}
           /\ UNCHANGED <<hostVars, url, seedVars, paneVars, histVars>>
BY DEF Subscribe, Replied, Replay

LEMMA SubscribeTyped ==
    ASSUME Typed, NEW s \in Sockets, Subscribe(s)
    PROVE  Typed'
<1>1. /\ up /\ link[s] = "dialing"
      /\ link' = [link EXCEPT ![s] = "up"]
      /\ wire' = [Sent(wire, held) EXCEPT ![s] = Replied(s)]
      /\ held' = <<>> /\ reg' = reg \cup {s}
      /\ UNCHANGED <<hostVars, url, seedVars, paneVars, version>>
  BY SubscribeDoes DEF histVars
<1>2. UNCHANGED <<up, minted>>
  BY <1>1 DEF hostVars
<1>3. HostInv' /\ minted \in Nat
  BY <1>1, HostStays DEF Typed, HostInv
<1>4. link' \in [Sockets -> {"free", "dialing", "up", "cut"}]
  BY <1>1 DEF Typed, NetInv
<1>6. HubInv'
  <2>1. \A t \in reg' : up' /\ link'[t] \in {"up", "cut"}
    BY <1>1, <1>2 DEF Typed, HubInv, NetInv
  <2>. QED BY <1>1, <2>1 DEF Typed, HubInv
<1>7. NetInv'
  <2>1. wire \in [Sockets -> Seq(Frames)] /\ held \in Seq(Frames)
    BY <1>3, Kinds DEF Typed, NetInv, HubInv
  <2>2. Sent(wire, held) \in [Sockets -> Seq(Frames)]
    BY <2>1, SentIs
  <2>3. wire' \in [Sockets -> Seq(Frames)]
    BY <1>1, <2>2, RepliedIs
  <2>. QED BY <1>1, <1>2, <1>4, <2>3, TypesSame DEF Typed, NetInv
<1>8. PaneInv'
  <2>1. cur # 0 => link'[cur] \in {link[cur], "up"} /\ url'[cur] = url[cur]
    BY <1>1 DEF Typed, NetInv, PaneInv
  <2>. QED BY <1>1, <1>2, <1>3, <2>1, PaneStays DEF Typed, paneVars
<1>. QED BY <1>3, <1>6, <1>7, <1>8 DEF Typed

LEMMA UnsubscribeTyped ==
    ASSUME Typed, NEW s \in Sockets, Unsubscribe(s)
    PROVE  Typed'
<1>1. /\ up /\ link[s] = "cut" /\ reg' = reg \ {s}
      /\ held' = (IF reg' = {} THEN <<>> ELSE held)
      /\ link' = [link EXCEPT ![s] = "free"]
      /\ UNCHANGED <<hostVars, url, wire, seedVars, paneVars, version>>
  BY DEF Unsubscribe, Unsubscribed, histVars
<1>2. UNCHANGED <<up, minted>> /\ s # cur
  BY <1>1, BoundsAssumption DEF hostVars, Typed, PaneInv
<1>3. HostInv' /\ minted \in Nat
  BY <1>1, HostStays DEF Typed, HostInv
<1>4. link' \in [Sockets -> {"free", "dialing", "up", "cut"}]
      /\ \A t \in Sockets : t # s => link'[t] = link[t]
  BY <1>1 DEF Typed, NetInv
<1>5. <<>> \in Seq(Deltas)
  OBVIOUS
<1>6. HubInv'
  <2>1. held' \in Seq(Deltas)
    BY <1>1, <1>5 DEF Typed, HubInv
  <2>2. reg' \subseteq Sockets /\ \A t \in reg' : t \in reg /\ t # s
    BY <1>1 DEF Typed, HubInv
  <2>3. \A t \in reg' : up' /\ link'[t] \in {"up", "cut"}
    BY <1>1, <1>2, <1>4, <2>2 DEF Typed, HubInv
  <2>. QED BY <1>1, <2>1, <2>2, <2>3 DEF HubInv
<1>7. NetInv'
  BY <1>1, <1>2, <1>4, TypesSame DEF Typed, NetInv
<1>8. PaneInv'
  <2>1. cur # 0 => link'[cur] \in {link[cur], "up"} /\ url'[cur] = url[cur]
    BY <1>1, <1>2, <1>4 DEF Typed, PaneInv
  <2>. QED BY <1>1, <1>2, <1>3, <2>1, PaneStays DEF Typed, paneVars
<1>. QED BY <1>3, <1>6, <1>7, <1>8 DEF Typed

LEMMA HostCrashTyped ==
    ASSUME Typed, HostCrash
    PROVE  Typed'
<1>1. /\ up' = FALSE /\ live' = FALSE /\ cached' = FALSE /\ reg' = {} /\ held' = <<>>
      /\ link' = [s \in Sockets |-> IF link[s] = "cut" THEN "free" ELSE link[s]]
      /\ UNCHANGED <<epoch, minted, rows, bad, url, wire, seedVars, paneVars, version>>
  BY DEF HostCrash
<1>2. HostInv' /\ minted \in Nat
  BY <1>1 DEF Typed, HostInv, LastSeq
<1>3. HubInv'
  BY <1>1 DEF HubInv
<1>4. link' \in [Sockets -> {"free", "dialing", "up", "cut"}]
  BY <1>1 DEF Typed, NetInv
<1>7. NetInv'
  BY <1>1, <1>4, TypesSame DEF Typed, NetInv
<1>8. PaneInv'
  <2>1. cur # 0 => link'[cur] \in {link[cur], "up"} /\ url'[cur] = url[cur]
    BY <1>1 DEF Typed, PaneInv
  <2>. QED BY <1>1, <1>2, <2>1, PaneStays DEF Typed, paneVars
<1>. QED BY <1>2, <1>3, <1>7, <1>8 DEF Typed

LEMMA RestartTyped ==
    ASSUME Typed,
           \/ HostRestart \/ RestartWithoutJournal
           \/ \E k \in 1 .. LastSeq : RestartWithBadRow(k)
    PROVE  Typed'
<1>1. /\ ~up /\ up' = TRUE
      /\ rows' \in {rows, <<>>}
      /\ \/ bad' = {}
         \/ rows' = rows /\ (bad' = bad \/ \E k \in 1 .. LastSeq : bad' = {k})
      /\ UNCHANGED <<live, cached, epoch, minted, hubVars, netVars, seedVars, paneVars, version>>
  BY DEF HostRestart, RestartWithoutJournal, RestartWithBadRow, histVars
<1>2. UNCHANGED <<reg, held, link, url, wire>> /\ minted \in Nat /\ reg = {} /\ ~live
  BY <1>1 DEF hubVars, netVars, Typed, HostInv, HubInv
<1>3. HostInv'
  <2>1. rows' \in Seq(Row) /\ Len(rows') <= version /\ (rows' # <<>> => epoch # 0)
    <3>1. /\ rows \in Seq(Row) /\ Len(rows) <= version /\ version \in Nat
          /\ (rows # <<>> => epoch # 0)
      BY BoundsAssumption DEF Typed, HostInv, LastSeq
    <3>2. <<>> \in Seq(Row) /\ Len(<<>>) = 0
      OBVIOUS
    <3>3. CASE rows' = rows
      BY <3>1, <3>3
    <3>4. CASE rows' = <<>>
      BY <3>1, <3>2, <3>4
    <3>. QED BY <1>1, <3>3, <3>4
  <2>2. bad' \subseteq 1 .. Len(rows')
    <3>1. bad \subseteq 1 .. LastSeq
      BY DEF Typed, HostInv
    <3>2. CASE bad' = {}
      BY <3>2
    <3>3. CASE rows' = rows /\ (bad' = bad \/ \E k \in 1 .. LastSeq : bad' = {k})
      <4>1. Len(rows') = LastSeq
        BY <3>3 DEF LastSeq
      <4>2. bad' \subseteq 1 .. LastSeq
        BY <3>1, <3>3
      <4>. QED BY <4>1, <4>2
    <3>. QED BY <1>1, <3>2, <3>3
  <2>. QED BY <1>1, <1>2, <2>1, <2>2 DEF Typed, HostInv, LastSeq
<1>4. HubInv'
  BY <1>1, <1>2 DEF Typed, HubInv
<1>7. NetInv'
  BY <1>1, <1>2, TypesSame DEF Typed, NetInv
<1>8. PaneInv'
  BY <1>1, <1>2, PaneStays DEF Typed, paneVars
<1>. QED BY <1>3, <1>4, <1>7, <1>8 DEF Typed

\* A step of the pane, or a reply to it: host and network stay as they are.
LEMMA OutsideStays ==
    ASSUME Typed, UNCHANGED <<up, live, epoch, minted, rows, bad, hubVars, netVars, version>>,
           cached => cached'
    PROVE  /\ HostInv' /\ HubInv' /\ NetInv'
           /\ minted \in Nat /\ minted' = minted /\ UNCHANGED <<link, url, wire>>
<1>1. UNCHANGED <<reg, held, link, url, wire>>
  BY DEF hubVars, netVars
<1>2. HostInv' /\ minted \in Nat
  BY DEF Typed, HostInv, LastSeq
<1>3. HubInv' /\ NetInv'
  BY <1>1, TypesSame DEF Typed, HubInv, NetInv
<1>. QED BY <1>1, <1>2, <1>3

LEMMA RepliesTyped ==
    ASSUME Typed,
           \/ Mount \/ ServeSession \/ ServeItems \/ SeedFails \/ Render \/ ServeResync
           \/ ResyncFails \/ LoadOlder \/ LoadOlderFails
    PROVE  Typed'
<1>1. /\ UNCHANGED <<up, live, epoch, minted, rows, bad, hubVars, netVars, version,
                     cur, since, batch, snap>>
      /\ cached => cached'
  BY DEF Mount, ServeSession, ServeItems, SeedFails, Render, ServeResync, ResyncFails,
         LoadOlder, LoadOlderFails, hostVars, paneVars, histVars
<1>2. /\ HostInv' /\ HubInv' /\ NetInv'
      /\ minted \in Nat /\ minted' = minted /\ UNCHANGED <<link, url, wire>>
  BY <1>1, OutsideStays
<1>3. /\ Null \in Nexts /\ NoPage \in Replies /\ nextBefore \in Nexts
      /\ PageSize \in Nat \ {0}
  BY <1>2, Kinds, FailsIs, BoundsAssumption DEF Typed, PaneInv
<1>4. \A b \in Nexts : ReadPage(b, PageSize) \in Replies
  BY <1>3, ReadPageIs DEF Typed
<1>5. At(epoch, LastSeq) \in Cursors
  <2>1. LastSeq \in 0 .. MaxVersion
    BY BoundsAssumption DEF Typed, HostInv, LastSeq
  <2>. QED BY <2>1 DEF At, Cursors, Typed, HostInv
<1>6. asked' \in Cursors /\ {page', answer', older'} \subseteq Replies /\ nextBefore' \in Nexts
  <2>0. asked \in Cursors /\ {page, answer, older} \subseteq Replies
    BY DEF Typed, PaneInv
  <2>1. CASE Mount \/ SeedFails \/ Render
    BY <1>3, <2>0, <2>1 DEF Mount, SeedFails, Render, seedVars, paneVars
  <2>2. CASE ServeSession
    BY <1>3, <1>5, <2>0, <2>2 DEF ServeSession, paneVars
  <2>3. CASE ServeItems
    BY <1>3, <1>4, <2>0, <2>3 DEF ServeItems, paneVars
  <2>4. CASE ServeResync
    BY <1>3, <1>4, <2>0, <2>4 DEF ServeResync, seedVars
  <2>5. CASE ResyncFails
    BY <1>3, <2>0, <2>5 DEF ResyncFails, seedVars
  <2>6. CASE LoadOlder
    <3>1. PICK r : r = ReadPage(nextBefore, PageSize)
      OBVIOUS
    <3>2. r \in Replies /\ [r EXCEPT !.next = nextBefore] \in Replies
      BY <1>3, <1>4, <3>1 DEF Replies
    <3>3. older' \in {r, [r EXCEPT !.next = nextBefore]} /\ nextBefore' = Null
      BY <2>6, <3>1 DEF LoadOlder
    <3>4. UNCHANGED <<asked, page, answer>>
      BY <2>6 DEF LoadOlder, seedVars
    <3>. QED BY <1>3, <2>0, <3>2, <3>3, <3>4
  <2>7. CASE LoadOlderFails
    BY <1>3, <2>0, <2>7 DEF LoadOlderFails, seedVars
  <2>. QED BY <2>1, <2>2, <2>3, <2>4, <2>5, <2>6, <2>7
<1>7. PaneInv'
  BY <1>1, <1>2, <1>6, TypesSame DEF Typed, PaneInv
<1>. QED BY <1>2, <1>7 DEF Typed

LEMMA EmptyIs == minted \in Nat => Empty \in Snapshots
<1>. SUFFICES ASSUME minted \in Nat PROVE Empty \in Snapshots
  OBVIOUS
<1>1. Null \in Cursors /\ 0 \in 0 .. MaxVersion
  BY Kinds, BoundsAssumption
<1>. QED BY <1>1 DEF Empty, Snapshots

\* The frame callback, the resync and an older page reduce envelopes.
LEMMA ReducesTyped ==
    ASSUME Typed, Commit \/ ApplyResync \/ ApplyOlder
    PROVE  Typed'
<1>1. UNCHANGED <<up, live, cached, epoch, minted, rows, bad, hubVars, netVars, version,
                  seedVars, cur, since>>
  BY DEF Commit, ApplyResync, ApplyOlder, hostVars, histVars
<1>2. /\ HostInv' /\ HubInv' /\ NetInv'
      /\ minted \in Nat /\ minted' = minted /\ UNCHANGED <<link, url, wire>>
  BY <1>1, OutsideStays
<1>3. /\ snap \in Snapshots /\ batch \in Seq(Frames) /\ {page, answer, older} \subseteq Replies
      /\ answer.rows \in Seq(Frames) /\ older.rows \in Seq(Frames)
      /\ answer.next \in Nexts /\ older.next \in Nexts /\ nextBefore \in Nexts
      /\ NoPage \in Replies /\ Empty \in Snapshots /\ Null \in Cursors
  BY <1>2, FailsIs, EmptyIs, Kinds DEF Typed, PaneInv, Replies
<1>4. /\ snap' \in Snapshots /\ batch' \in Seq(Frames) /\ {answer', older'} \subseteq Replies
      /\ nextBefore' \in Nexts
  <2>1. CASE Commit
    <3>1. ReduceMany(snap, batch) \in Snapshots
      BY <1>2, <1>3, ReduceIs
    <3>. QED BY <1>3, <2>1, <3>1 DEF Commit
  <2>2. CASE ApplyResync
    <3>1. [snap EXCEPT !.cursor = Null, !.reset = "none"] \in Snapshots
      BY <1>3 DEF Snapshots
    <3>2. ReduceMany([snap EXCEPT !.cursor = Null, !.reset = "none"], answer.rows) \in Snapshots
      BY <1>2, <1>3, <3>1, ReduceIs
    <3>. QED BY <1>3, <2>2, <3>2 DEF ApplyResync
  <2>3. CASE ApplyOlder
    <3>. DEFINE old == ReduceMany(Empty, older.rows).items
                is  == [i \in Subjects |-> IF snap.items[i] = 0 /\ i # State
                                           THEN old[i] ELSE snap.items[i]]
    <3>1. ReduceMany(Empty, older.rows) \in Snapshots
      BY <1>2, <1>3, ReduceIs
    <3>2. old \in [Subjects -> 0 .. MaxVersion] /\ snap.items \in [Subjects -> 0 .. MaxVersion]
      BY <1>3, <3>1 DEF Snapshots
    <3>3. snap' = [snap EXCEPT !.items = is]
      BY <2>3 DEF ApplyOlder
    <3>. HIDE DEF old
    <3>4. is \in [Subjects -> 0 .. MaxVersion]
      BY <3>2
    <3>. HIDE DEF is
    <3>5. snap' \in Snapshots
      BY <1>3, <3>3, <3>4 DEF Snapshots
    <3>. QED BY <1>3, <2>3, <3>5 DEF ApplyOlder
  <2>. QED BY <2>1, <2>2, <2>3
<1>5. UNCHANGED <<asked, page>>
  BY <1>1 DEF seedVars
<1>7. PaneInv'
  BY <1>1, <1>2, <1>3, <1>4, <1>5, TypesSame DEF Typed, PaneInv
<1>. QED BY <1>2, <1>7 DEF Typed

\* A socket is dialled from the free ones; nobody serves it yet.
LEMMA DialTyped ==
    ASSUME Typed, NEW s \in Sockets, NEW c \in Cursors, Dial(s, c),
           UNCHANGED <<minted, up, reg, held>>
    PROVE  /\ HubInv' /\ NetInv' /\ cur' = s /\ s # 0
           /\ link'[s] = "dialing" /\ url'[s] = c
<1>1. /\ link[s] = "free" /\ cur' = s
      /\ link' = [link EXCEPT ![s] = "dialing"]
      /\ url' = [url EXCEPT ![s] = c]
      /\ wire' = [wire EXCEPT ![s] = <<>>]
  BY DEF Dial
<1>2. s \notin reg
  BY <1>1 DEF Typed, HubInv
<1>3. link' \in [Sockets -> {"free", "dialing", "up", "cut"}] /\ url' \in [Sockets -> Cursors]
  BY <1>1 DEF Typed, NetInv
<1>4. wire' \in [Sockets -> Seq(Frames)]
  <2>1. <<>> \in Seq(Frames)
    OBVIOUS
  <2>. QED BY <1>1, <2>1 DEF Typed, NetInv
<1>5. HubInv'
  BY <1>1, <1>2 DEF Typed, HubInv, NetInv
<1>6. NetInv'
  BY <1>3, <1>4, TypesSame DEF NetInv
<1>. QED BY <1>1, <1>5, <1>6, BoundsAssumption DEF Typed, NetInv

LEMMA SeedTyped ==
    ASSUME Typed, NEW s \in Sockets, Seed(s)
    PROVE  Typed' /\ cur' = s /\ link'[s] = "dialing"
<1>1. /\ snap' = Seeded /\ nextBefore' = page.next /\ since' = SeedCursor
      /\ Dial(s, SeedCursor)
      /\ UNCHANGED <<hostVars, hubVars, asked, page, batch, answer, older, version>>
  BY DEF Seed
<1>2. UNCHANGED <<minted, up, reg, held>>
  BY <1>1 DEF hostVars, hubVars
<1>3. HostInv' /\ minted \in Nat
  BY <1>1, HostStays DEF Typed, HostInv
<1>4. Seeded \in Snapshots
  <2>1. page.rows \in Seq(Frames) /\ Empty \in Snapshots
    BY <1>3, EmptyIs DEF Typed, PaneInv, Replies
  <2>. QED BY <1>3, <2>1, ReduceIs DEF Seeded
<1>5. SeedCursor \in Cursors /\ page.next \in Nexts
  BY <1>4 DEF SeedCursor, Snapshots, Typed, PaneInv, Replies
<1>6. HubInv' /\ NetInv' /\ cur' = s /\ s # 0 /\ link'[s] = "dialing" /\ url'[s] = SeedCursor
  BY <1>1, <1>2, <1>5, DialTyped
<1>7. PaneInv'
  BY <1>1, <1>2, <1>4, <1>5, <1>6, TypesSame DEF Typed, PaneInv
<1>. QED BY <1>3, <1>6, <1>7 DEF Typed

LEMMA ReconnectTyped ==
    ASSUME Typed, NEW s \in Sockets, Reconnect(s)
    PROVE  Typed' /\ cur' = s /\ link'[s] = "dialing"
<1>1. /\ Dial(s, since)
      /\ UNCHANGED <<hostVars, hubVars, seedVars, since, batch, snap, answer, nextBefore,
                     older, version>>
  BY DEF Reconnect, histVars
<1>2. UNCHANGED <<minted, up, reg, held, asked, page>>
  BY <1>1 DEF hostVars, hubVars, seedVars
<1>3. HostInv' /\ minted \in Nat
  BY <1>1, HostStays DEF Typed, HostInv
<1>6. HubInv' /\ NetInv' /\ cur' = s /\ s # 0 /\ link'[s] = "dialing" /\ url'[s] = since
  BY <1>1, <1>2, DialTyped DEF Typed, PaneInv
<1>7. PaneInv'
  BY <1>1, <1>2, <1>6, TypesSame DEF Typed, PaneInv
<1>. QED BY <1>3, <1>6, <1>7 DEF Typed

\* The pane lets go of its socket.
LEMMA HangupTyped ==
    ASSUME Typed, Hangup(cur), UNCHANGED <<hostVars, hubVars, url, wire, version>>
    PROVE  HostInv' /\ HubInv' /\ NetInv' /\ minted' = minted /\ minted \in Nat
<1>1. UNCHANGED <<minted, up, reg, held>>
  BY DEF hostVars, hubVars
<1>2. HostInv' /\ minted \in Nat
  BY HostStays DEF Typed, HostInv
<1>3. /\ link' \in [Sockets -> {"free", "dialing", "up", "cut"}]
      /\ \A s \in reg : link'[s] \in {link[s], "cut"}
  BY DEF Hangup, Typed, NetInv, HubInv, PaneInv
<1>4. HubInv'
  BY <1>1, <1>3 DEF Typed, HubInv
<1>5. NetInv'
  BY <1>1, <1>3, TypesSame DEF Typed, NetInv
<1>. QED BY <1>1, <1>2, <1>4, <1>5

LEMMA LeavesTyped ==
    ASSUME Typed, Unmount \/ Dropped
    PROVE  Typed' /\ cur' = 0
<1>1. /\ Hangup(cur) /\ cur' = 0
      /\ UNCHANGED <<hostVars, hubVars, url, wire, version>>
  BY DEF Unmount, Dropped
<1>2. HostInv' /\ HubInv' /\ NetInv' /\ minted' = minted /\ minted \in Nat
  BY <1>1, HangupTyped
<1>3. /\ Null \in Nexts /\ Null \in Cursors /\ NoPage \in Replies /\ Empty \in Snapshots
      /\ <<>> \in Seq(Frames)
  BY <1>2, Kinds, FailsIs, EmptyIs
<1>4. PaneInv'
  <2>1. CASE Unmount
    BY <1>1, <1>2, <1>3, <2>1, TypesSame DEF Unmount, PaneInv
  <2>2. CASE Dropped
    BY <1>1, <1>2, <2>2, TypesSame DEF Dropped, PaneInv, Typed, seedVars
  <2>. QED BY <2>1, <2>2
<1>. QED BY <1>1, <1>2, <1>4 DEF Typed

LEMMA ReceiveTyped ==
    ASSUME Typed, Receive
    PROVE  Typed'
<1>1. /\ cur # 0 /\ link[cur] = "up" /\ wire[cur] # <<>>
      /\ since' = CASE wire[cur][1].kind = "durable" -> wire[cur][1].at
                    [] wire[cur][1].kind = "reset" -> Null
                    [] OTHER -> since
      /\ batch' = Append(batch, wire[cur][1])
      /\ wire' = [wire EXCEPT ![cur] = Tail(@)]
      /\ UNCHANGED <<hostVars, hubVars, link, url, seedVars, cur, snap, answer,
                     nextBefore, older, version>>
  BY DEF Receive
<1>2. UNCHANGED <<minted, up, reg, held, asked, page>>
  BY <1>1 DEF hostVars, hubVars, seedVars
<1>3. HostInv' /\ minted \in Nat
  BY <1>1, HostStays DEF Typed, HostInv
<1>4. /\ cur \in Sockets /\ wire[cur] \in Seq(Frames) /\ wire[cur][1] \in Frames
      /\ Tail(wire[cur]) \in Seq(Frames)
  <2>1. cur \in Sockets /\ wire[cur] \in Seq(Frames)
    BY <1>1 DEF Typed, PaneInv, NetInv
  <2>. QED BY <1>1, <2>1
<1>5. since' \in Cursors
  BY <1>1, <1>3, <1>4, Kinds DEF Typed, PaneInv
<1>6. HubInv'
  BY <1>1, <1>2 DEF Typed, HubInv
<1>7. NetInv'
  <2>1. wire' \in [Sockets -> Seq(Frames)]
    BY <1>1, <1>4 DEF Typed, NetInv
  <2>. QED BY <1>1, <1>2, <2>1, TypesSame DEF Typed, NetInv
<1>8. PaneInv'
  <2>1. batch' \in Seq(Frames)
    BY <1>1, <1>4 DEF Typed, PaneInv
  <2>2. cur # 0 => link[cur] # "dialing"
    BY <1>1
  <2>. QED BY <1>1, <1>2, <1>5, <2>1, <2>2, TypesSame DEF Typed, PaneInv
<1>. QED BY <1>3, <1>6, <1>7, <1>8 DEF Typed

LEMMA TypedInit == Init => Typed
<1>. SUFFICES ASSUME Init PROVE Typed
  OBVIOUS
<1>1. minted = 0 /\ minted \in Nat
  BY DEF Init
<1>2. /\ Null \in Nexts /\ Null \in Cursors /\ NoPage \in Replies /\ Empty \in Snapshots
  BY <1>1, Kinds, FailsIs, EmptyIs
<1>3. HostInv
  BY BoundsAssumption DEF Init, HostInv, LastSeq
<1>4. HubInv /\ NetInv
  <2>1. <<>> \in Seq(Frames) /\ <<>> \in Seq(Deltas)
    OBVIOUS
  <2>. QED BY <1>2, <2>1 DEF Init, HubInv, NetInv
<1>5. PaneInv
  BY <1>2 DEF Init, PaneInv
<1>. QED BY <1>3, <1>4, <1>5 DEF Typed

LEMMA TypedStep == Typed /\ [Next]_vars => Typed'
<1>. SUFFICES ASSUME Typed, [Next]_vars PROVE Typed'
  OBVIOUS
<1>1. CASE UNCHANGED vars
  <2>1. UNCHANGED <<hostVars, hubVars, netVars, seedVars, paneVars, histVars>>
    BY <1>1 DEF vars
  <2>2. UNCHANGED <<up, live, cached, epoch, minted, rows, bad, hubVars, netVars, version>>
    BY <2>1 DEF hostVars, histVars
  <2>3. /\ HostInv' /\ HubInv' /\ NetInv'
        /\ minted \in Nat /\ minted' = minted /\ UNCHANGED <<link, url, wire>>
    BY <2>2, OutsideStays
  <2>4. PaneInv'
    BY <2>1, <2>3, PaneStays DEF Typed, paneVars
  <2>. QED BY <2>3, <2>4 DEF Typed
<1>2. CASE HostSteps
  BY <1>2, OpenSessionTyped, AppendEventTyped, OpenVoidTyped, PublishDeltaTyped,
     FlushDeltasTyped, SubscribeTyped, UnsubscribeTyped, HostCrashTyped, RestartTyped,
     RepliesTyped DEF HostSteps
<1>3. CASE PaneSteps
  BY <1>3, RepliesTyped, ReducesTyped, SeedTyped, ReconnectTyped, LeavesTyped,
     ReceiveTyped DEF PaneSteps
<1>. QED BY <1>1, <1>2, <1>3 DEF Next

LEMMA TypedIs == Typed => TypeOK
<1>. SUFFICES ASSUME Typed PROVE TypeOK
  OBVIOUS
<1>1. \A s \in Sockets : wire[s] \in Seq(Envelopes)
  <2>1. Frames \subseteq Envelopes
    BY DEF Frames
  <2>2. \A s \in Sockets : wire[s] \in Seq(Frames)
    BY DEF Typed, NetInv
  <2>. QED BY <2>1, <2>2
<1>2. batch \in Seq(Envelopes) /\ held \in Seq(Envelopes)
  <2>1. Frames \subseteq Envelopes /\ Deltas \subseteq Envelopes
    BY DEF Frames, Deltas, Envelopes
  <2>2. batch \in Seq(Frames) /\ held \in Seq(Deltas)
    BY DEF Typed, PaneInv, HubInv
  <2>. QED BY <2>1, <2>2
<1>3. snap.cursor \in Cursors /\ snap.items \in [Subjects -> 0 .. MaxVersion]
  BY DEF Typed, PaneInv, Snapshots
<1>. QED BY <1>1, <1>2, <1>3 DEF TypeOK, Typed, HostInv, HubInv, NetInv, PaneInv

-----------------------------------------------------------------------------
(* The stream. *)

Sound(frames, c, served, end) ==
    /\ Contiguous(frames)
    /\ Continues(frames, From(frames, c))
    /\ served => UpToDate(frames, From(frames, c), end)

\* Deltas come and go between the events.
LEMMA DeltasPass ==
    ASSUME NEW F, NEW D \in SUBSET F, NEW s \in Seq(F), NEW d \in Seq(D),
           \A e \in D : e.kind = "delta", NEW c, NEW served, NEW end, Sound(s, c, served, end)
    PROVE  Sound(s \o d, c, served, end)
<1>. DEFINE w == s \o d
<1>1. \A k \in DOMAIN w : /\ k \in DOMAIN s => w[k] = s[k]
                          /\ k \notin DOMAIN s => w[k].kind = "delta"
  <2>. SUFFICES ASSUME NEW k \in DOMAIN w
                PROVE  /\ k \in DOMAIN s => w[k] = s[k]
                       /\ k \notin DOMAIN s => w[k].kind = "delta"
    OBVIOUS
  <2>1. CASE k \in DOMAIN s
    BY <2>1
  <2>2. CASE k \notin DOMAIN s
    <3>1. k - Len(s) \in DOMAIN d /\ w[k] = d[k - Len(s)]
      BY <2>2
    <3>2. d[k - Len(s)] \in D
      BY <3>1
    <3>. QED BY <2>2, <3>1, <3>2
  <2>. QED BY <2>1, <2>2
<1>2. DOMAIN s \subseteq DOMAIN w
  OBVIOUS
<1>. HIDE DEF w
<1>3. /\ Places(w, "durable") = Places(s, "durable") /\ Places(w, "reset") = Places(s, "reset")
      /\ \A k \in Places(s, "durable") : w[k] = s[k]
  BY <1>1, <1>2 DEF Places
<1>4. Seqs(w) = Seqs(s) /\ From(w, c) = From(s, c)
  BY <1>3 DEF Seqs, From
<1>5. Sound(w, c, served, end)
  BY <1>3, <1>4 DEF Sound, Contiguous, Continues, UpToDate
<1>. QED BY <1>5 DEF w

\* An event that takes the next seq of the epoch.
LEMMA NextEventFollows ==
    ASSUME minted \in Nat, NEW s \in Seq(Frames), NEW e, NEW c, c.seq \in Nat,
           NEW p \in Nat, NEW n \in Nat,
           p # 0, e.kind = "durable", e.at = At(p, n + 1), Sound(s, c, TRUE, At(p, n))
    PROVE  Sound(Append(s, e), c, TRUE, At(p, n + 1))
<1>. DEFINE w == Append(s, e)
            P == Places(s, "durable")
<1>1. PICK h \in Nat : /\ h = Len(s) /\ DOMAIN s = 1 .. h /\ DOMAIN w = 1 .. h + 1
                       /\ \A k \in 1 .. h : w[k] = s[k] /\ s[k] \in Frames
                       /\ w[h + 1] = e
  <2>1. PICK h \in Nat : h = Len(s) /\ DOMAIN s = 1 .. h
    OBVIOUS
  <2>2. \A k \in 1 .. h : s[k] \in Frames
    BY <2>1
  <2>3. DOMAIN w = 1 .. h + 1 /\ w[h + 1] = e /\ \A k \in 1 .. h : w[k] = s[k]
    BY <2>1
  <2>. HIDE DEF w
  <2>. QED BY <2>1, <2>2, <2>3
<1>2. /\ At(p, n).epoch = p /\ At(p, n).seq = n
      /\ At(p, n + 1).epoch = p /\ At(p, n + 1).seq = n + 1
  BY DEF At
<1>. HIDE DEF w
<1>3. /\ Places(w, "durable") = P \cup {h + 1} /\ h + 1 \notin P
      /\ Places(w, "reset") = Places(s, "reset")
      /\ \A k \in P : k \in 1 .. h /\ w[k] = s[k] /\ w[k].at.seq \in Nat /\ k < h + 1
  <2>1. 1 .. h + 1 = 1 .. h \cup {h + 1} /\ h + 1 \notin 1 .. h /\ \A k \in 1 .. h : k < h + 1
    OBVIOUS
  <2>2. \A k \in P : s[k].at.seq \in Nat
    BY <1>1, Kinds DEF Places, Cursors
  <2>. QED BY <1>1, <2>1, <2>2 DEF Places
<1>4. Seqs(w) = Seqs(s) \cup {n + 1} /\ From(w, c) = From(s, c)
  BY <1>1, <1>2, <1>3 DEF Seqs, From
<1>5. \A k \in P : w[k].at.epoch = p /\ w[k].at.seq <= n /\ n \in Seqs(s)
  BY <1>2, <1>3 DEF Sound, UpToDate
<1>6. Contiguous(w)
  <2>1. ASSUME NEW j \in P, NEW k \in P
        PROVE  /\ w[j].at.epoch = w[k].at.epoch
               /\ j < k => w[j].at.seq < w[k].at.seq
               /\ w[j].at.seq .. w[k].at.seq \subseteq Seqs(w)
    BY <1>3, <1>4 DEF Sound, Contiguous
  <2>2. ASSUME NEW j \in P
        PROVE  w[j].at.seq .. n + 1 \subseteq Seqs(w)
    <3>. SUFFICES ASSUME NEW m \in w[j].at.seq .. n + 1 PROVE m \in Seqs(w)
      OBVIOUS
    <3>1. PICK l \in P : w[l].at.seq = n
      BY <1>3, <1>5 DEF Seqs
    <3>2. CASE m = n + 1
      BY <1>4, <3>2
    <3>3. CASE m # n + 1
      <4>1. m \in w[j].at.seq .. w[l].at.seq
        BY <1>3, <3>1, <3>3
      <4>. QED BY <2>1, <4>1
    <3>. QED BY <3>2, <3>3
  <2>3. \A j \in P : n + 1 > w[j].at.seq /\ n + 1 .. w[j].at.seq = {}
    BY <1>3, <1>5
  <2>4. n + 1 .. n + 1 \subseteq Seqs(w)
    BY <1>4
  <2>5. w[h + 1].at.seq = n + 1 /\ w[h + 1].at.epoch = p
    BY <1>1, <1>2
  <2>. QED BY <1>3, <1>5, <2>1, <2>2, <2>3, <2>4, <2>5 DEF Contiguous
<1>. DEFINE f == From(s, c)
<1>7. f.seq \in Nat
  BY Kinds DEF From
<1>8. f.epoch = p /\ P = {} => f.seq = n
  BY <1>2 DEF Sound, UpToDate
<1>9. \A k \in P : f.epoch = p => f.seq < w[k].at.seq /\ f.seq + 1 \in Seqs(s)
  BY <1>2, <1>3, <1>5 DEF Sound, Continues
<1>. HIDE DEF f, P
<1>10. Continues(w, From(w, c))
  <2>1. \A k \in P \cup {h + 1} : w[k].at.epoch = p
    BY <1>1, <1>2, <1>5
  <2>2. ASSUME f.epoch = p
        PROVE  f.seq + 1 \in Seqs(w) /\ \A k \in P \cup {h + 1} : f.seq < w[k].at.seq
    <3>1. CASE P = {}
      BY <1>1, <1>2, <1>4, <1>7, <1>8, <2>2, <3>1
    <3>2. CASE P # {}
      <4>1. f.seq + 1 \in Seqs(w) /\ \A k \in P : f.seq < w[k].at.seq
        BY <1>4, <1>9, <2>2, <3>2
      <4>2. PICK k \in P : TRUE
        BY <3>2
      <4>3. f.seq < n + 1
        BY <1>3, <1>5, <1>7, <4>1, <4>2
      <4>. QED BY <1>1, <1>2, <4>1, <4>3
    <3>. QED BY <3>1, <3>2
  <2>. QED BY <1>3, <1>4, <2>1, <2>2 DEF Continues, f, P
<1>11. UpToDate(w, From(w, c), At(p, n + 1))
  <2>1. \A k \in P \cup {h + 1} : /\ w[k].at.epoch = p /\ w[k].at.seq <= n + 1
                                 /\ n + 1 \in Seqs(w)
    BY <1>1, <1>2, <1>3, <1>4, <1>5
  <2>. QED BY <1>2, <1>3, <2>1 DEF UpToDate, P
<1>12. Sound(w, c, TRUE, At(p, n + 1))
  BY <1>6, <1>10, <1>11 DEF Sound
<1>. QED BY <1>12 DEF w

\* The first event of an epoch nobody on the wire knows of.
LEMMA FirstEventFollows ==
    ASSUME NEW s \in Seq(Frames), NEW e, NEW c \in Cursors, NEW p \in Nat,
           minted \in Nat, minted < p,
           e.kind = "durable", e.at = At(p, 1), Places(s, "durable") = {}
    PROVE  Sound(Append(s, e), c, TRUE, At(p, 1))
<1>. DEFINE w == Append(s, e)
<1>1. PICK h \in Nat : /\ h = Len(s) /\ DOMAIN s = 1 .. h /\ DOMAIN w = 1 .. h + 1
                       /\ \A k \in 1 .. h : w[k] = s[k]
                       /\ w[h + 1] = e
  OBVIOUS
<1>2. At(p, 1).epoch = p /\ At(p, 1).seq = 1
  BY DEF At
<1>. HIDE DEF w
<1>3. Places(w, "durable") = {h + 1}
  <2>1. 1 .. h + 1 = 1 .. h \cup {h + 1} /\ h + 1 \notin 1 .. h
    OBVIOUS
  <2>. QED BY <1>1, <2>1 DEF Places
<1>4. w[h + 1].at.epoch = p /\ w[h + 1].at.seq = 1 /\ Seqs(w) = {1}
  BY <1>1, <1>2, <1>3 DEF Seqs
<1>5. From(w, c).epoch # p
  BY Kinds DEF From, Cursors
<1>6. 1 .. 1 \subseteq Seqs(w) /\ ~(h + 1 < h + 1)
  BY <1>4
<1>7. Sound(w, c, TRUE, At(p, 1))
  BY <1>2, <1>3, <1>4, <1>5, <1>6 DEF Sound, Contiguous, Continues, UpToDate
<1>. QED BY <1>7 DEF w

\* The replay to a subscriber.
LEMMA WindowFollows ==
    ASSUME HostInv, epoch # 0, NEW f \in Nat, 1 <= f, f <= LastSeq + 1, NEW c \in Cursors,
           c.epoch = epoch => c.seq + 1 = f
    PROVE  Sound(Window(f, LastSeq), c, TRUE, At(epoch, LastSeq))
<1>. DEFINE w == Window(f, LastSeq)
            h == LastSeq + 1 - f
<1>0. LastSeq \in Nat /\ h \in Nat /\ minted \in Nat
  BY DEF HostInv, LastSeq
<1>1. /\ DOMAIN w = 1 .. h
      /\ \A k \in 1 .. h : w[k].kind = "durable" /\ w[k].at = At(epoch, f + k - 1)
  <2>1. PICK t \in Nat : t = LastSeq /\ 1 <= f /\ f <= t + 1 /\ t <= LastSeq
    BY <1>0
  <2>2. /\ Window(f, t) \in Seq(Frames) /\ Len(Window(f, t)) = t + 1 - f
        /\ \A k \in 1 .. t + 1 - f : /\ Window(f, t)[k].kind = "durable"
                                     /\ Window(f, t)[k].at = At(epoch, f + k - 1)
    BY <2>1, WindowIs, Zenon
  <2>. QED BY <1>0, <2>1, <2>2
<1>. HIDE DEF w
<1>2. Places(w, "durable") = 1 .. h /\ Places(w, "reset") = {}
  BY <1>1 DEF Places
<1>3. \A k \in 1 .. h : w[k].at.epoch = epoch /\ w[k].at.seq = f + k - 1
  <2>1. \A a, b : At(a, b).epoch = a /\ At(a, b).seq = b
    BY DEF At
  <2>. QED BY <1>1, <2>1
<1>4. ASSUME NEW n \in f .. LastSeq
      PROVE  n \in Seqs(w)
  <2>1. n - f + 1 \in 1 .. h /\ f + (n - f + 1) - 1 = n
    BY <1>0
  <2>. QED BY <1>2, <1>3, <2>1 DEF Seqs
<1>5. From(w, c) = c
  BY <1>2 DEF From
<1>6. At(epoch, LastSeq).epoch = epoch /\ At(epoch, LastSeq).seq = LastSeq
  BY DEF At
<1>7. Contiguous(w)
  <2>1. ASSUME NEW j \in 1 .. h, NEW k \in 1 .. h
        PROVE  /\ w[j].at.epoch = w[k].at.epoch
               /\ j < k => w[j].at.seq < w[k].at.seq
               /\ w[j].at.seq .. w[k].at.seq \subseteq Seqs(w)
    <3>1. w[j].at.seq .. w[k].at.seq \subseteq f .. LastSeq
      BY <1>0, <1>3
    <3>. QED BY <1>0, <1>3, <1>4, <3>1
  <2>. QED BY <1>2, <2>1 DEF Contiguous
<1>8. Continues(w, c)
  <2>1. ASSUME NEW k \in 1 .. h, c.epoch = epoch
        PROVE  c.seq < w[k].at.seq /\ c.seq + 1 \in Seqs(w)
    <3>1. f \in f .. LastSeq /\ c.seq + 1 = f /\ c.seq \in Nat
      BY <1>0, <2>1 DEF Cursors
    <3>. QED BY <1>0, <1>3, <1>4, <3>1
  <2>. QED BY <1>2, <1>3, <2>1 DEF Continues
<1>9. UpToDate(w, c, At(epoch, LastSeq))
  <2>1. ASSUME NEW k \in 1 .. h
        PROVE  w[k].at.epoch = epoch /\ w[k].at.seq <= LastSeq /\ LastSeq \in Seqs(w)
    <3>1. LastSeq \in f .. LastSeq
      BY <1>0
    <3>. QED BY <1>0, <1>3, <1>4, <3>1
  <2>2. c.epoch = epoch /\ 1 .. h = {} => c.seq = LastSeq
    <3>1. 1 .. h = {} => f = LastSeq + 1
      BY <1>0
    <3>2. c.seq \in Nat
      BY DEF Cursors
    <3>. QED BY <1>0, <3>1, <3>2
  <2>. QED BY <1>2, <1>6, <2>1, <2>2 DEF UpToDate
<1>10. Sound(w, c, TRUE, At(epoch, LastSeq))
  BY <1>5, <1>7, <1>8, <1>9 DEF Sound
<1>. QED BY <1>10 DEF w

\* A reset instead of a replay.
LEMMA ResetFollows ==
    ASSUME HostInv, NEW w \in Resets, NEW c
    PROVE  Sound(<<Reset(w)>>, c, TRUE, At(epoch, LastSeq))
<1>. DEFINE s == <<Reset(w)>>
<1>1. DOMAIN s = {1} /\ s[1].kind = "reset"
  BY DEF Reset
<1>. HIDE DEF s
<1>2. Places(s, "durable") = {} /\ Places(s, "reset") # {}
  BY <1>1 DEF Places
<1>3. From(s, c) = Null
  BY <1>2 DEF From
<1>4. Null.epoch = epoch => Null.seq = LastSeq
  BY DEF Null, At, HostInv, LastSeq
<1>5. At(epoch, LastSeq).epoch = epoch /\ At(epoch, LastSeq).seq = LastSeq
  BY DEF At
<1>6. Sound(s, c, TRUE, At(epoch, LastSeq))
  BY <1>2, <1>3, <1>4, <1>5 DEF Sound, Contiguous, Continues, UpToDate
<1>. QED BY <1>6 DEF s

\* The client takes the first frame; its cursor moves with it.
Taken(e, c) ==
    CASE e.kind = "durable" -> e.at
      [] e.kind = "reset"   -> Null
      [] OTHER              -> c

LEMMA TakingFollows ==
    ASSUME HostInv, NEW s \in Seq(Frames), s # <<>>, NEW c \in Cursors, NEW served \in BOOLEAN,
           Sound(s, c, served, At(epoch, LastSeq))
    PROVE  Sound(Tail(s), Taken(s[1], c), served, At(epoch, LastSeq))
<1>. DEFINE w == Tail(s)
            d == Taken(s[1], c)
            P == Places(s, "durable")
            Q == Places(w, "durable")
            end == At(epoch, LastSeq)
<1>0. /\ minted \in Nat /\ (epoch = 0 => LastSeq = 0)
      /\ end.epoch = epoch /\ end.seq = LastSeq
      /\ Null.epoch = 0 /\ Null.seq = 0
  BY Kinds DEF HostInv, LastSeq, At
<1>1. PICK h \in Nat : /\ h >= 1 /\ DOMAIN s = 1 .. h /\ DOMAIN w = 1 .. h - 1
                       /\ \A k \in 1 .. h : s[k] \in Frames
                       /\ \A k \in 1 .. h - 1 : w[k] = s[k + 1]
  <2>1. PICK h \in Nat : h = Len(s) /\ h >= 1 /\ DOMAIN s = 1 .. h
    OBVIOUS
  <2>2. \A k \in 1 .. h : s[k] \in Frames
    BY <2>1
  <2>3. DOMAIN w = 1 .. h - 1 /\ \A k \in 1 .. h - 1 : w[k] = s[k + 1]
    BY <2>1
  <2>. HIDE DEF w
  <2>. QED BY <2>1, <2>2, <2>3
<1>. HIDE DEF w, end
<1>2. /\ \A k \in Q : k \in 1 .. h - 1 /\ k + 1 \in P /\ w[k] = s[k + 1]
      /\ \A k \in P : k \in 1 .. h /\ (k # 1 => k - 1 \in Q /\ w[k - 1] = s[k])
      /\ 1 \in 1 .. h
  <2>1. \A k \in 1 .. h - 1 : k + 1 \in 1 .. h
    OBVIOUS
  <2>2. \A k \in 1 .. h : k # 1 => k - 1 \in 1 .. h - 1 /\ (k - 1) + 1 = k
    OBVIOUS
  <2>. QED BY <1>1, <2>1, <2>2 DEF Places
<1>3. \A k \in P : /\ s[k].at \in Cursors /\ s[k].at.seq \in Nat /\ s[k].at.epoch # 0
                   /\ s[k].kind = "durable"
  BY <1>0, <1>1, <1>2, Kinds DEF Places, Cursors
<1>4. /\ Seqs(w) \subseteq Seqs(s)
      /\ \A n \in Seqs(s) : n \in Seqs(w) \/ (1 \in P /\ n = s[1].at.seq)
  <2>1. /\ Seqs(w) = {w[k].at.seq : k \in Q}
        /\ Seqs(s) = {s[k].at.seq : k \in P}
    BY DEF Seqs
  <2>2. ASSUME NEW k \in Q PROVE w[k].at.seq \in Seqs(s)
    BY <1>2, <2>1
  <2>3. ASSUME NEW k \in P, k # 1 PROVE s[k].at.seq \in Seqs(w)
    BY <1>2, <2>1, <2>3
  <2>. HIDE DEF P, Q
  <2>. QED BY <2>1, <2>2, <2>3
<1>5. \A j, k \in P : /\ s[j].at.epoch = s[k].at.epoch
                      /\ j < k => s[j].at.seq < s[k].at.seq
                      /\ s[j].at.seq .. s[k].at.seq \subseteq Seqs(s)
  BY DEF Sound, Contiguous
<1>. HIDE DEF P, Q
\* The first event is before every other.
<1>6. \A k \in Q : 1 \in P => s[1].at.seq < w[k].at.seq
  <2>1. \A k \in Q : 1 < k + 1
    BY <1>2
  <2>. QED BY <1>2, <1>5, <2>1
<1>7. Contiguous(w)
  <2>1. ASSUME NEW j \in Q, NEW k \in Q
        PROVE  /\ w[j].at.epoch = w[k].at.epoch
               /\ j < k => w[j].at.seq < w[k].at.seq
               /\ w[j].at.seq .. w[k].at.seq \subseteq Seqs(w)
    <3>1. j + 1 \in P /\ k + 1 \in P /\ w[j] = s[j + 1] /\ w[k] = s[k + 1]
          /\ (j < k => j + 1 < k + 1)
      BY <1>2
    <3>2. w[j].at.seq \in Nat /\ w[k].at.seq \in Nat
      BY <1>3, <3>1
    <3>3. ASSUME NEW n \in w[j].at.seq .. w[k].at.seq
          PROVE  n \in Seqs(w)
      <4>1. n \in Seqs(s)
        BY <1>5, <3>1
      <4>2. 1 \in P => n # s[1].at.seq
        BY <1>3, <1>6, <3>2
      <4>. QED BY <1>4, <4>1, <4>2
    <3>. QED BY <1>5, <3>1, <3>3
  <2>. QED BY <2>1 DEF Contiguous, Q
<1>8. From(w, d) = From(w, Taken(s[1], c))
  OBVIOUS
<1>9. s[1].kind \in {"durable", "delta", "reset"} /\ s[1] \in Frames
  BY <1>0, <1>1, <1>2, Kinds
<1>10. CASE s[1].kind = "durable"
  <2>1. 1 \in P /\ d = s[1].at /\ d.epoch # 0 /\ d.seq \in Nat
    <3>1. 1 \in P
      BY <1>1, <1>2, <1>10 DEF P, Places
    <3>. QED BY <1>3, <1>10, <3>1 DEF Taken
  <2>2. Continues(w, d)
    <3>1. ASSUME NEW k \in Q, w[k].at.epoch = d.epoch
          PROVE  d.seq < w[k].at.seq /\ d.seq + 1 \in Seqs(w)
      <4>1. d.seq < w[k].at.seq
        BY <1>6, <2>1
      <4>2. k + 1 \in P /\ w[k] = s[k + 1] /\ w[k].at.seq \in Nat
        BY <1>2, <1>3
      <4>3. d.seq + 1 \in d.seq .. w[k].at.seq /\ d.seq + 1 # d.seq
        BY <2>1, <4>1, <4>2
      <4>4. d.seq + 1 \in Seqs(s)
        BY <1>5, <2>1, <4>2, <4>3
      <4>. QED BY <1>4, <2>1, <4>1, <4>3, <4>4
    <3>. QED BY <3>1 DEF Continues, Q
  <2>3. Continues(w, Null)
    <3>1. \A k \in Q : w[k].at.epoch # 0
      BY <1>2, <1>3
    <3>. QED BY <1>0, <3>1 DEF Continues, Q
  <2>4. ASSUME served
        PROVE  UpToDate(w, d, end) /\ UpToDate(w, Null, end)
    <3>1. \A k \in P : s[k].at.epoch = epoch /\ s[k].at.seq <= LastSeq /\ LastSeq \in Seqs(s)
      BY <1>0, <2>4 DEF Sound, UpToDate, P, end
    <3>2. ASSUME NEW k \in Q
          PROVE  w[k].at.epoch = epoch /\ w[k].at.seq <= LastSeq /\ LastSeq \in Seqs(w)
      <4>1. k + 1 \in P /\ w[k] = s[k + 1] /\ w[k].at.seq \in Nat
        BY <1>2, <1>3
      <4>2. s[1].at.seq < LastSeq
        <5>1. LastSeq \in Nat
          BY DEF HostInv, LastSeq
        <5>. QED BY <1>6, <2>1, <3>1, <4>1, <5>1
      <4>3. LastSeq # s[1].at.seq
        <5>1. LastSeq \in Nat
          BY DEF HostInv, LastSeq
        <5>. QED BY <2>1, <4>2, <5>1
      <4>. QED BY <1>4, <3>1, <4>1, <4>3
    <3>3. Q = {} => d.seq = LastSeq
      <4>. SUFFICES ASSUME Q = {} PROVE d.seq = LastSeq
        OBVIOUS
      <4>1. Seqs(w) = {}
        BY DEF Seqs, Q
      <4>. QED BY <1>4, <2>1, <3>1, <4>1
    <3>4. d.epoch = epoch /\ epoch # 0
      BY <2>1, <3>1
    <3>. QED BY <1>0, <3>2, <3>3, <3>4 DEF UpToDate, Q
  <2>5. From(w, d) \in {d, Null}
    BY DEF From
  <2>. HIDE DEF d
  <2>6. Sound(w, d, served, end)
    BY <1>7, <2>2, <2>3, <2>4, <2>5 DEF Sound
  <2>. QED BY <2>6 DEF w, d, end
<1>11. CASE s[1].kind # "durable"
  <2>1. 1 \notin P
    BY <1>11 DEF P, Places
  <2>2. Seqs(w) = Seqs(s)
    BY <1>4, <2>1
  <2>3. From(w, d) = From(s, c) \/ From(w, d) = Null
    <3>1. CASE s[1].kind = "reset"
      <4>1. d = Null
        BY <3>1 DEF Taken
      <4>. QED BY <4>1 DEF From
    <3>2. CASE s[1].kind = "delta"
      <4>1. d = c
        BY <3>2 DEF Taken
      <4>2. Places(s, "reset") = {} => Places(w, "reset") = {}
        BY <1>1 DEF Places
      <4>3. Places(w, "reset") = {} => Places(s, "reset") = {}
        <5>. SUFFICES ASSUME NEW k \in 1 .. h, s[k].kind = "reset"
                      PROVE  k - 1 \in 1 .. h - 1 /\ w[k - 1].kind = "reset"
          BY <1>1 DEF Places
        <5>1. k # 1
          BY <3>2
        <5>2. k - 1 \in 1 .. h - 1 /\ (k - 1) + 1 = k
          BY <5>1
        <5>. QED BY <1>1, <5>2
      <4>. QED BY <4>1, <4>2, <4>3 DEF From
    <3>. QED BY <1>9, <1>11, <3>1, <3>2
  <2>. HIDE DEF d
  <2>4. Continues(w, From(w, d))
    <3>1. \A k \in Q : w[k].at.epoch # 0
      BY <1>2, <1>3
    <3>2. Continues(w, Null)
      BY <1>0, <3>1 DEF Continues, Q
    <3>3. Continues(w, From(s, c))
      <4>1. Continues(s, From(s, c))
        BY DEF Sound
      <4>. QED BY <1>2, <2>2, <4>1 DEF Continues, P, Q
    <3>. QED BY <2>3, <3>2, <3>3
  <2>5. ASSUME served PROVE UpToDate(w, From(w, d), end)
    <3>1. UpToDate(s, From(s, c), end)
      BY <2>5 DEF Sound, end
    <3>2. Q = {} => P = {}
      <4>1. \A k \in P : k # 1
        BY <2>1
      <4>. QED BY <1>2, <4>1
    <3>3. \A k \in Q : /\ w[k].at.epoch = end.epoch /\ w[k].at.seq <= end.seq
                       /\ end.seq \in Seqs(w)
      BY <1>2, <2>2, <3>1 DEF UpToDate, P
    <3>4. From(s, c).epoch = end.epoch /\ Q = {} => From(s, c).seq = end.seq
      BY <3>1, <3>2 DEF UpToDate, P
    <3>5. Null.epoch = end.epoch => Null.seq = end.seq
      BY <1>0
    <3>. QED BY <2>3, <3>3, <3>4, <3>5 DEF UpToDate, Q
  <2>6. Sound(w, d, served, end)
    BY <1>7, <2>4, <2>5 DEF Sound
  <2>. QED BY <2>6 DEF w, d, end
<1>. QED BY <1>10, <1>11

SoundStream == cur # 0 /\ link[cur] = "up" =>
                  Sound(wire[cur], since, cur \in reg, At(epoch, LastSeq))

LEMMA StreamIs == StreamHasNoHoles <=> SoundStream
BY DEF StreamHasNoHoles, SoundStream, Sound

\* Nothing reaches the pane, and the journal moves only under those not served.
LEMMA SoundStays ==
    ASSUME SoundStream, cur' = cur, since' = since,
           cur # 0 /\ link'[cur] = "up" => link[cur] = "up" /\ wire'[cur] = wire[cur],
           cur \in reg' => cur \in reg /\ epoch' = epoch /\ rows' = rows
    PROVE  SoundStream'
<1>. SUFFICES ASSUME cur' # 0, link'[cur'] = "up"
              PROVE  Sound(wire'[cur'], since', cur' \in reg', At(epoch', Len(rows')))
  BY DEF SoundStream, LastSeq
<1>1. Sound(wire[cur], since, cur \in reg, At(epoch, Len(rows)))
  BY DEF SoundStream, LastSeq
<1>. QED BY <1>1 DEF Sound

\* One frame of text after another reaches those served.
LEMMA SentSound ==
    ASSUME Typed, SoundStream, cur # 0, link[cur] = "up"
    PROVE  Sound(Sent(wire, held)[cur], since, cur \in reg, At(epoch, LastSeq))
<1>1. /\ cur \in Sockets /\ wire[cur] \in Seq(Frames) /\ held \in Seq(Deltas)
      /\ minted \in Nat /\ Deltas \subseteq Frames /\ \A e \in Deltas : e.kind = "delta"
  BY Kinds DEF Typed, PaneInv, NetInv, HubInv, HostInv
<1>2. Sound(wire[cur], since, cur \in reg, At(epoch, LastSeq))
  BY DEF SoundStream
<1>3. Sent(wire, held)[cur] = wire[cur] \/ Sent(wire, held)[cur] = wire[cur] \o held
  BY <1>1 DEF Sent
<1>. QED BY <1>1, <1>2, <1>3, DeltasPass

\* Without rows no event of the epoch is on its way to those served.
LEMMA NoneOfNoRows ==
    ASSUME Typed, NEW s \in Seq(Frames), NEW c, Sound(s, c, TRUE, At(epoch, LastSeq)), LastSeq = 0
    PROVE  Places(s, "durable") = {}
<1>. SUFFICES ASSUME NEW k \in Places(s, "durable") PROVE FALSE
  OBVIOUS
<1>1. s[k] \in Frames /\ s[k].kind = "durable" /\ minted \in Nat
  BY DEF Places, Typed, HostInv
<1>2. s[k].at.seq \in Nat /\ s[k].at.seq # 0
  BY <1>1, Kinds DEF Cursors
<1>3. s[k].at.seq <= 0
  BY DEF Sound, UpToDate, At
<1>. QED BY <1>2, <1>3

LEMMA SentLast ==
    ASSUME NEW F, NEW a \in Seq(F), NEW b \in Seq(F), NEW d
    PROVE  a \o b \in Seq(F) /\ a \o (b \o <<d>>) = Append(a \o b, d)
<1>1. a \in Seq(F \cup {d}) /\ b \in Seq(F \cup {d}) /\ <<d>> \in Seq(F \cup {d})
  OBVIOUS
<1>2. a \o b \in Seq(F)
  OBVIOUS
<1>3. a \o (b \o <<d>>) = (a \o b) \o <<d>>
  BY <1>1
<1>4. Append(a \o b, d) = (a \o b) \o <<d>>
  BY <1>1
<1>. QED BY <1>2, <1>3, <1>4

\* The journal's next event, of its epoch or of a new one, reaches those served.
LEMMA AppendSound ==
    ASSUME Typed, SoundStream, NEW i \in Subjects, AppendEnvelope(epoch', i),
           minted' \in Nat, minted <= minted', epoch' \in 1 .. minted',
           \/ epoch' = epoch
           \/ epoch' = minted + 1 /\ LastSeq = 0,
           UNCHANGED <<cur, since, reg, link>>
    PROVE  SoundStream'
<1>1. /\ Len(rows') = LastSeq + 1 /\ minted \in Nat /\ LastSeq \in Nat
      /\ \E d : /\ wire' = Sent(wire, held \o <<d>>)
                /\ d.kind = "durable" /\ d.at = At(epoch', LastSeq + 1)
  BY AppendIs DEF Typed, HostInv, LastSeq
<1>2. PICK d : /\ wire' = Sent(wire, held \o <<d>>)
               /\ d.kind = "durable" /\ d.at = At(epoch', LastSeq + 1)
  BY <1>1
<1>3. CASE cur \in reg /\ cur # 0 /\ link[cur] = "up"
  <2>1. /\ cur \in Sockets /\ wire[cur] \in Seq(Frames) /\ held \in Seq(Frames)
        /\ since \in Cursors /\ since.seq \in Nat
    BY <1>1, <1>3, Kinds DEF Typed, PaneInv, NetInv, HubInv, Cursors
  <2>2. PICK s \in Seq(Frames) : s = wire[cur] \o held
    BY <2>1, SentLast
  <2>3. wire'[cur] = wire[cur] \o (held \o <<d>>)
    BY <1>2, <1>3, <2>1 DEF Sent
  <2>4. wire[cur] \o (held \o <<d>>) = Append(s, d)
    <3>1. PICK a \in Seq(Frames), b \in Seq(Frames) : a = wire[cur] /\ b = held
      BY <2>1
    <3>2. a \o (b \o <<d>>) = Append(a \o b, d)
      BY SentLast
    <3>. QED BY <2>2, <3>1, <3>2
  <2>5. Sound(s, since, TRUE, At(epoch, LastSeq))
    <3>1. Sent(wire, held)[cur] = s
      BY <1>3, <2>1, <2>2 DEF Sent
    <3>2. Sound(s, since, cur \in reg, At(epoch, LastSeq))
      BY <1>3, <3>1, SentSound
    <3>. QED BY <1>3, <3>2 DEF Sound
  <2>6. Sound(Append(s, d), since, TRUE, At(epoch', LastSeq + 1))
    <3>1. CASE epoch' = epoch
      <4>1. PICK p \in Nat : p = epoch /\ p # 0 /\ epoch' = p
        BY <3>1
      <4>2. PICK n \in Nat : n = LastSeq
        BY <1>1
      <4>. QED BY <1>1, <1>2, <2>1, <2>5, <4>1, <4>2, NextEventFollows
    <3>2. CASE epoch' = minted + 1 /\ LastSeq = 0
      <4>1. Places(s, "durable") = {}
        BY <2>5, <3>2, NoneOfNoRows
      <4>2. PICK p \in Nat : p = epoch' /\ minted < p
        BY <1>1, <3>2
      <4>3. d.at = At(p, 1) /\ LastSeq + 1 = 1
        BY <1>2, <3>2, <4>2
      <4>. QED BY <1>1, <1>2, <2>1, <4>1, <4>2, <4>3, FirstEventFollows
    <3>. QED BY <3>1, <3>2
  <2>7. Sound(wire'[cur], since, cur \in reg, At(epoch', LastSeq + 1))
    BY <2>3, <2>4, <2>6 DEF Sound
  <2>8. SoundStream' <=> (cur' # 0 /\ link'[cur'] = "up" =>
                             Sound(wire'[cur'], since', cur' \in reg', At(epoch', Len(rows'))))
    BY DEF SoundStream, LastSeq
  <2>. QED BY <1>1, <2>7, <2>8
<1>4. CASE ~(cur \in reg /\ cur # 0 /\ link[cur] = "up")
  <2>1. cur # 0 /\ link'[cur] = "up" => wire'[cur] = wire[cur]
    BY <1>2, <1>4 DEF Sent, Typed, PaneInv
  <2>2. cur \in reg => link[cur] # "up"
    BY <1>4, BoundsAssumption DEF Typed, HubInv
  <2>3. cur \in reg' => ~(cur # 0 /\ link'[cur] = "up")
    BY <2>2
  <2>4. CASE cur \in reg
    BY <2>3, <2>4 DEF SoundStream
  <2>5. CASE cur \notin reg
    BY <2>1, <2>5, SoundStays
  <2>. QED BY <2>4, <2>5
<1>. QED BY <1>3, <1>4

LEMMA StreamStep ==
    ASSUME Typed, Typed', SoundStream, [Next]_vars
    PROVE  SoundStream'
<1>1. CASE UNCHANGED vars
  <2>1. UNCHANGED <<cur, since, link, wire, reg, epoch, rows>>
    BY <1>1 DEF vars, hostVars, hubVars, netVars, paneVars
  <2>. QED BY <2>1, SoundStays
<1>2. CASE OpenSession \/ \E i \in Subjects : AppendEvent(i)
  <2>1. CASE OpenSession
    <3>1. /\ OpenEpoch /\ AppendEnvelope(epoch', State) /\ State \in Subjects
          /\ UNCHANGED <<cur, since, reg, link>>
      BY <2>1 DEF OpenSession, paneVars, Subjects
    <3>2. /\ minted' \in Nat /\ minted <= minted' /\ epoch' \in 1 .. minted'
          /\ epoch' = epoch \/ (epoch' = minted + 1 /\ LastSeq = 0)
      <4>1. HostInv /\ OpenEpoch
        BY <3>1 DEF Typed
      <4>2. CASE epoch # 0 /\ LastSeq > 0
        BY <4>1, <4>2, OpenEpochIs
      <4>3. CASE ~(epoch # 0 /\ LastSeq > 0)
        BY <4>1, <4>3, OpenEpochIs
      <4>. QED BY <4>2, <4>3
    <3>. QED BY <3>1, <3>2, AppendSound
  <2>2. ASSUME NEW i \in Subjects, AppendEvent(i) PROVE SoundStream'
    <3>1. /\ AppendEnvelope(epoch', i)
          /\ UNCHANGED <<cur, since, reg, link, epoch, minted>>
      BY <2>2 DEF AppendEvent, paneVars
    <3>2. minted' \in Nat /\ minted <= minted' /\ epoch' \in 1 .. minted' /\ epoch' = epoch
      BY <2>2, <3>1 DEF AppendEvent, Typed, HostInv
    <3>. QED BY <3>1, <3>2, AppendSound
  <2>. QED BY <1>2, <2>1, <2>2
<1>3. CASE OpenVoid
  <2>1. OpenEpoch /\ UNCHANGED <<cur, since, link, wire, reg, rows>>
    BY <1>3 DEF OpenVoid, hubVars, netVars, paneVars
  <2>2. CASE epoch' = epoch
    BY <2>1, <2>2, SoundStays
  <2>3. CASE epoch' # epoch
    <3>1. epoch' = minted + 1 /\ LastSeq = 0 /\ minted \in Nat
      BY <2>1, <2>3, OpenEpochIs DEF Typed, HostInv
    <3>2. CASE cur \notin reg
      BY <2>1, <3>2, SoundStays
    <3>3. CASE cur \in reg
      <4>. SUFFICES ASSUME cur # 0, link[cur] = "up"
                    PROVE  Sound(wire[cur], since, TRUE, At(epoch', 0))
        <5>1. SoundStream' <=> (cur' # 0 /\ link'[cur'] = "up" =>
                 Sound(wire'[cur'], since', cur' \in reg', At(epoch', Len(rows'))))
          BY DEF SoundStream, LastSeq
        <5>2. Len(rows') = 0
          BY <2>1, <3>1 DEF LastSeq
        <5>3. (cur' \in reg') = TRUE
          BY <2>1, <3>3
        <5>. QED BY <2>1, <5>1, <5>2, <5>3
      <4>1. wire[cur] \in Seq(Frames) /\ since \in Cursors
        BY <3>3 DEF Typed, NetInv, HubInv, PaneInv
      <4>2. Sound(wire[cur], since, TRUE, At(epoch, LastSeq))
        BY <3>3 DEF SoundStream, Sound
      <4>3. Places(wire[cur], "durable") = {}
        BY <3>1, <4>1, <4>2, NoneOfNoRows
      <4>4. From(wire[cur], since).epoch # epoch'
        BY <3>1, <4>1, Kinds DEF From, Cursors
      <4>5. At(epoch', 0).epoch = epoch'
        BY DEF At
      <4>. QED BY <4>2, <4>3, <4>4, <4>5 DEF Sound, UpToDate
    <3>. QED BY <3>2, <3>3
  <2>. QED BY <2>2, <2>3
<1>4. CASE FlushDeltas
  <2>1. wire' = Sent(wire, held) /\ UNCHANGED <<cur, since, link, reg, epoch, rows>>
    BY <1>4 DEF FlushDeltas, hostVars, paneVars
  <2>2. cur # 0 /\ link[cur] = "up" =>
           Sound(wire'[cur], since, cur \in reg, At(epoch, Len(rows)))
    BY <2>1, SentSound DEF LastSeq
  <2>. QED BY <2>1, <2>2 DEF SoundStream, LastSeq
<1>5. ASSUME NEW s \in Sockets, Subscribe(s) PROVE SoundStream'
  <2>1. /\ link[s] = "dialing" /\ link' = [link EXCEPT ![s] = "up"]
        /\ wire' = [Sent(wire, held) EXCEPT ![s] = Replied(s)]
        /\ reg' = reg \cup {s}
        /\ UNCHANGED <<cur, since, epoch, rows>>
    BY <1>5, SubscribeDoes DEF hostVars, paneVars
  <2>0. DOMAIN link = Sockets /\ DOMAIN Sent(wire, held) = Sockets
    BY DEF Typed, NetInv, Sent
  <2>2. CASE cur = 0
    BY <2>1, <2>2 DEF SoundStream
  <2>3. CASE cur # 0 /\ cur # s
    <3>1. link'[cur] = link[cur] /\ wire'[cur] = Sent(wire, held)[cur]
          /\ (cur \in reg' <=> cur \in reg)
      BY <2>1, <2>3
    <3>2. link[cur] = "up" => Sound(wire'[cur], since, cur \in reg, At(epoch, Len(rows)))
      BY <2>3, <3>1, SentSound DEF LastSeq
    <3>3. link[cur] = "up" => Sound(wire'[cur], since, cur \in reg', At(epoch, Len(rows)))
      BY <3>1, <3>2 DEF Sound
    <3>. QED BY <2>1, <3>1, <3>3 DEF SoundStream, LastSeq
  <2>4. CASE cur # 0 /\ cur = s
    <3>1. url[s] = since /\ since \in Cursors /\ minted \in Nat
      BY <2>1, <2>4 DEF Typed, PaneInv, HostInv
    <3>2. wire'[cur] = Replied(s) /\ cur \in reg'
      BY <2>0, <2>1, <2>4
    <3>3. Sound(Replied(s), since, TRUE, At(epoch, LastSeq))
      <4>1. CASE since # Null
        <5>1. /\ Replay(s) = ReadSince(since)
              /\ ~Replay(s).ok => Replay(s).why \in Resets
              /\ Replay(s).ok => /\ epoch # 0 /\ epoch = since.epoch /\ since.seq <= LastSeq
                                 /\ Replay(s).rows = Window(since.seq + 1, LastSeq)
          BY <3>1, <4>1, ReadSinceIs DEF Replay, Typed
        <5>2. CASE Replay(s).ok
          <6>1. PICK f \in Nat : f = since.seq + 1 /\ 1 <= f /\ f <= LastSeq + 1
            <7>1. LastSeq \in Nat /\ since.seq \in Nat
              BY <3>1 DEF Typed, HostInv, LastSeq, Cursors
            <7>. QED BY <5>1, <5>2, <7>1
          <6>2. Sound(Window(f, LastSeq), since, TRUE, At(epoch, LastSeq))
            BY <3>1, <5>1, <5>2, <6>1, WindowFollows DEF Typed
          <6>. QED BY <5>1, <5>2, <6>1, <6>2 DEF Replied
        <5>3. CASE ~Replay(s).ok
          BY <5>1, <5>3, ResetFollows DEF Replied, Typed
        <5>. QED BY <5>2, <5>3
      <4>2. CASE since = Null
        <5>1. Replay(s) = ReadPage(Null, BootstrapLimit)
          BY <3>1, <4>2 DEF Replay
        <5>2. /\ ~Replay(s).ok => Replay(s).why \in Resets
              /\ Replay(s).ok => /\ epoch # 0
                                 /\ \E f \in Nat : /\ 1 <= f /\ f <= LastSeq + 1
                                                   /\ Replay(s).rows = Window(f, LastSeq)
          BY <3>1, <5>1, BootstrapIs DEF Typed
        <5>3. CASE Replay(s).ok
          <6>1. PICK f \in Nat : /\ 1 <= f /\ f <= LastSeq + 1
                                 /\ Replay(s).rows = Window(f, LastSeq)
            BY <5>2, <5>3
          <6>2. epoch # 0 /\ since.epoch = 0
            BY <3>1, <4>2, <5>2, <5>3, Kinds
          <6>3. Sound(Window(f, LastSeq), since, TRUE, At(epoch, LastSeq))
            BY <3>1, <6>1, <6>2, WindowFollows DEF Typed
          <6>. QED BY <5>3, <6>1, <6>3 DEF Replied
        <5>4. CASE ~Replay(s).ok
          BY <5>2, <5>4, ResetFollows DEF Replied, Typed
        <5>. QED BY <5>3, <5>4
      <4>. QED BY <4>1, <4>2
    <3>4. Sound(wire'[cur], since, cur \in reg', At(epoch, Len(rows)))
      BY <3>2, <3>3 DEF Sound, LastSeq
    <3>. QED BY <2>1, <3>4 DEF SoundStream, LastSeq
  <2>. QED BY <2>2, <2>3, <2>4
<1>6. ASSUME NEW s \in Sockets, Unsubscribe(s) PROVE SoundStream'
  <2>1. /\ link[s] = "cut" /\ reg' = reg \ {s} /\ link' = [link EXCEPT ![s] = "free"]
        /\ UNCHANGED <<cur, since, wire, epoch, rows>>
    BY <1>6 DEF Unsubscribe, Unsubscribed, hostVars, paneVars
  <2>2. cur # 0 /\ link'[cur] = "up" => link[cur] = "up"
    BY <2>1 DEF Typed, NetInv, PaneInv
  <2>. QED BY <2>1, <2>2, SoundStays
<1>7. CASE HostCrash
  <2>1. /\ reg' = {} /\ UNCHANGED <<cur, since, wire, epoch, rows>>
        /\ link' = [s \in Sockets |-> IF link[s] = "cut" THEN "free" ELSE link[s]]
    BY <1>7 DEF HostCrash, paneVars
  <2>2. cur # 0 /\ link'[cur] = "up" => link[cur] = "up"
    BY <2>1 DEF Typed, PaneInv
  <2>. QED BY <2>1, <2>2, SoundStays
<1>8. CASE \/ HostRestart \/ RestartWithoutJournal
           \/ \E k \in 1 .. LastSeq : RestartWithBadRow(k)
  <2>1. ~up /\ UNCHANGED <<cur, since, wire, link, reg>>
    BY <1>8 DEF HostRestart, RestartWithoutJournal, RestartWithBadRow, paneVars, hubVars, netVars
  <2>2. reg' = {}
    BY <2>1 DEF Typed, HubInv
  <2>. QED BY <2>1, <2>2, SoundStays
<1>9. CASE \/ Mount \/ ServeSession \/ ServeItems \/ SeedFails \/ Render \/ ServeResync
           \/ ResyncFails \/ LoadOlder \/ LoadOlderFails \/ Commit \/ ApplyResync
           \/ ApplyOlder \/ \E i \in Items : PublishDelta(i)
  <2>1. UNCHANGED <<cur, since, wire, link, reg, epoch, rows>>
    BY <1>9 DEF Mount, ServeSession, ServeItems, SeedFails, Render, ServeResync, ResyncFails,
         LoadOlder, LoadOlderFails, Commit, ApplyResync, ApplyOlder, PublishDelta,
         hostVars, hubVars, netVars, paneVars
  <2>. QED BY <2>1, SoundStays
<1>10. ASSUME NEW s \in Sockets, Seed(s) \/ Reconnect(s) PROVE SoundStream'
  <2>1. cur' = s /\ link'[s] = "dialing"
    BY <1>10, SeedTyped, ReconnectTyped
  <2>. QED BY <2>1 DEF SoundStream
<1>11. CASE Unmount \/ Dropped
  <2>1. cur' = 0
    BY <1>11 DEF Unmount, Dropped
  <2>. QED BY <2>1 DEF SoundStream
<1>12. CASE Receive
  <2>1. /\ cur # 0 /\ link[cur] = "up" /\ wire[cur] # <<>>
        /\ since' = Taken(wire[cur][1], since)
        /\ wire' = [wire EXCEPT ![cur] = Tail(@)]
        /\ UNCHANGED <<cur, link, reg, epoch, rows>>
    BY <1>12 DEF Receive, Taken, hostVars, hubVars
  <2>2. cur \in Sockets /\ wire[cur] \in Seq(Frames) /\ since \in Cursors
    BY <2>1 DEF Typed, PaneInv, NetInv
  <2>3. Sound(wire[cur], since, cur \in reg, At(epoch, LastSeq))
    BY <2>1 DEF SoundStream
  <2>4. ASSUME NEW served \in BOOLEAN, served <=> cur \in reg
        PROVE  Sound(Tail(wire[cur]), since', served, At(epoch, LastSeq))
    <3>1. Sound(wire[cur], since, served, At(epoch, LastSeq))
      BY <2>3, <2>4 DEF Sound
    <3>. QED BY <2>1, <2>2, <3>1, TakingFollows DEF Typed
  <2>5. Sound(Tail(wire[cur]), since', cur \in reg, At(epoch, LastSeq))
    <3>1. CASE cur \in reg
      <4>1. Sound(Tail(wire[cur]), since', TRUE, At(epoch, LastSeq))
        BY <2>4, <3>1
      <4>. QED BY <4>1 DEF Sound
    <3>2. CASE cur \notin reg
      <4>1. Sound(Tail(wire[cur]), since', FALSE, At(epoch, LastSeq))
        BY <2>4, <3>2
      <4>. QED BY <3>2, <4>1 DEF Sound
    <3>. QED BY <3>1, <3>2
  <2>6. wire'[cur] = Tail(wire[cur])
    BY <2>1, <2>2 DEF Typed, NetInv
  <2>7. Sound(wire'[cur], since', cur \in reg, At(epoch, Len(rows)))
    BY <2>5, <2>6 DEF LastSeq
  <2>. QED BY <2>1, <2>7 DEF SoundStream, LastSeq
<1>. QED BY <1>1, <1>2, <1>3, <1>4, <1>5, <1>6, <1>7, <1>8, <1>9, <1>10, <1>11, <1>12
     DEF Next, HostSteps, PaneSteps

-----------------------------------------------------------------------------
(* What the stream keeps. *)

LEMMA InvariantHolds == Spec => [](Typed /\ SoundStream)
<1>1. Init => Typed /\ SoundStream
  BY TypedInit DEF Init, SoundStream
<1>2. Typed /\ SoundStream /\ [Next]_vars => Typed' /\ SoundStream'
  BY TypedStep, StreamStep
<1>. QED BY <1>1, <1>2, PTL DEF Spec

\* The journal, the hub's subscribers, the wires and the pane's cursor and
\* snapshot keep their types, whatever the host and the network do; only
\* sockets the server can still write to or has to hear of are registered.
THEOREM TypesHold == Spec => []TypeOK
<1>1. Typed => TypeOK
  BY TypedIs
<1>. QED BY <1>1, InvariantHolds, PTL

\* The connected pane receives every event once and in order: nothing is lost
\* between the replay of subscribe() and the first event that publish() sends,
\* and nothing comes twice, over any number of drops, crashes and reconnects.
THEOREM NoHoleInStream == Spec => []StreamHasNoHoles
<1>1. SoundStream => StreamHasNoHoles
  BY StreamIs
<1>. QED BY <1>1, InvariantHolds, PTL

-----------------------------------------------------------------------------
(* What a window of the journal shows. *)

About(l, i, f, t)  == {k \in DOMAIN l : f <= k /\ k <= t /\ l[k].item = i}

\* The version of item i that the rows f .. t of l leave behind.
Newest(l, i, f, t) ==
    IF About(l, i, f, t) = {} THEN 0
    ELSE l[CHOOSE k \in About(l, i, f, t) : \A j \in About(l, i, f, t) : j <= k].ver

LEMMA NewestIs ==
    ASSUME NEW l, NEW n \in Nat, DOMAIN l = 1 .. n, NEW i, NEW f \in Nat, NEW t \in Nat
    PROVE  /\ About(l, i, f, t) = {} => Newest(l, i, f, t) = 0
           /\ About(l, i, f, t) # {} =>
                 \E k \in About(l, i, f, t) : /\ \A j \in About(l, i, f, t) : j <= k
                                              /\ Newest(l, i, f, t) = l[k].ver
<1>. DEFINE S == About(l, i, f, t)
            m == CHOOSE k \in S : \A j \in S : j <= k
<1>1. S \in SUBSET (0 .. n)
  BY DEF About
<1>2. S = {} => Newest(l, i, f, t) = 0
  BY DEF Newest
<1>3. ASSUME S # {}
      PROVE  \E k \in S : (\A j \in S : j <= k) /\ Newest(l, i, f, t) = l[k].ver
  <2>1. Newest(l, i, f, t) = l[m].ver
    BY <1>3 DEF Newest
  <2>. HIDE DEF S
  <2>2. \E k \in S : \A j \in S : j <= k
    BY <1>1, <1>3, Greatest
  <2>3. m \in S /\ \A j \in S : j <= m
    BY <2>2
  <2>. HIDE DEF m
  <2>. QED BY <2>1, <2>3
<1>. QED BY <1>2, <1>3

\* The refinement's and the delta's notion of it are the same.
LEMMA NewestIsVersion ==
    ASSUME NEW l, NEW i, NEW f, NEW t
    PROVE  Log!VersionOf(l, i, f, t) = Newest(l, i, f, t)
BY DEF Log!VersionOf, Newest, About

LEMMA NewestIsLatest ==
    ASSUME HostInv, NEW i, NEW n \in Nat
    PROVE  Latest(i, n) = Newest(rows, i, 1, n)
<1>1. LastSeq \in Nat /\ DOMAIN rows = 1 .. LastSeq
  BY DEF HostInv, LastSeq
<1>. DEFINE S == {k \in 1 .. n : k <= LastSeq /\ rows[k].item = i}
<1>2. S = About(rows, i, 1, n)
  BY <1>1 DEF About
<1>3. Latest(i, n) = IF S = {} THEN 0 ELSE rows[CHOOSE k \in S : \A j \in S : j <= k].ver
  BY DEF Latest
<1>. HIDE DEF S
<1>. QED BY <1>2, <1>3 DEF Newest

LEMMA NewestTyped ==
    ASSUME NEW l \in Seq(Row), NEW i, NEW f \in Nat, NEW t \in Nat
    PROVE  /\ Newest(l, i, f, t) \in 0 .. MaxVersion
           /\ Newest(l, i, f, t) = 0 <=> About(l, i, f, t) = {}
<1>1. Len(l) \in Nat /\ DOMAIN l = 1 .. Len(l) /\ \A k \in DOMAIN l : l[k] \in Row
  OBVIOUS
<1>2. \A k \in DOMAIN l : l[k].ver \in 0 .. MaxVersion /\ l[k].ver # 0
  BY <1>1, BoundsAssumption DEF Row
<1>3. About(l, i, f, t) \subseteq DOMAIN l /\ 0 \in 0 .. MaxVersion
  BY BoundsAssumption DEF About
<1>. QED BY <1>1, <1>2, <1>3, NewestIs

\* The newest is found by its place: two windows with the same newest place
\* leave the same version behind.
LEMMA SameNewest ==
    ASSUME NEW l, NEW n \in Nat, DOMAIN l = 1 .. n, NEW i,
           NEW m, NEW o \in Nat, DOMAIN m = 1 .. o,
           NEW f \in Nat, NEW t \in Nat, NEW g \in Nat, NEW u \in Nat,
           About(l, i, f, t) = About(m, i, g, u),
           \A k \in About(l, i, f, t) : l[k] = m[k]
    PROVE  Newest(l, i, f, t) = Newest(m, i, g, u)
<1>1. CASE About(l, i, f, t) = {}
  BY <1>1, NewestIs
<1>2. CASE About(l, i, f, t) # {}
  <2>1. PICK k \in About(l, i, f, t) : /\ \A j \in About(l, i, f, t) : j <= k
                                       /\ Newest(l, i, f, t) = l[k].ver
    BY <1>2, NewestIs
  <2>2. PICK q \in About(m, i, g, u) : /\ \A j \in About(m, i, g, u) : j <= q
                                       /\ Newest(m, i, g, u) = m[q].ver
    BY <1>2, NewestIs
  <2>3. k \in Nat /\ q \in Nat
    BY DEF About
  <2>4. k <= q /\ q <= k
    BY <2>1, <2>2
  <2>5. k = q
    BY <2>3, <2>4
  <2>. QED BY <2>1, <2>2, <2>5
<1>. QED BY <1>1, <1>2

\* One more row.
LEMMA NewestNext ==
    ASSUME NEW l, NEW n \in Nat, DOMAIN l = 1 .. n, NEW i,
           NEW f \in Nat, NEW t \in Nat, f <= t + 1, t + 1 <= n
    PROVE  Newest(l, i, f, t + 1) =
              IF l[t + 1].item = i THEN l[t + 1].ver ELSE Newest(l, i, f, t)
<1>1. t + 1 \in DOMAIN l /\ t + 1 \in Nat
  OBVIOUS
<1>2. CASE l[t + 1].item = i
  <2>1. t + 1 \in About(l, i, f, t + 1)
    BY <1>1, <1>2 DEF About
  <2>2. PICK k \in About(l, i, f, t + 1) : /\ \A j \in About(l, i, f, t + 1) : j <= k
                                           /\ Newest(l, i, f, t + 1) = l[k].ver
    BY <1>1, <2>1, NewestIs
  <2>3. k \in Nat /\ k <= t + 1 /\ t + 1 <= k
    BY <2>1, <2>2 DEF About
  <2>. QED BY <1>2, <2>2, <2>3
<1>3. CASE l[t + 1].item # i
  <2>1. About(l, i, f, t + 1) = About(l, i, f, t)
    <3>1. \A k \in DOMAIN l : k <= t + 1 /\ l[k].item = i => k <= t
      <4>. SUFFICES ASSUME NEW k \in DOMAIN l, k <= t + 1, l[k].item = i PROVE k <= t
        OBVIOUS
      <4>1. k # t + 1 /\ k \in Nat
        BY <1>3
      <4>. QED BY <4>1
    <3>2. \A k \in DOMAIN l : k <= t => k <= t + 1
      OBVIOUS
    <3>. QED BY <3>1, <3>2 DEF About
  <2>. QED BY <1>1, <1>3, <2>1, SameNewest
<1>. QED BY <1>2, <1>3

\* Rows that are added later make no difference.
LEMMA NewestStays ==
    ASSUME NEW l, NEW n \in Nat, DOMAIN l = 1 .. n,
           NEW m, NEW o \in Nat, DOMAIN m = 1 .. o, n <= o,
           \A k \in 1 .. n : m[k] = l[k],
           NEW i, NEW f \in Nat, NEW t \in Nat, t <= n
    PROVE  Newest(m, i, f, t) = Newest(l, i, f, t)
<1>1. About(m, i, f, t) = About(l, i, f, t)
  <2>1. \A k \in DOMAIN l : k \in DOMAIN m /\ k \in 1 .. n
    OBVIOUS
  <2>2. \A k \in DOMAIN m : k <= t => k \in DOMAIN l
    OBVIOUS
  <2>. QED BY <2>1, <2>2 DEF About
<1>2. \A k \in About(l, i, f, t) : l[k] = m[k]
  BY DEF About
<1>. QED BY <1>1, <1>2, SameNewest

\* A window and the one before it.
LEMMA NewestJoins ==
    ASSUME NEW l \in Seq(Row), NEW i, NEW f \in Nat, NEW g \in Nat, NEW t \in Nat,
           f <= g, g <= t + 1, g # 0
    PROVE  Newest(l, i, f, t) =
              IF Newest(l, i, g, t) = 0 THEN Newest(l, i, f, g - 1) ELSE Newest(l, i, g, t)
<1>1. Len(l) \in Nat /\ DOMAIN l = 1 .. Len(l) /\ g - 1 \in Nat
  OBVIOUS
<1>2. CASE Newest(l, i, g, t) = 0
  <2>1. About(l, i, g, t) = {}
    BY <1>2, NewestTyped
  <2>2. About(l, i, f, t) = About(l, i, f, g - 1)
    <3>1. \A k \in DOMAIN l : k <= t /\ l[k].item = i => k <= g - 1
      <4>. SUFFICES ASSUME NEW k \in DOMAIN l, k <= t, l[k].item = i PROVE k <= g - 1
        OBVIOUS
      <4>1. ~(g <= k) /\ k \in Nat
        BY <2>1 DEF About
      <4>. QED BY <4>1
    <3>2. \A k \in DOMAIN l : k <= g - 1 => k <= t
      OBVIOUS
    <3>. QED BY <3>1, <3>2 DEF About
  <2>. QED BY <1>1, <1>2, <2>2, SameNewest
<1>3. CASE Newest(l, i, g, t) # 0
  <2>1. About(l, i, g, t) # {}
    BY <1>3, NewestTyped
  <2>2. PICK k \in About(l, i, g, t) : /\ \A j \in About(l, i, g, t) : j <= k
                                       /\ Newest(l, i, g, t) = l[k].ver
    BY <1>1, <2>1, NewestIs
  <2>3. k \in About(l, i, f, t)
    BY DEF About
  <2>4. PICK q \in About(l, i, f, t) : /\ \A j \in About(l, i, f, t) : j <= q
                                       /\ Newest(l, i, f, t) = l[q].ver
    BY <1>1, <2>3, NewestIs
  <2>5. k \in Nat /\ q \in Nat /\ g <= k /\ k <= q
    BY <2>3, <2>4 DEF About
  <2>6. q \in About(l, i, g, t)
    BY <2>5 DEF About
  <2>7. q <= k
    BY <2>2, <2>6
  <2>8. q = k
    BY <2>5, <2>7
  <2>. QED BY <1>3, <2>2, <2>4, <2>8
<1>. QED BY <1>2, <1>3

-----------------------------------------------------------------------------
(* The pane shows a window of the journal. *)

\* The events of the rows f .. t of a journal l of epoch p.
Events(l, p, f, t) == [k \in 1 .. (t + 1 - f) |-> Durable(p, f + k - 1, l[f + k - 1])]

\* Each event is a row of the journal.
Genuine(es, l, p) ==
    \A k \in Places(es, "durable") :
        /\ es[k].at.seq \in 1 .. Len(l)
        /\ es[k] = Durable(p, es[k].at.seq, l[es[k].at.seq])

\* The seqs of the events before place k, and the seq b the frames begin after.
Ranks(es, b, k) == {b} \cup {es[j].at.seq : j \in {j \in Places(es, "durable") : j < k}}

\* A delta continues the version that is its item's newest where it stands.
Text(es, b, l) ==
    \A k \in Places(es, "delta") :
        \A r \in Ranks(es, b, k) :
            (\A q \in Ranks(es, b, k) : q <= r) => es[k].ver = Newest(l, es[k].item, 1, r)

\* The seq of the last row a snapshot has, when f is that of the first.
Upto(s, f) == IF s.cursor = Null THEN f - 1 ELSE s.cursor.seq

\* A snapshot shows the rows from f on, up to its cursor.
Showing(s, f, l, p) ==
    /\ 1 <= f /\ f <= Upto(s, f) + 1 /\ Upto(s, f) <= Len(l)
    /\ s.reset = "none"
    /\ s.cursor # Null => s.cursor.epoch = p /\ s.cursor.seq # 0
    /\ \A i \in Items : s.items[i] = Newest(l, i, f, Upto(s, f))
    /\ \A i \in Items : s.live[i] \subseteq {Newest(l, i, 1, Upto(s, f))}

\* Frames that continue at b and end at q, of the journal l of epoch p.
Run(es, l, p, b, q) ==
    /\ Places(es, "reset") = {} /\ Genuine(es, l, p) /\ Text(es, b, l)
    /\ Sound(es, At(p, b), TRUE, At(p, q))

LEMMA DurableIs ==
    \A p, n, row : /\ Durable(p, n, row).kind = "durable" /\ Durable(p, n, row).at = At(p, n)
                   /\ At(p, n).epoch = p /\ At(p, n).seq = n
BY DEF Durable, At

LEMMA GenuineIs ==
    ASSUME NEW es, NEW l, NEW p, Genuine(es, l, p)
    PROVE  \A k \in Places(es, "durable") : es[k].at.epoch = p
BY DurableIs DEF Genuine

LEMMA UptoIs ==
    ASSUME minted \in Nat, NEW s \in Snapshots, NEW f \in Nat, f # 0
    PROVE  Upto(s, f) \in Nat
BY DEF Upto, Snapshots, Cursors

\* The next event.
LEMMA ApplyNext ==
    ASSUME minted \in Nat, NEW s \in Snapshots, NEW e \in Frames, NEW f \in Nat,
           NEW l \in Seq(Row), NEW p, NEW r \in Nat, Showing(s, f, l, p), r = Upto(s, f),
           e.kind = "durable", r + 1 <= Len(l), e = Durable(p, r + 1, l[r + 1])
    PROVE  /\ Showing(Apply(s, e), f, l, p)
           /\ Upto(Apply(s, e), f) = r + 1 /\ Apply(s, e).cursor # Null
<1>. DEFINE z == Apply(s, e)
            i == e.item
<1>1. /\ e.at.epoch = p /\ e.at.seq = r + 1 /\ e.item = l[r + 1].item /\ e.ver = l[r + 1].ver
      /\ e.at.epoch # 0 /\ e.item \in Subjects
  BY Kinds DEF Durable, At
<1>2. e.at # Null
  BY <1>1, Kinds
<1>3. ~(s.cursor # Null /\ s.cursor.epoch # e.at.epoch)
  BY <1>1 DEF Showing
<1>4. z = [s EXCEPT !.items[e.item] = e.ver,
                    !.live = [j \in Items |-> IF j = e.item THEN {} ELSE @[j]],
                    !.cursor = IF @ = Null \/ e.at.seq > @.seq THEN e.at ELSE @]
  BY <1>3 DEF Apply
<1>5. s.cursor # Null => e.at.seq > s.cursor.seq
  BY <1>1 DEF Upto
<1>6. /\ z.cursor = e.at /\ z.reset = s.reset
      /\ z.items = [s.items EXCEPT ![e.item] = e.ver]
      /\ z.live = [j \in Items |-> IF j = e.item THEN {} ELSE s.live[j]]
  BY <1>4, <1>5 DEF Snapshots
<1>. HIDE DEF z
<1>7. Upto(z, f) = r + 1
  BY <1>1, <1>2, <1>6 DEF Upto
<1>8. Len(l) \in Nat /\ DOMAIN l = 1 .. Len(l) /\ f <= r + 1 /\ 1 <= f
  BY DEF Showing
<1>9. ASSUME NEW j \in Items
      PROVE  /\ z.items[j] = Newest(l, j, f, r + 1)
             /\ z.live[j] \subseteq {Newest(l, j, 1, r + 1)}
  <2>1. /\ Newest(l, j, f, r + 1) =
              IF l[r + 1].item = j THEN l[r + 1].ver ELSE Newest(l, j, f, r)
        /\ Newest(l, j, 1, r + 1) =
              IF l[r + 1].item = j THEN l[r + 1].ver ELSE Newest(l, j, 1, r)
    BY <1>8, NewestNext
  <2>2. s.items[j] = Newest(l, j, f, r) /\ s.live[j] \subseteq {Newest(l, j, 1, r)}
    BY DEF Showing
  <2>3. DOMAIN s.items = Subjects /\ j \in Subjects
    BY DEF Snapshots, Subjects
  <2>4. CASE j = e.item
    BY <1>1, <1>6, <2>1, <2>3, <2>4
  <2>5. CASE j # e.item
    BY <1>1, <1>6, <2>1, <2>2, <2>3, <2>5
  <2>. QED BY <2>4, <2>5
<1>10. Showing(z, f, l, p) /\ z.cursor # Null
  BY <1>1, <1>2, <1>6, <1>7, <1>8, <1>9 DEF Showing
<1>. QED BY <1>7, <1>10 DEF z

\* Text for the version the snapshot has.
LEMMA ApplyText ==
    ASSUME minted \in Nat, NEW s \in Snapshots, NEW e \in Frames, NEW f \in Nat,
           NEW l, NEW p, Showing(s, f, l, p),
           e.kind = "delta", e.ver = Newest(l, e.item, 1, Upto(s, f))
    PROVE  /\ Showing(Apply(s, e), f, l, p)
           /\ Upto(Apply(s, e), f) = Upto(s, f) /\ Apply(s, e).cursor = s.cursor
<1>. DEFINE z == Apply(s, e)
<1>1. e.item \in Items
  BY Kinds
<1>2. z = [s EXCEPT !.live[e.item] = @ \cup {e.ver}]
  BY DEF Apply
<1>3. /\ z.cursor = s.cursor /\ z.reset = s.reset /\ z.items = s.items
      /\ z.live = [s.live EXCEPT ![e.item] = @ \cup {e.ver}]
  BY <1>2 DEF Snapshots
<1>. HIDE DEF z
<1>4. Upto(z, f) = Upto(s, f)
  BY <1>3 DEF Upto
<1>5. \A i \in Items : z.live[i] \subseteq {Newest(l, i, 1, Upto(s, f))}
  BY <1>1, <1>3 DEF Showing, Snapshots
<1>6. Showing(z, f, l, p)
  BY <1>3, <1>4, <1>5 DEF Showing
<1>. QED BY <1>3, <1>4, <1>6 DEF z

\* One frame of a run: z is the snapshot after n frames, and r the row it has reached.
Reduced(es, s, f, l, p, n, z) ==
    LET u == Upto(s, f)
        r == Upto(z, f)
        P == Places(es, "durable")
    IN  /\ z \in Snapshots /\ Showing(z, f, l, p) /\ u <= r
        /\ \A k \in P : IF k <= n THEN es[k].at.seq <= r ELSE r < es[k].at.seq
        /\ r = u \/ \E j \in P : j <= n /\ es[j].at.seq = r
        /\ z.cursor = Null => s.cursor = Null /\ \A k \in P : ~(k <= n)
        /\ (\A k \in P : ~(k <= n)) => z.cursor = s.cursor

LEMMA ReducesNext ==
    ASSUME minted \in Nat, NEW es \in Seq(Frames), NEW s \in Snapshots, NEW f \in Nat, f # 0,
           NEW l \in Seq(Row), NEW p, NEW q, Run(es, l, p, Upto(s, f), q),
           NEW n \in Nat, n + 1 <= Len(es), NEW z, Reduced(es, s, f, l, p, n, z)
    PROVE  Reduced(es, s, f, l, p, n + 1, Apply(z, es[n + 1]))
<1>. DEFINE e == es[n + 1]
            y == Apply(z, e)
            P == Places(es, "durable")
            u == Upto(s, f)
            r == Upto(z, f)
<1>1. /\ z \in Snapshots /\ Showing(z, f, l, p) /\ u <= r
      /\ \A k \in P : IF k <= n THEN es[k].at.seq <= r ELSE r < es[k].at.seq
      /\ r = u \/ \E j \in P : j <= n /\ es[j].at.seq = r
      /\ z.cursor = Null => s.cursor = Null /\ \A k \in P : ~(k <= n)
      /\ (\A k \in P : ~(k <= n)) => z.cursor = s.cursor
  BY DEF Reduced
<1>2. /\ u \in Nat /\ r \in Nat /\ y \in Snapshots /\ e \in Frames
      /\ n + 1 \in DOMAIN es /\ n + 1 \in Nat
      /\ \A k \in P : k \in Nat /\ es[k].at.seq \in Nat /\ es[k] \in Frames
  <2>1. \A k \in DOMAIN es : k \in Nat /\ es[k] \in Frames
    OBVIOUS
  <2>2. n + 1 \in DOMAIN es
    OBVIOUS
  <2>3. \A k \in P : k \in Nat /\ es[k].at.seq \in Nat /\ es[k] \in Frames
    BY <2>1, Kinds DEF Places, Cursors
  <2>. QED BY <1>1, <2>1, <2>2, <2>3, UptoIs, ApplyIs
<1>3. \A k \in P : k <= n + 1 <=> k <= n \/ k = n + 1
  BY <1>2
<1>. HIDE DEF y, e, u, r, P
<1>4. CASE e.kind = "durable"
  <2>1. n + 1 \in P /\ r < es[n + 1].at.seq
    <3>1. n + 1 \in P
      BY <1>2, <1>4 DEF P, e, Places
    <3>2. ~(n + 1 <= n)
      OBVIOUS
    <3>. QED BY <1>1, <3>1, <3>2
  <2>2. /\ \A j, k \in P : /\ j < k => es[j].at.seq < es[k].at.seq
                           /\ es[j].at.seq .. es[k].at.seq \subseteq Seqs(es)
        /\ \A k \in P : u < es[k].at.seq /\ u + 1 \in Seqs(es)
        /\ \A k \in P : es[k].at.seq \in 1 .. Len(l)
                        /\ es[k] = Durable(p, es[k].at.seq, l[es[k].at.seq])
    <3>1. \A k \in P : es[k].at.epoch = p
      BY GenuineIs DEF P, Run
    <3>2. Continues(es, At(p, u))
      BY DEF Run, Sound, From, u
    <3>3. At(p, u).epoch = p /\ At(p, u).seq = u
      BY DEF At
    <3>4. \A k \in P : u < es[k].at.seq /\ u + 1 \in Seqs(es)
      BY <3>1, <3>2, <3>3 DEF Continues, P
    <3>. QED BY <3>4 DEF P, Run, Sound, Contiguous, Genuine
  <2>3. r + 1 \in Seqs(es)
    <3>1. CASE r = u
      BY <2>1, <2>2, <3>1
    <3>2. CASE r # u
      <4>1. PICK j \in P : j <= n /\ es[j].at.seq = r
        BY <1>1, <3>2
      <4>2. r + 1 \in es[j].at.seq .. es[n + 1].at.seq
        BY <1>2, <2>1, <4>1
      <4>. QED BY <2>1, <2>2, <4>2
    <3>. QED BY <3>1, <3>2
  <2>4. PICK m \in P : es[m].at.seq = r + 1
    BY <2>3 DEF Seqs, P
  <2>5. m = n + 1
    <3>1. ~(m <= n)
      BY <1>1, <1>2, <2>4
    <3>2. ~(n + 1 < m)
      BY <1>2, <2>1, <2>2, <2>4
    <3>. QED BY <1>2, <3>1, <3>2
  <2>6. e = Durable(p, r + 1, l[r + 1]) /\ r + 1 <= Len(l) /\ es[n + 1].at.seq = r + 1
    BY <2>2, <2>4, <2>5 DEF e
  <2>7. Showing(y, f, l, p) /\ Upto(y, f) = r + 1 /\ y.cursor # Null
    BY <1>1, <1>2, <1>4, <2>6, ApplyNext DEF y, r
  <2>8. \A k \in P : IF k <= n + 1 THEN es[k].at.seq <= r + 1 ELSE r + 1 < es[k].at.seq
    <3>1. ASSUME NEW k \in P, k <= n PROVE es[k].at.seq <= r + 1
      BY <1>1, <1>2, <3>1
    <3>2. ASSUME NEW k \in P, ~(k <= n + 1) PROVE r + 1 < es[k].at.seq
      BY <1>2, <2>1, <2>2, <2>6, <3>2
    <3>3. es[n + 1].at.seq <= r + 1
      BY <1>2, <2>6
    <3>. QED BY <1>3, <3>1, <3>2, <3>3
  <2>9. u <= r + 1 /\ n + 1 <= n + 1
    BY <1>1, <1>2
  <2>. QED BY <1>2, <2>1, <2>6, <2>7, <2>8, <2>9 DEF Reduced, u, P, y, e
<1>5. CASE e.kind = "delta"
  <2>1. n + 1 \notin P /\ n + 1 \in Places(es, "delta")
    BY <1>2, <1>5 DEF P, e, Places
  <2>2. \A k \in P : k <= n + 1 <=> k <= n
    BY <1>3, <2>1
  <2>3. \A k \in P : k < n + 1 <=> k <= n
    BY <1>2
  <2>4. r \in Ranks(es, u, n + 1)
    BY <1>1, <2>3 DEF Ranks, P
  <2>5. \A o \in Ranks(es, u, n + 1) : o <= r
    BY <1>1, <2>3 DEF Ranks, P
  <2>6. e.ver = Newest(l, e.item, 1, r)
    BY <2>1, <2>4, <2>5 DEF Run, Text, e, u
  <2>7. Showing(y, f, l, p) /\ Upto(y, f) = r /\ y.cursor = z.cursor
    BY <1>1, <1>2, <1>5, <2>6, ApplyText DEF y, r
  <2>. QED BY <1>1, <1>2, <2>2, <2>7 DEF Reduced, u, P, y, e
<1>6. CASE e.kind = "reset"
  <2>1. n + 1 \in Places(es, "reset")
    BY <1>2, <1>6 DEF e, Places
  <2>. QED BY <2>1 DEF Run
<1>. QED BY <1>2, <1>4, <1>5, <1>6, Kinds

\* A run of frames takes a snapshot from one row of the journal to another.
LEMMA RunReduces ==
    ASSUME minted \in Nat, NEW s \in Snapshots, NEW es \in Seq(Frames), NEW f \in Nat,
           NEW l \in Seq(Row), NEW p, NEW q \in Nat,
           Showing(s, f, l, p), Run(es, l, p, Upto(s, f), q)
    PROVE  LET z == ReduceMany(s, es)
           IN  /\ Showing(z, f, l, p) /\ Upto(z, f) = q /\ Upto(s, f) <= q
               /\ z.cursor = Null => s.cursor = Null /\ Places(es, "durable") = {}
               /\ Places(es, "durable") = {} => z.cursor = s.cursor
<1>. DEFINE N == Len(es)
            P == Places(es, "durable")
            u == Upto(s, f)
<1>1. N \in Nat /\ f # 0 /\ u \in Nat
  BY UptoIs DEF Showing
<1>2. PICK a : /\ a[0] = s /\ ReduceMany(s, es) = a[N]
               /\ \A n \in 1 .. N : a[n] = Apply(a[n - 1], es[n])
  BY <1>1, Reduction
<1>3. \A k \in P : /\ k \in 1 .. N /\ ~(k <= 0)
                   /\ es[k].at.seq \in Nat /\ es[k].at.epoch = p /\ es[k].at.seq > u
  <2>1. \A k \in P : k \in 1 .. N /\ es[k] \in Frames /\ es[k].kind = "durable"
    BY DEF Places
  <2>2. \A k \in P : es[k].at.epoch = p
    BY GenuineIs DEF Run
  <2>3. Continues(es, At(p, u)) /\ At(p, u).epoch = p /\ At(p, u).seq = u
    BY DEF Run, Sound, From, At
  <2>4. \A k \in P : es[k].at.seq \in Nat
    BY <2>1, Kinds DEF Cursors
  <2>5. \A k \in P : u < es[k].at.seq
    BY <2>2, <2>3 DEF Continues
  <2>. HIDE DEF P, u, N
  <2>. QED BY <1>1, <2>1, <2>2, <2>4, <2>5
<1>. DEFINE B == {n \in 0 .. N : ~Reduced(es, s, f, l, p, n, a[n])}
<1>4. B = {}
  <2>. SUFFICES ASSUME B # {} PROVE FALSE
    OBVIOUS
  <2>1. B \in SUBSET Nat
    BY <1>1
  <2>. HIDE DEF B
  <2>2. PICK m \in B : \A n \in B : m <= n
    BY <2>1, Least
  <2>3. m \in 0 .. N /\ ~Reduced(es, s, f, l, p, m, a[m])
    BY <2>2 DEF B
  <2>4. CASE m = 0
    <3>1. Reduced(es, s, f, l, p, 0, s)
      BY <1>1, <1>3 DEF Reduced
    <3>. QED BY <1>2, <2>3, <2>4, <3>1
  <2>5. CASE m # 0
    <3>1. PICK n \in Nat : n + 1 = m /\ n = m - 1
      BY <1>1, <2>3, <2>5
    <3>2. n \in 0 .. N /\ n < m /\ n + 1 <= N /\ m \in 1 .. N
      BY <1>1, <2>3, <3>1
    <3>3. Reduced(es, s, f, l, p, n, a[n])
      BY <2>2, <3>2 DEF B
    <3>4. Reduced(es, s, f, l, p, n + 1, Apply(a[n], es[n + 1]))
      BY <1>1, <3>2, <3>3, ReducesNext
    <3>. QED BY <1>2, <2>3, <3>1, <3>2, <3>4
  <2>. QED BY <2>4, <2>5
<1>. DEFINE z == a[N]
            r == Upto(z, f)
<1>5. Reduced(es, s, f, l, p, N, z)
  BY <1>1, <1>4
<1>. HIDE DEF z
<1>6. /\ z \in Snapshots /\ Showing(z, f, l, p) /\ u <= r /\ r \in Nat
      /\ \A k \in P : es[k].at.seq <= r
      /\ r = u \/ \E j \in P : es[j].at.seq = r
      /\ z.cursor = Null => s.cursor = Null /\ P = {}
      /\ P = {} => z.cursor = s.cursor
  <2>1. \A k \in P : k <= N
    BY <1>1, <1>3
  <2>2. z \in Snapshots /\ Showing(z, f, l, p)
    BY <1>5 DEF Reduced
  <2>. HIDE DEF P, N, u
  <2>3. r \in Nat
    BY <1>1, <2>2, UptoIs
  <2>. QED BY <1>5, <2>1, <2>2, <2>3 DEF Reduced, P, u
<1>7. r = q
  <2>1. /\ \A k \in P : es[k].at.seq <= q /\ q \in Seqs(es)
        /\ P = {} => u = q
    <3>1. UpToDate(es, At(p, u), At(p, q))
      BY DEF Run, Sound, From
    <3>2. At(p, q).epoch = p /\ At(p, q).seq = q /\ At(p, u).epoch = p /\ At(p, u).seq = u
      BY DEF At
    <3>. QED BY <3>1, <3>2 DEF UpToDate
  <2>. HIDE DEF P, u, r
  <2>2. CASE P = {}
    BY <1>6, <2>1, <2>2
  <2>3. CASE P # {}
    <3>1. q <= r
      BY <1>6, <2>1, <2>3 DEF Seqs, P
    <3>2. r # u
      <4>1. PICK k \in P : TRUE
        BY <2>3
      <4>. QED BY <1>1, <1>3, <1>6, <4>1
    <3>3. r <= q
      BY <1>6, <2>1, <3>2
    <3>. QED BY <1>6, <3>1, <3>3
  <2>. QED BY <2>2, <2>3
<1>8. z = ReduceMany(s, es)
  BY <1>2 DEF z
<1>. QED BY <1>6, <1>7, <1>8

\* q is where frames end that begin after b.
Ends(es, b, q) ==
    q \in {b} \cup Seqs(es) /\ \A x \in {b} \cup Seqs(es) : x <= q

LEMMA SoundEnds ==
    ASSUME NEW es \in Seq(Frames), NEW l, NEW p, NEW b \in Nat, NEW q \in Nat, minted \in Nat,
           Places(es, "reset") = {}, Genuine(es, l, p), Sound(es, At(p, b), TRUE, At(p, q))
    PROVE  Ends(es, b, q)
<1>. DEFINE P == Places(es, "durable")
<1>1. Continues(es, At(p, b)) /\ UpToDate(es, At(p, b), At(p, q))
  BY DEF Sound, From
<1>2. \A k \in P : es[k].at.epoch = p /\ es[k].at.seq \in Nat
  <2>1. \A k \in P : es[k] \in Frames /\ es[k].kind = "durable"
    BY DEF Places
  <2>. QED BY <2>1, GenuineIs, Kinds DEF Cursors
<1>3. /\ \A k \in P : b < es[k].at.seq /\ es[k].at.seq <= q /\ q \in Seqs(es)
      /\ P = {} => b = q
  BY <1>1, <1>2, DurableIs DEF Continues, UpToDate
<1>. HIDE DEF P
<1>4. \A x \in Seqs(es) : x <= q /\ b < x
  BY <1>3 DEF Seqs, P
<1>5. CASE P = {}
  <2>1. Seqs(es) = {}
    BY <1>5 DEF Seqs, P
  <2>. QED BY <1>3, <1>5, <2>1 DEF Ends
<1>6. CASE P # {}
  <2>1. PICK k \in P : TRUE
    BY <1>6
  <2>2. q \in Seqs(es) /\ b < q
    BY <1>3, <1>4, <2>1
  <2>. QED BY <1>4, <2>2 DEF Ends
<1>. QED BY <1>5, <1>6

\* Where a sequence and what is appended to it meet.
LEMMA JoinIs ==
    ASSUME NEW F, NEW s \in Seq(F), NEW d \in Seq(F)
    PROVE  /\ DOMAIN s \subseteq DOMAIN (s \o d)
           /\ \A k \in DOMAIN s : (s \o d)[k] = s[k]
           /\ \A k \in DOMAIN (s \o d) : k \notin DOMAIN s =>
                 /\ k - Len(s) \in DOMAIN d /\ (s \o d)[k] = d[k - Len(s)]
                 /\ \A j \in DOMAIN s : j < k
           /\ \A k \in DOMAIN (s \o d) : k \in Nat
<1>. DEFINE w == s \o d
<1>1. /\ Len(s) \in Nat /\ DOMAIN s = 1 .. Len(s) /\ Len(d) \in Nat /\ DOMAIN d = 1 .. Len(d)
      /\ DOMAIN w = 1 .. Len(s) + Len(d)
      /\ \A k \in 1 .. Len(s) + Len(d) : w[k] = IF k <= Len(s) THEN s[k] ELSE d[k - Len(s)]
  OBVIOUS
<1>. HIDE DEF w
<1>2. \A k \in DOMAIN s : k \in DOMAIN w /\ w[k] = s[k]
  BY <1>1
<1>3. \A k \in DOMAIN w : k \notin DOMAIN s =>
         k - Len(s) \in DOMAIN d /\ w[k] = d[k - Len(s)] /\ \A j \in DOMAIN s : j < k
  BY <1>1
<1>4. \A k \in DOMAIN w : k \in Nat
  BY <1>1
<1>. QED BY <1>2, <1>3, <1>4 DEF w

\* Deltas of the newest version come after frames that end with it.
LEMMA TextJoins ==
    ASSUME NEW s \in Seq(Frames), NEW d \in Seq(Frames), NEW b, NEW l, NEW q \in Nat,
           Text(s, b, l), Ends(s, b, q), \A x \in {b} \cup Seqs(s) : x \in Nat,
           \A k \in DOMAIN d : d[k].kind = "delta" /\ d[k].ver = Newest(l, d[k].item, 1, q)
    PROVE  Text(s \o d, b, l)
<1>. DEFINE w == s \o d
<1>1. /\ \A k \in DOMAIN s : k \in DOMAIN w /\ w[k] = s[k]
      /\ \A k \in DOMAIN w : k \notin DOMAIN s =>
            \E j \in DOMAIN d : w[k] = d[j] /\ \A i \in DOMAIN s : i < k
  <2>1. \A k \in DOMAIN w : k \notin DOMAIN s =>
            k - Len(s) \in DOMAIN d /\ w[k] = d[k - Len(s)] /\ \A i \in DOMAIN s : i < k
    BY JoinIs
  <2>. QED BY <2>1, JoinIs
<1>. HIDE DEF w
<1>2. Places(w, "durable") = Places(s, "durable")
  BY <1>1 DEF Places
<1>3. \A k \in Places(s, "durable") : w[k] = s[k]
  BY <1>1 DEF Places
<1>4. \A k : Ranks(w, b, k) = Ranks(s, b, k)
  BY <1>2, <1>3 DEF Ranks
<1>5. SUFFICES ASSUME NEW k \in Places(w, "delta"), NEW r \in Ranks(w, b, k),
                      \A x \in Ranks(w, b, k) : x <= r
               PROVE  w[k].ver = Newest(l, w[k].item, 1, r)
  BY DEF Text, w
<1>6. CASE k \in DOMAIN s
  <2>1. k \in Places(s, "delta") /\ w[k] = s[k]
    BY <1>1, <1>5, <1>6 DEF Places
  <2>. QED BY <1>4, <1>5, <2>1 DEF Text
<1>7. CASE k \notin DOMAIN s
  <2>1. k \in DOMAIN w
    BY <1>5 DEF Places
  <2>2. PICK j \in DOMAIN d : w[k] = d[j] /\ \A i \in DOMAIN s : i < k
    BY <1>1, <1>7, <2>1
  <2>3. Ranks(w, b, k) = {b} \cup Seqs(s)
    BY <1>2, <1>3, <2>2 DEF Ranks, Seqs, Places
  <2>4. r \in Nat /\ r <= q /\ q <= r
    BY <1>5, <2>3 DEF Ends
  <2>5. r = q
    BY <2>4
  <2>. QED BY <2>2, <2>5
<1>. QED BY <1>6, <1>7

\* An event at the end changes nothing for the text before it.
LEMMA TextBeforeEvent ==
    ASSUME NEW s \in Seq(Frames), NEW e, NEW b, NEW l, Text(s, b, l), e.kind = "durable"
    PROVE  Text(Append(s, e), b, l)
<1>. DEFINE w == Append(s, e)
<1>1. PICK h \in Nat : /\ h = Len(s) /\ DOMAIN s = 1 .. h /\ DOMAIN w = 1 .. h + 1
                       /\ \A k \in 1 .. h : w[k] = s[k]
                       /\ w[h + 1] = e
  OBVIOUS
<1>. HIDE DEF w
<1>2. Places(w, "delta") = Places(s, "delta") /\ \A k \in Places(s, "delta") : w[k] = s[k]
  <2>1. \A k \in 1 .. h + 1 : k \in 1 .. h \/ k = h + 1
    OBVIOUS
  <2>2. \A k \in 1 .. h : k \in 1 .. h + 1
    OBVIOUS
  <2>. QED BY <1>1, <2>1, <2>2 DEF Places
<1>3. \A k \in 1 .. h : Ranks(w, b, k) = Ranks(s, b, k)
  <2>. SUFFICES ASSUME NEW k \in 1 .. h PROVE Ranks(w, b, k) = Ranks(s, b, k)
    OBVIOUS
  <2>1. \A j \in 1 .. h + 1 : j < k => j \in 1 .. h
    OBVIOUS
  <2>2. \A j \in 1 .. h : j \in 1 .. h + 1
    OBVIOUS
  <2>3. {j \in Places(w, "durable") : j < k} = {j \in Places(s, "durable") : j < k}
    BY <1>1, <2>1, <2>2 DEF Places
  <2>4. \A j \in {j \in Places(s, "durable") : j < k} : w[j] = s[j]
    BY <1>1 DEF Places
  <2>. QED BY <2>3, <2>4 DEF Ranks
<1>4. Text(w, b, l)
  BY <1>1, <1>2, <1>3 DEF Text, Places
<1>. QED BY <1>4 DEF w

\* The first frame is taken.
LEMMA TextAfterFirst ==
    ASSUME NEW s \in Seq(Frames), s # <<>>, NEW b, NEW c, NEW l, Text(s, b, l),
           b \in Nat, c \in Nat, \A x \in Seqs(s) : x \in Nat,
           \/ c = b /\ s[1].kind # "durable"
           \/ /\ s[1].kind = "durable" /\ c = s[1].at.seq /\ b <= c
    PROVE  Text(Tail(s), c, l)
<1>. DEFINE w == Tail(s)
<1>1. PICK h \in Nat : /\ h >= 1 /\ DOMAIN s = 1 .. h /\ DOMAIN w = 1 .. h - 1
                       /\ \A k \in 1 .. h - 1 : w[k] = s[k + 1]
  <2>1. PICK h \in Nat : h = Len(s) /\ h >= 1 /\ DOMAIN s = 1 .. h
    OBVIOUS
  <2>2. DOMAIN w = 1 .. h - 1 /\ \A k \in 1 .. h - 1 : w[k] = s[k + 1]
    BY <2>1
  <2>. HIDE DEF w
  <2>. QED BY <2>1, <2>2
<1>. HIDE DEF w
<1>2. SUFFICES ASSUME NEW k \in Places(w, "delta"), NEW r \in Ranks(w, c, k),
                      \A x \in Ranks(w, c, k) : x <= r
               PROVE  w[k].ver = Newest(l, w[k].item, 1, r)
  BY DEF Text, w
<1>3. k \in 1 .. h - 1 /\ k + 1 \in Places(s, "delta") /\ w[k] = s[k + 1]
  <2>1. k \in 1 .. h - 1 /\ w[k].kind = "delta"
    BY <1>1, <1>2 DEF Places
  <2>2. k + 1 \in 1 .. h
    BY <2>1
  <2>. QED BY <1>1, <2>1, <2>2 DEF Places
<1>4. Ranks(s, b, k + 1) \cup {c} = Ranks(w, c, k) \cup {b}
  <2>1. ASSUME NEW j \in Places(w, "durable"), j < k
        PROVE  j + 1 \in Places(s, "durable") /\ j + 1 < k + 1 /\ s[j + 1] = w[j]
    <3>1. j \in 1 .. h - 1
      BY <1>1 DEF Places
    <3>2. j + 1 \in 1 .. h /\ j + 1 < k + 1
      BY <1>3, <2>1, <3>1
    <3>. QED BY <1>1, <3>1, <3>2 DEF Places
  <2>2. ASSUME NEW j \in Places(s, "durable"), j < k + 1, j # 1
        PROVE  \E i \in Places(w, "durable") : i < k /\ w[i] = s[j]
    <3>1. j \in 1 .. h
      BY <1>1 DEF Places
    <3>2. PICK i \in 1 .. h - 1 : j = i + 1 /\ i < k
      <4>1. j - 1 \in 1 .. h - 1 /\ j = (j - 1) + 1 /\ j - 1 < k
        BY <1>3, <2>2, <3>1
      <4>. QED BY <4>1
    <3>3. w[i] = s[j] /\ i \in DOMAIN w
      BY <1>1, <3>2
    <3>. QED BY <3>2, <3>3 DEF Places
  <2>3. 1 \in Places(s, "durable") => s[1].at.seq = c
    BY DEF Places
  <2>4. s[1].kind = "durable" => 1 \in Places(s, "durable") /\ 1 < k + 1
    <3>1. 1 \in 1 .. h /\ 1 < k + 1
      BY <1>1, <1>3
    <3>. QED BY <1>1, <3>1 DEF Places
  <2>5. c = b \/ c \in Ranks(s, b, k + 1)
    BY <2>4 DEF Ranks
  <2>6. \A x \in Ranks(w, c, k) : x \in Ranks(s, b, k + 1) \cup {c}
    BY <2>1 DEF Ranks
  <2>7. \A x \in Ranks(s, b, k + 1) : x \in Ranks(w, c, k) \cup {b}
    <3>. SUFFICES ASSUME NEW x \in Ranks(s, b, k + 1) PROVE x \in Ranks(w, c, k) \cup {b}
      OBVIOUS
    <3>1. CASE x = b
      BY <3>1
    <3>2. CASE \E j \in Places(s, "durable") : j < k + 1 /\ x = s[j].at.seq
      <4>1. PICK j \in Places(s, "durable") : j < k + 1 /\ x = s[j].at.seq
        BY <3>2
      <4>2. CASE j = 1
        BY <2>3, <4>1, <4>2 DEF Ranks
      <4>3. CASE j # 1
        BY <2>2, <4>1, <4>3 DEF Ranks
      <4>. QED BY <4>2, <4>3
    <3>. QED BY <3>1, <3>2 DEF Ranks
  <2>8. c \in Ranks(w, c, k) /\ b \in Ranks(s, b, k + 1)
    BY DEF Ranks
  <2>. QED BY <2>6, <2>7, <2>8
<1>5. c \in Ranks(w, c, k)
  BY DEF Ranks
<1>6. c = b \/ (b <= c /\ c \in Ranks(s, b, k + 1))
  <2>1. 1 \in 1 .. h /\ 1 < k + 1
    BY <1>1, <1>3
  <2>2. s[1].kind = "durable" => 1 \in Places(s, "durable")
    BY <1>1, <2>1 DEF Places
  <2>. QED BY <2>1, <2>2 DEF Ranks
<1>7. CASE c = b
  <2>1. Ranks(s, b, k + 1) = Ranks(w, c, k)
    BY <1>4, <1>5, <1>7 DEF Ranks
  <2>. QED BY <1>2, <1>3, <2>1 DEF Text
<1>8. CASE c # b
  <2>1. r \in Ranks(s, b, k + 1)
    BY <1>2, <1>4, <1>6, <1>8
  <2>2. r \in Nat
    BY <2>1 DEF Ranks, Seqs
  <2>3. b <= r
    BY <1>2, <1>5, <1>6, <1>8, <2>2
  <2>4. \A x \in Ranks(s, b, k + 1) : x <= r
    BY <1>2, <1>4, <2>3
  <2>. QED BY <1>2, <1>3, <2>1, <2>4 DEF Text
<1>. QED BY <1>7, <1>8

\* The events of a stretch of the journal are a run.
LEMMA EventsFollow ==
    ASSUME NEW l, NEW p, NEW f \in Nat, NEW t \in Nat, 1 <= f, f <= t + 1,
           NEW c, c.seq \in Nat, c.epoch = p => c.seq + 1 = f
    PROVE  /\ DOMAIN Events(l, p, f, t) = 1 .. t + 1 - f
           /\ Places(Events(l, p, f, t), "durable") = DOMAIN Events(l, p, f, t)
           /\ Places(Events(l, p, f, t), "reset") = {}
           /\ Places(Events(l, p, f, t), "delta") = {}
           /\ Sound(Events(l, p, f, t), c, TRUE, At(p, t))
<1>. DEFINE w == Events(l, p, f, t)
            h == t + 1 - f
<1>0. h \in Nat
  OBVIOUS
<1>1. /\ DOMAIN w = 1 .. h
      /\ \A k \in 1 .. h : w[k] = Durable(p, f + k - 1, l[f + k - 1])
  BY DEF Events
<1>. HIDE DEF w
<1>2. /\ Places(w, "durable") = 1 .. h /\ Places(w, "reset") = {} /\ Places(w, "delta") = {}
      /\ \A k \in 1 .. h : w[k].at.epoch = p /\ w[k].at.seq = f + k - 1
  BY <1>1, DurableIs DEF Places
<1>4. ASSUME NEW n \in f .. t
      PROVE  n \in Seqs(w)
  <2>1. n - f + 1 \in 1 .. h /\ f + (n - f + 1) - 1 = n
    BY <1>0
  <2>. QED BY <1>2, <2>1 DEF Seqs
<1>5. From(w, c) = c
  BY <1>2 DEF From
<1>6. At(p, t).epoch = p /\ At(p, t).seq = t
  BY DEF At
<1>7. Contiguous(w)
  <2>1. ASSUME NEW j \in 1 .. h, NEW k \in 1 .. h
        PROVE  /\ w[j].at.epoch = w[k].at.epoch
               /\ j < k => w[j].at.seq < w[k].at.seq
               /\ w[j].at.seq .. w[k].at.seq \subseteq Seqs(w)
    <3>1. w[j].at.seq .. w[k].at.seq \subseteq f .. t
      BY <1>0, <1>2
    <3>. QED BY <1>0, <1>2, <1>4, <3>1
  <2>. QED BY <1>2, <2>1 DEF Contiguous
<1>8. Continues(w, c)
  <2>1. ASSUME NEW k \in 1 .. h, c.epoch = p
        PROVE  c.seq < w[k].at.seq /\ c.seq + 1 \in Seqs(w)
    <3>1. f \in f .. t /\ c.seq + 1 = f /\ c.seq \in Nat
      BY <1>0, <2>1
    <3>. QED BY <1>0, <1>2, <1>4, <3>1
  <2>. QED BY <1>2, <2>1 DEF Continues
<1>9. UpToDate(w, c, At(p, t))
  <2>1. ASSUME NEW k \in 1 .. h
        PROVE  w[k].at.epoch = p /\ w[k].at.seq <= t /\ t \in Seqs(w)
    <3>1. t \in f .. t
      BY <1>0
    <3>. QED BY <1>0, <1>2, <1>4, <3>1
  <2>2. c.epoch = p /\ 1 .. h = {} => c.seq = t
    <3>1. 1 .. h = {} => f = t + 1
      BY <1>0
    <3>. QED BY <1>0, <3>1
  <2>. QED BY <1>2, <1>6, <2>1, <2>2 DEF UpToDate
<1>10. Sound(w, c, TRUE, At(p, t))
  BY <1>5, <1>7, <1>8, <1>9 DEF Sound
<1>. QED BY <1>1, <1>2, <1>10 DEF w

LEMMA EventsRun ==
    ASSUME NEW l \in Seq(Row), NEW p, NEW f \in Nat, NEW t \in Nat, 1 <= f, f <= t + 1,
           t <= Len(l)
    PROVE  Run(Events(l, p, f, t), l, p, f - 1, t)
<1>. DEFINE w == Events(l, p, f, t)
<1>1. PICK c : c = At(p, f - 1) /\ c.seq \in Nat /\ c.seq + 1 = f
  BY DurableIs
<1>2. Sound(Events(l, p, f, t), c, TRUE, At(p, t))
  BY <1>1, EventsFollow
<1>3. /\ DOMAIN w = 1 .. t + 1 - f
      /\ \A k \in 1 .. t + 1 - f : w[k] = Durable(p, f + k - 1, l[f + k - 1])
  BY DEF Events
<1>4. Sound(w, At(p, f - 1), TRUE, At(p, t))
  BY <1>1, <1>2
<1>. HIDE DEF w
<1>5. Places(w, "reset") = {} /\ Places(w, "delta") = {}
  BY <1>3, DurableIs DEF Places
<1>6. ASSUME NEW k \in 1 .. t + 1 - f
      PROVE  w[k].at.seq \in 1 .. Len(l) /\ w[k] = Durable(p, w[k].at.seq, l[w[k].at.seq])
  <2>1. w[k] = Durable(p, f + k - 1, l[f + k - 1])
    BY <1>3
  <2>2. w[k].at.seq = f + k - 1
    BY <2>1, DurableIs
  <2>. QED BY <2>1, <2>2
<1>7. Genuine(w, l, p)
  <2>1. \A k \in Places(w, "durable") : k \in 1 .. t + 1 - f
    BY <1>3 DEF Places
  <2>. QED BY <1>6, <2>1 DEF Genuine
<1>8. Text(w, f - 1, l)
  BY <1>5 DEF Text
<1>9. Run(w, l, p, f - 1, t)
  BY <1>4, <1>5, <1>7, <1>8 DEF Run
<1>. QED BY <1>9 DEF w

\* The journal m of epoch o is l of epoch p with what came later; an epoch
\* that has no rows may be followed by another.
Longer(l, p, m, o) ==
    /\ Len(l) <= Len(m) /\ \A k \in 1 .. Len(l) : m[k] = l[k]
    /\ o = p \/ Len(l) = 0

LEMMA GenuineStays ==
    ASSUME NEW l \in Seq(Row), NEW m \in Seq(Row), NEW p, NEW o, Longer(l, p, m, o),
           NEW es, Genuine(es, l, p)
    PROVE  Genuine(es, m, o) /\ (o = p \/ Places(es, "durable") = {})
<1>1. Len(l) \in Nat /\ Len(m) \in Nat /\ 1 .. Len(l) \subseteq 1 .. Len(m)
  BY DEF Longer
<1>2. CASE o = p
  BY <1>1, <1>2 DEF Longer, Genuine
<1>3. CASE o # p
  <2>1. 1 .. Len(l) = {}
    BY <1>1, <1>3 DEF Longer
  <2>. QED BY <2>1 DEF Genuine
<1>. QED BY <1>2, <1>3

LEMMA NewestLonger ==
    ASSUME NEW l \in Seq(Row), NEW m \in Seq(Row), NEW p, NEW o, Longer(l, p, m, o),
           NEW i, NEW f \in Nat, NEW t \in Nat, t <= Len(l)
    PROVE  Newest(m, i, f, t) = Newest(l, i, f, t)
<1>1. Len(l) \in Nat /\ Len(m) \in Nat /\ DOMAIN l = 1 .. Len(l) /\ DOMAIN m = 1 .. Len(m)
  OBVIOUS
<1>. QED BY <1>1, NewestStays DEF Longer

LEMMA TextStays ==
    ASSUME NEW l \in Seq(Row), NEW m \in Seq(Row), NEW p, NEW o, Longer(l, p, m, o),
           NEW es, Genuine(es, l, p), NEW b \in Nat, b <= Len(l), Text(es, b, l)
    PROVE  Text(es, b, m)
<1>1. \A k : \A r \in Ranks(es, b, k) : r \in Nat /\ r <= Len(l)
  BY DEF Ranks, Genuine
<1>2. \A k : \A r \in Ranks(es, b, k) : \A i : Newest(m, i, 1, r) = Newest(l, i, 1, r)
  BY <1>1, NewestLonger
<1>. QED BY <1>2 DEF Text

LEMMA SoundElsewhere ==
    ASSUME NEW es, NEW o, NEW served, Places(es, "durable") = {}
    PROVE  Sound(es, At(o, 0), served, At(o, 0))
<1>1. From(es, At(o, 0)).seq = 0 /\ At(o, 0).seq = 0
  BY DEF From, Null, At
<1>2. Contiguous(es) /\ Continues(es, From(es, At(o, 0)))
  BY DEF Contiguous, Continues
<1>3. UpToDate(es, From(es, At(o, 0)), At(o, 0))
  BY <1>1 DEF UpToDate
<1>. QED BY <1>2, <1>3 DEF Sound

LEMMA RunStays ==
    ASSUME NEW l \in Seq(Row), NEW m \in Seq(Row), NEW p, NEW o, Longer(l, p, m, o),
           NEW es, NEW b \in Nat, NEW q \in Nat, b <= Len(l), q <= Len(l), Run(es, l, p, b, q)
    PROVE  Run(es, m, o, b, q)
<1>1. /\ Places(es, "reset") = {} /\ Genuine(es, m, o) /\ Text(es, b, m)
      /\ o = p \/ Places(es, "durable") = {}
  BY GenuineStays, TextStays DEF Run
<1>2. Sound(es, At(o, b), TRUE, At(o, q))
  <2>1. CASE o = p
    BY <2>1 DEF Run
  <2>2. CASE o # p
    <3>1. b = q
      BY <2>2 DEF Longer
    <3>2. At(o, b).epoch = o /\ At(o, b).seq = b /\ At(o, q).epoch = o /\ At(o, q).seq = q
      BY DEF At
    <3>3. Places(es, "durable") = {} /\ From(es, At(o, b)) = At(o, b)
      BY <1>1, <2>2 DEF From
    <3>. QED BY <3>1, <3>2, <3>3 DEF Sound, Contiguous, Continues, UpToDate
  <2>. QED BY <2>1, <2>2
<1>. QED BY <1>1, <1>2 DEF Run

LEMMA ShowingStays ==
    ASSUME minted \in Nat, NEW s \in Snapshots, NEW f \in Nat,
           NEW l \in Seq(Row), NEW m \in Seq(Row), NEW p, NEW o, Longer(l, p, m, o),
           Showing(s, f, l, p)
    PROVE  Showing(s, f, m, o)
<1>1. Upto(s, f) \in Nat /\ Upto(s, f) <= Len(l) /\ Len(l) \in Nat /\ Len(m) \in Nat
  BY UptoIs DEF Showing
<1>2. /\ \A i : Newest(m, i, f, Upto(s, f)) = Newest(l, i, f, Upto(s, f))
      /\ \A i : Newest(m, i, 1, Upto(s, f)) = Newest(l, i, 1, Upto(s, f))
  BY <1>1, NewestLonger
<1>3. s.cursor # Null => o = p
  <2>. SUFFICES ASSUME s.cursor # Null, o # p PROVE FALSE
    OBVIOUS
  <2>1. s.cursor.seq \in Nat /\ s.cursor.seq # 0 /\ Upto(s, f) = s.cursor.seq
    BY DEF Showing, Upto, Snapshots, Cursors
  <2>. QED BY <1>1, <2>1 DEF Longer
<1>4. Upto(s, f) <= Len(m)
  BY <1>1 DEF Longer
<1>. QED BY <1>2, <1>3, <1>4 DEF Showing

\* A run is continued by text or by the next event.
LEMMA RunText ==
    ASSUME minted \in Nat, NEW es \in Seq(Frames), NEW e \in Frames, NEW l \in Seq(Row), NEW p,
           NEW b \in Nat, NEW q \in Nat, Run(es, l, p, b, q),
           e.kind = "delta", e.ver = Newest(l, e.item, 1, q)
    PROVE  Run(Append(es, e), l, p, b, q)
<1>1. PICK d \in Seq({e}) : d = <<e>> /\ DOMAIN d = {1} /\ d[1] = e
  <2>1. <<e>> \in Seq({e}) /\ DOMAIN <<e>> = {1} /\ <<e>>[1] = e
    OBVIOUS
  <2>. QED BY <2>1
<1>2. d \in Seq(Frames) /\ Append(es, e) = es \o d
  BY <1>1
<1>3. Sound(es \o d, At(p, b), TRUE, At(p, q))
  <2>1. {e} \in SUBSET Frames /\ \A x \in {e} : x.kind = "delta"
    OBVIOUS
  <2>. QED BY <2>1, DeltasPass DEF Run
<1>. DEFINE w == es \o d
<1>4. /\ \A k \in DOMAIN es : k \in DOMAIN w /\ w[k] = es[k]
      /\ \A k \in DOMAIN w : k \notin DOMAIN es => w[k] = e
  <2>1. \A k \in DOMAIN w : k \notin DOMAIN es => k - Len(es) \in DOMAIN d /\ w[k] = d[k - Len(es)]
    BY <1>2, JoinIs
  <2>2. \A k \in DOMAIN es : k \in DOMAIN w /\ w[k] = es[k]
    BY <1>2, JoinIs
  <2>. HIDE DEF w
  <2>. QED BY <1>1, <2>1, <2>2
<1>. HIDE DEF w
<1>5. /\ Places(w, "durable") = Places(es, "durable") /\ Places(w, "reset") = Places(es, "reset")
      /\ \A k \in Places(es, "durable") : w[k] = es[k]
  BY <1>4 DEF Places
<1>6. Genuine(w, l, p) /\ Places(w, "reset") = {}
  BY <1>5 DEF Run, Genuine
<1>7. Text(w, b, l)
  <2>1. Ends(es, b, q)
    BY SoundEnds DEF Run
  <2>2. \A x \in {b} \cup Seqs(es) : x \in Nat
    BY DEF Run, Genuine, Seqs
  <2>3. \A k \in DOMAIN d : d[k].kind = "delta" /\ d[k].ver = Newest(l, d[k].item, 1, q)
    BY <1>1
  <2>4. Text(es, b, l)
    BY DEF Run
  <2>. QED BY <1>2, <2>1, <2>2, <2>3, <2>4, TextJoins DEF w
<1>. QED BY <1>2, <1>3, <1>6, <1>7 DEF Run, w

LEMMA RunEvent ==
    ASSUME minted \in Nat, NEW es \in Seq(Frames), NEW e \in Frames, NEW l \in Seq(Row),
           NEW p \in Nat, p # 0, NEW b \in Nat, NEW q \in Nat, Run(es, l, p, b, q),
           q + 1 <= Len(l), e = Durable(p, q + 1, l[q + 1])
    PROVE  Run(Append(es, e), l, p, b, q + 1)
<1>. DEFINE w == Append(es, e)
<1>1. e.kind = "durable" /\ e.at = At(p, q + 1) /\ e.at.seq = q + 1
  BY DurableIs
<1>2. Sound(w, At(p, b), TRUE, At(p, q + 1))
  <2>1. PICK c : c = At(p, b) /\ c.seq \in Nat
    BY DurableIs
  <2>2. Sound(es, c, TRUE, At(p, q))
    BY <2>1 DEF Run
  <2>. QED BY <1>1, <2>1, <2>2, NextEventFollows
<1>3. Text(w, b, l)
  BY <1>1, TextBeforeEvent DEF Run
<1>4. PICK h \in Nat : /\ h = Len(es) /\ DOMAIN es = 1 .. h /\ DOMAIN w = 1 .. h + 1
                       /\ \A k \in 1 .. h : w[k] = es[k]
                       /\ w[h + 1] = e
  <2>1. PICK h \in Nat : h = Len(es) /\ DOMAIN es = 1 .. h
    OBVIOUS
  <2>2. DOMAIN w = 1 .. h + 1 /\ w[h + 1] = e /\ \A k \in 1 .. h : w[k] = es[k]
    BY <2>1
  <2>. HIDE DEF w
  <2>. QED BY <2>1, <2>2
<1>5. \A k \in 1 .. h + 1 : k \in 1 .. h \/ k = h + 1
  OBVIOUS
<1>. HIDE DEF w
<1>6. Places(w, "reset") = {} /\ Genuine(w, l, p)
  <2>1. \A k \in 1 .. h : es[k].kind # "reset" /\ (es[k].kind = "durable" => k \in Places(es, "durable"))
    BY <1>4 DEF Run, Places
  <2>2. q + 1 \in 1 .. Len(l)
    OBVIOUS
  <2>3. Places(w, "reset") = {}
    BY <1>1, <1>4, <1>5, <2>1 DEF Places
  <2>4. ASSUME NEW k \in Places(w, "durable")
        PROVE  w[k].at.seq \in 1 .. Len(l) /\ w[k] = Durable(p, w[k].at.seq, l[w[k].at.seq])
    <3>1. k \in 1 .. h \/ k = h + 1
      BY <1>4, <1>5 DEF Places
    <3>2. CASE k \in 1 .. h
      <4>1. k \in Places(es, "durable") /\ w[k] = es[k]
        BY <1>4, <2>1, <3>2 DEF Places
      <4>. QED BY <4>1 DEF Run, Genuine
    <3>3. CASE k = h + 1
      <4>1. w[k] = e
        BY <1>4, <3>3
      <4>. QED BY <1>1, <2>2, <4>1
    <3>. QED BY <3>1, <3>2, <3>3
  <2>. QED BY <2>3, <2>4 DEF Genuine
<1>7. Run(w, l, p, b, q + 1)
  BY <1>2, <1>3, <1>6 DEF Run
<1>. QED BY <1>7 DEF w

-----------------------------------------------------------------------------
(* What is on its way to the pane. *)

\* A page of older rows: f .. t, and the cursor of the page before it.
Stretch(reply, f, t, l, p) ==
    /\ 1 <= f /\ f <= t /\ t <= Len(l)
    /\ reply.rows = Events(l, p, f, t)
    /\ reply.next = IF f > 1 THEN At(p, f) ELSE Null

\* Frames the pane will read after row b: only the first may be a reset.
Arriving(w, served, l, p, b) ==
    /\ \A k \in Places(w, "reset") : k = 1
    /\ Genuine(w, l, p)
    /\ Places(w, "reset") = {} => Text(w, b, l)
    /\ Sound(w, At(p, b), served, At(p, Len(l)))

LEMMA StretchStays ==
    ASSUME NEW l \in Seq(Row), NEW m \in Seq(Row), NEW p, NEW o, Longer(l, p, m, o),
           NEW reply, NEW f \in Nat, NEW t \in Nat, Stretch(reply, f, t, l, p)
    PROVE  Stretch(reply, f, t, m, o) /\ o = p
<1>1. Len(l) \in Nat /\ Len(m) \in Nat /\ Len(l) <= Len(m) /\ Len(l) # 0
  BY DEF Stretch, Longer
<1>2. o = p
  BY <1>1 DEF Longer
<1>3. \A k \in 1 .. t + 1 - f : m[f + k - 1] = l[f + k - 1]
  <2>. SUFFICES ASSUME NEW k \in 1 .. t + 1 - f PROVE m[f + k - 1] = l[f + k - 1]
    OBVIOUS
  <2>1. f + k - 1 \in 1 .. Len(l)
    BY <1>1 DEF Stretch
  <2>. QED BY <2>1 DEF Longer
<1>4. Events(m, p, f, t) = Events(l, p, f, t)
  BY <1>3 DEF Events
<1>. QED BY <1>1, <1>2, <1>4 DEF Stretch

LEMMA ArrivingStays ==
    ASSUME NEW l \in Seq(Row), NEW m \in Seq(Row), NEW p, NEW o, Longer(l, p, m, o),
           NEW w, NEW b \in Nat, b <= Len(l), NEW served \in BOOLEAN, NEW still \in BOOLEAN,
           Arriving(w, served, l, p, b), still => served /\ Len(m) = Len(l)
    PROVE  Arriving(w, still, m, o, b)
<1>1. /\ \A k \in Places(w, "reset") : k = 1
      /\ Genuine(w, l, p) /\ (Places(w, "reset") = {} => Text(w, b, l))
      /\ Sound(w, At(p, b), served, At(p, Len(l)))
  BY DEF Arriving
<1>2. Genuine(w, m, o) /\ (o = p \/ Places(w, "durable") = {})
  BY <1>1, GenuineStays
<1>3. Places(w, "reset") = {} => Text(w, b, m)
  BY <1>1, TextStays
<1>4. Sound(w, At(o, b), still, At(o, Len(m)))
  <2>1. CASE o = p
    <3>1. CASE still
      BY <1>1, <2>1, <3>1 DEF Sound
    <3>2. CASE ~still
      BY <1>1, <2>1, <3>2 DEF Sound
    <3>. QED BY <3>1, <3>2
  <2>2. CASE o # p
    <3>1. Places(w, "durable") = {} /\ b = 0 /\ Len(l) = 0
      BY <1>2, <2>2 DEF Longer
    <3>2. Sound(w, At(o, 0), TRUE, At(o, 0))
      BY <3>1, SoundElsewhere
    <3>3. CASE still
      BY <3>1, <3>2, <3>3 DEF Sound
    <3>4. CASE ~still
      BY <3>1, <3>2, <3>4 DEF Sound
    <3>. QED BY <3>3, <3>4
  <2>. QED BY <2>1, <2>2
<1>. QED BY <1>1, <1>2, <1>3, <1>4 DEF Arriving

LEMMA ArrivingText ==
    ASSUME minted \in Nat, NEW l \in Seq(Row), NEW p, NEW b \in Nat,
           NEW w \in Seq(Frames), NEW d \in Seq(Deltas), Arriving(w, TRUE, l, p, b),
           \A k \in DOMAIN d : d[k].ver = Newest(l, d[k].item, 1, Len(l))
    PROVE  Arriving(w \o d, TRUE, l, p, b)
<1>. DEFINE v == w \o d
<1>0. d \in Seq(Frames) /\ \A k \in DOMAIN d : d[k].kind = "delta"
  <2>1. Deltas \subseteq Frames /\ \A e \in Deltas : e.kind = "delta"
    BY Kinds
  <2>. QED BY <2>1
<1>1. /\ \A k \in Places(w, "reset") : k = 1
      /\ Genuine(w, l, p) /\ (Places(w, "reset") = {} => Text(w, b, l))
      /\ Sound(w, At(p, b), TRUE, At(p, Len(l)))
  BY DEF Arriving
<1>2. Sound(v, At(p, b), TRUE, At(p, Len(l)))
  <2>1. Deltas \in SUBSET Frames /\ \A e \in Deltas : e.kind = "delta"
    BY Kinds
  <2>. QED BY <1>1, <2>1, DeltasPass
<1>3. Places(w, "reset") = {} => Text(v, b, l)
  <2>. SUFFICES ASSUME Places(w, "reset") = {} PROVE Text(v, b, l)
    OBVIOUS
  <2>1. Ends(w, b, Len(l))
    <3>1. PICK q \in Nat : q = Len(l)
      OBVIOUS
    <3>. QED BY <1>1, <3>1, SoundEnds
  <2>2. \A x \in {b} \cup Seqs(w) : x \in Nat
    BY <1>1 DEF Genuine, Seqs
  <2>3. Len(l) \in Nat
    OBVIOUS
  <2>. QED BY <1>0, <1>1, <2>1, <2>2, <2>3, TextJoins
<1>4. /\ \A k \in DOMAIN w : k \in DOMAIN v /\ v[k] = w[k]
      /\ \A k \in DOMAIN v : k \notin DOMAIN w => v[k].kind = "delta"
  <2>1. \A k \in DOMAIN v : k \notin DOMAIN w => k - Len(w) \in DOMAIN d /\ v[k] = d[k - Len(w)]
    BY <1>0, JoinIs
  <2>2. \A k \in DOMAIN w : k \in DOMAIN v /\ v[k] = w[k]
    BY <1>0, JoinIs
  <2>. HIDE DEF v
  <2>. QED BY <1>0, <2>1, <2>2
<1>. HIDE DEF v
<1>5. /\ Places(v, "reset") = Places(w, "reset") /\ Places(v, "durable") = Places(w, "durable")
      /\ \A k \in Places(w, "durable") : v[k] = w[k]
  BY <1>4 DEF Places
<1>6. Genuine(v, l, p)
  BY <1>1, <1>5 DEF Genuine
<1>7. Arriving(v, TRUE, l, p, b)
  BY <1>1, <1>2, <1>3, <1>5, <1>6 DEF Arriving
<1>. QED BY <1>7 DEF v

LEMMA ArrivingEvent ==
    ASSUME minted \in Nat, NEW l \in Seq(Row), NEW m \in Seq(Row), NEW p, NEW o \in Nat, o # 0,
           Longer(l, p, m, o), Len(m) = Len(l) + 1,
           NEW w \in Seq(Frames), NEW b \in Nat, b <= Len(l),
           Arriving(w, TRUE, l, p, b),
           NEW e, e = Durable(o, Len(m), m[Len(m)])
    PROVE  Arriving(Append(w, e), TRUE, m, o, b)
<1>. DEFINE v == Append(w, e)
<1>1. PICK n \in Nat : n = Len(l) /\ Len(m) = n + 1
  OBVIOUS
<1>2. e.kind = "durable" /\ e.at = At(o, n + 1) /\ e.at.seq = n + 1
  BY <1>1, DurableIs
<1>3. /\ \A k \in Places(w, "reset") : k = 1
      /\ Genuine(w, l, p) /\ (Places(w, "reset") = {} => Text(w, b, l))
      /\ Sound(w, At(p, b), TRUE, At(p, n))
  BY <1>1 DEF Arriving
<1>4. Genuine(w, m, o) /\ (o = p \/ Places(w, "durable") = {})
  BY <1>3, GenuineStays
<1>5. Places(w, "reset") = {} => Text(w, b, m)
  BY <1>3, TextStays
<1>6. Sound(w, At(o, b), TRUE, At(o, n))
  <2>1. CASE o = p
    BY <1>3, <2>1
  <2>2. CASE o # p
    <3>1. Places(w, "durable") = {} /\ b = 0 /\ n = 0
      BY <1>1, <1>4, <2>2 DEF Longer
    <3>. QED BY <3>1, SoundElsewhere
  <2>. QED BY <2>1, <2>2
<1>7. Sound(v, At(o, b), TRUE, At(o, n + 1))
  <2>1. PICK c : c = At(o, b) /\ c.seq \in Nat
    BY DurableIs
  <2>2. Sound(w, c, TRUE, At(o, n))
    BY <1>6, <2>1
  <2>. QED BY <1>2, <2>1, <2>2, NextEventFollows
<1>8. Places(w, "reset") = {} => Text(v, b, m)
  BY <1>2, <1>5, TextBeforeEvent
<1>9. PICK h \in Nat : /\ DOMAIN w = 1 .. h /\ DOMAIN v = 1 .. h + 1
                       /\ \A k \in 1 .. h : v[k] = w[k]
                       /\ v[h + 1] = e
  <2>1. PICK h \in Nat : h = Len(w) /\ DOMAIN w = 1 .. h
    OBVIOUS
  <2>2. DOMAIN v = 1 .. h + 1 /\ v[h + 1] = e /\ \A k \in 1 .. h : v[k] = w[k]
    BY <2>1
  <2>. HIDE DEF v
  <2>. QED BY <2>1, <2>2
<1>. HIDE DEF v
<1>10. \A k \in 1 .. h + 1 : k \in 1 .. h \/ k = h + 1
  OBVIOUS
<1>11. Places(v, "reset") = Places(w, "reset")
  BY <1>2, <1>9, <1>10 DEF Places
<1>12. Genuine(v, m, o)
  <2>1. ASSUME NEW k \in Places(v, "durable")
        PROVE  v[k].at.seq \in 1 .. Len(m) /\ v[k] = Durable(o, v[k].at.seq, m[v[k].at.seq])
    <3>1. k \in 1 .. h \/ k = h + 1
      BY <1>9, <1>10 DEF Places
    <3>2. CASE k \in 1 .. h
      <4>1. k \in Places(w, "durable") /\ v[k] = w[k]
        BY <1>9, <3>2 DEF Places
      <4>. QED BY <1>4, <4>1 DEF Genuine
    <3>3. CASE k = h + 1
      <4>1. v[k] = e /\ n + 1 \in 1 .. Len(m)
        BY <1>1, <1>9, <3>3
      <4>. QED BY <1>1, <1>2, <4>1
    <3>. QED BY <3>1, <3>2, <3>3
  <2>. QED BY <2>1 DEF Genuine
<1>13. Arriving(v, TRUE, m, o, b)
  BY <1>1, <1>3, <1>7, <1>8, <1>11, <1>12 DEF Arriving
<1>. QED BY <1>13 DEF v

-----------------------------------------------------------------------------
(* What holds of a pane that follows. *)

OnlyEvents(reply) == \A k \in DOMAIN reply.rows : reply.rows[k].kind = "durable"

\* A pane that is not ready has nothing; one that mounts has met an epoch.
Unread ==
    /\ mode \in {"away", "opening", "paging", "seeding", "ready", "stuck"}
    /\ calm \in BOOLEAN /\ first \in Nat \ {0}
    /\ mode = "away" => calm
    /\ mode # "away" => epoch # 0
    /\ mode # "ready" =>
          /\ cur = 0 /\ batch = <<>> /\ snap = Empty
          /\ rendered = "none" /\ resync = "idle"
          /\ nextBefore = Null /\ older = NoPage
    /\ OnlyEvents(page) /\ OnlyEvents(answer) /\ OnlyEvents(older)

\* What the pane is about to be seeded with.
Seeding ==
    calm /\ mode \in {"paging", "seeding"} =>
        /\ asked.epoch # 0 /\ asked.seq <= LastSeq
        /\ mode = "seeding" =>
              \/ page.rows = <<>> /\ page.next = Null
              \/ page.ok /\ \E f, t \in Nat : Stretch(page, f, t, rows, epoch)

\* What is held was published after the newest event.
Pending == \A k \in DOMAIN held : held[k].ver = Newest(rows, held[k].item, 1, LastSeq)

\* The older pages end before the first row.
Paging ==
    /\ nextBefore # Null =>
          nextBefore = At(epoch, first) /\ first > 1 /\ snap.cursor # Null
    /\ older # NoPage =>
          /\ nextBefore = Null /\ first > 1 /\ snap.cursor # Null
          /\ \/ older.rows = <<>> /\ older.next = At(epoch, first)
             \/ \E f \in Nat : Stretch(older, f, first - 1, rows, epoch)

\* The screen is a window of the journal; the batch continues it.
Settled ==
    /\ resync = "idle"
    /\ since.epoch # 0 /\ since.seq <= LastSeq
    /\ Showing(snap, first, rows, epoch)
    /\ Run(batch, rows, epoch, Upto(snap, first), since.seq)
    /\ Paging

Incoming ==
    cur # 0 /\ link[cur] = "up" => Arriving(wire[cur], cur \in reg, rows, epoch, since.seq)

Following == calm /\ mode = "ready" => Settled /\ Incoming

Shown == Typed /\ Unread /\ Seeding /\ Pending /\ Following

LEMMA NothingRuns ==
    ASSUME NEW l, NEW p, NEW b
    PROVE  Run(<<>>, l, p, b, b)
<1>1. \A kind : Places(<<>>, kind) = {}
  BY DEF Places
<1>2. At(p, b).seq = b
  BY DEF At
<1>. QED BY <1>1, <1>2 DEF Run, Genuine, Text, Sound, Contiguous, Continues, UpToDate, From

LEMMA NothingReduces == \A s : ReduceMany(s, <<>>) = s
<1>. TAKE s
<1>1. Len(<<>>) = 0
  OBVIOUS
<1>2. PICK a : a[0] = s /\ ReduceMany(s, <<>>) = a[Len(<<>>)]
  BY <1>1, Reduction
<1>. QED BY <1>1, <1>2

LEMMA EmptyShows ==
    ASSUME NEW l \in Seq(Row), NEW p, NEW f \in Nat, 1 <= f, f <= Len(l) + 1
    PROVE  Showing(Empty, f, l, p) /\ Upto(Empty, f) = f - 1
<1>1. /\ Empty.cursor = Null /\ Empty.reset = "none"
      /\ \A i \in Items : Empty.items[i] = 0 /\ Empty.live[i] = {}
  BY DEF Empty, Subjects
<1>2. Upto(Empty, f) = f - 1 /\ f - 1 \in Nat /\ Len(l) \in Nat
  BY <1>1 DEF Upto
<1>3. \A i : About(l, i, f, f - 1) = {}
  <2>1. \A k \in DOMAIN l : ~(f <= k /\ k <= f - 1)
    OBVIOUS
  <2>. QED BY <2>1 DEF About
<1>4. \A i : Newest(l, i, f, f - 1) = 0
  BY <1>3 DEF Newest
<1>. QED BY <1>1, <1>2, <1>4 DEF Showing

\* What a pane of a longer journal has read stays as it is.
LEMMA SettledStays ==
    ASSUME Typed, Settled, Longer(rows, epoch, rows', epoch'), rows' \in Seq(Row),
           UNCHANGED <<resync, since, snap, first, batch, nextBefore, older>>,
           first \in Nat
    PROVE  Settled'
<1>0. /\ minted \in Nat /\ rows \in Seq(Row) /\ snap \in Snapshots
      /\ since.seq \in Nat /\ LastSeq = Len(rows) /\ LastSeq' = Len(rows')
      /\ Len(rows) \in Nat /\ Len(rows') \in Nat
  BY DEF Typed, HostInv, PaneInv, Cursors, LastSeq
<1>1. PICK l \in Seq(Row), m \in Seq(Row) : l = rows /\ m = rows'
  BY <1>0
<1>2. PICK p, o : p = epoch /\ o = epoch'
  OBVIOUS
<1>3. /\ resync = "idle" /\ since.epoch # 0 /\ since.seq <= Len(l)
      /\ Showing(snap, first, l, p) /\ Run(batch, l, p, Upto(snap, first), since.seq)
      /\ Longer(l, p, m, o) /\ Len(l) \in Nat /\ Len(m) \in Nat /\ Len(l) <= Len(m)
  BY <1>0, <1>1, <1>2 DEF Settled, Longer
<1>4. Showing(snap, first, m, o)
  BY <1>0, <1>3, ShowingStays
<1>5. PICK u \in Nat : u = Upto(snap, first) /\ u <= Len(l) /\ first # 0
  BY <1>0, <1>3, UptoIs DEF Showing
<1>6. Run(batch, m, o, u, since.seq)
  <2>1. PICK q \in Nat : q = since.seq
    BY <1>0
  <2>. QED BY <1>3, <1>5, <2>1, RunStays
<1>7. snap.cursor # Null => o = p
  BY <1>3, <1>4 DEF Showing
<1>8. Paging'
  <2>1. nextBefore # Null => nextBefore = At(o, first) /\ first > 1 /\ snap.cursor # Null
    BY <1>2, <1>7 DEF Settled, Paging
  <2>2. ASSUME older # NoPage
        PROVE  /\ nextBefore = Null /\ first > 1 /\ snap.cursor # Null
               /\ \/ older.rows = <<>> /\ older.next = At(o, first)
                  \/ \E f \in Nat : Stretch(older, f, first - 1, m, o)
    <3>1. /\ nextBefore = Null /\ first > 1 /\ snap.cursor # Null
          /\ \/ older.rows = <<>> /\ older.next = At(p, first)
             \/ \E f \in Nat : Stretch(older, f, first - 1, l, p)
      BY <1>1, <1>2, <2>2 DEF Settled, Paging
    <3>2. ASSUME NEW f \in Nat, Stretch(older, f, first - 1, l, p)
          PROVE  Stretch(older, f, first - 1, m, o)
      <4>1. PICK t \in Nat : t = first - 1
        BY <3>1
      <4>. QED BY <1>3, <3>2, <4>1, StretchStays
    <3>. QED BY <1>7, <3>1, <3>2
  <2>. QED BY <1>1, <1>2, <2>1, <2>2 DEF Paging
<1>9. Upto(snap, first)' = u /\ Showing(snap, first, rows, epoch)' /\ Run(batch, rows, epoch, u, since.seq)'
  BY <1>1, <1>2, <1>4, <1>5, <1>6
<1>. QED BY <1>0, <1>1, <1>3, <1>8, <1>9 DEF Settled

\* A page is empty, or a stretch of the journal that ends where it is asked to.
LEMMA PageIs ==
    ASSUME HostInv, NEW before \in Nexts, NEW limit \in Nat \ {0},
           NEW t, t = IF before = Null THEN LastSeq ELSE before.seq - 1
    PROVE  LET reply == ReadPage(before, limit)
           IN  /\ \/ reply.rows = <<>> /\ reply.next = Null /\ (reply.ok => t = 0)
                  \/ reply.ok /\ \E f \in Nat : Stretch(reply, f, t, rows, epoch)
               /\ OnlyEvents(reply)
<1>. DEFINE f == IF t > limit THEN t + 1 - limit ELSE 1
            reply == ReadPage(before, limit)
<1>0. minted \in Nat /\ LastSeq \in Nat /\ LastSeq = Len(rows)
  BY DEF HostInv, LastSeq
<1>1. t \in Nat /\ f \in Nat /\ 1 <= f /\ f <= t + 1
  BY <1>0, Kinds DEF Nexts, Cursors
<1>2. CASE /\ epoch # 0 /\ ~(before # Null /\ before.epoch # epoch)
           /\ ~(before # Null /\ before.seq > LastSeq) /\ bad \cap (f .. t) = {}
  <2>1. /\ reply.ok /\ reply.rows = Window(f, t)
        /\ reply.next = IF f > 1 THEN At(epoch, f) ELSE Null
    BY <1>2 DEF ReadPage
  <2>2. t <= LastSeq
    BY <1>0, <1>1, <1>2 DEF Nexts, Cursors
  <2>. HIDE DEF reply
  <2>3. CASE t = 0
    <3>1. f = 1
      BY <1>1, <2>3
    <3>2. reply.next = Null
      BY <2>1, <3>1
    <3>3. reply.rows = <<>>
      <4>1. t + 1 - f = 0
        BY <2>3, <3>1
      <4>2. PICK h : h = t + 1 - f /\ reply.rows = [k \in 1 .. h |-> Durable(epoch, f + k - 1, rows[f + k - 1])]
        BY <2>1 DEF Window
      <4>. HIDE DEF f
      <4>3. h = 0
        BY <4>1, <4>2
      <4>4. 1 .. h = {}
        BY <4>3
      <4>. QED BY <4>2, <4>4
    <3>. QED BY <2>3, <3>2, <3>3 DEF OnlyEvents, reply
  <2>4. CASE t # 0
    <3>1. f <= t /\ t <= Len(rows)
      <4>1. t <= Len(rows)
        BY <1>0, <2>2
      <4>5. t \in Nat
        BY <1>1
      <4>6. limit \in Nat /\ limit >= 1
        OBVIOUS
      <4>7. \A n \in Nat : n # 0 => n >= 1
        OBVIOUS
      <4>2. limit \in Nat /\ limit >= 1 /\ t \in Nat /\ t >= 1
        BY <2>4, <4>5, <4>6, <4>7
      <4>3. CASE t > limit
        BY <4>1, <4>2, <4>3
      <4>4. CASE ~(t > limit)
        BY <4>1, <4>2, <4>4
      <4>. QED BY <4>3, <4>4
    <3>. HIDE DEF f
    <3>2. reply.rows = Events(rows, epoch, f, t)
      BY <2>1 DEF Window, Events
    <3>3. Stretch(reply, f, t, rows, epoch)
      BY <1>1, <2>1, <3>1, <3>2 DEF Stretch
    <3>4. OnlyEvents(reply)
      BY <3>2, DurableIs DEF Events, OnlyEvents
    <3>. QED BY <1>1, <2>1, <3>3, <3>4 DEF reply
  <2>. QED BY <2>3, <2>4
<1>3. CASE ~(/\ epoch # 0 /\ ~(before # Null /\ before.epoch # epoch)
             /\ ~(before # Null /\ before.seq > LastSeq) /\ bad \cap (f .. t) = {})
  <2>1. \E w \in Resets : reply = Fails(w)
    BY <1>3 DEF ReadPage, Resets
  <2>2. reply.rows = <<>> /\ reply.next = Null /\ ~reply.ok
    BY <2>1 DEF Fails, NoPage
  <2>. QED BY <2>2 DEF OnlyEvents
<1>. QED BY <1>2, <1>3

\* The first event of a stretch.
LEMMA StretchBegins ==
    ASSUME NEW reply, NEW l, NEW p, NEW f \in Nat, NEW t \in Nat, Stretch(reply, f, t, l, p)
    PROVE  /\ reply.rows # <<>> /\ reply.rows[1].at.seq = f
           /\ Places(reply.rows, "durable") # {}
<1>1. 1 \in 1 .. t + 1 - f /\ f + 1 - 1 = f
  BY DEF Stretch
<1>2. 1 \in DOMAIN reply.rows /\ reply.rows[1] = Durable(p, f, l[f])
  BY <1>1 DEF Stretch, Events
<1>. QED BY <1>2, DurableIs DEF Places

\* A snapshot of a stretch alone.
LEMMA StretchShows ==
    ASSUME minted \in Nat, NEW reply \in Replies, NEW l \in Seq(Row), NEW p,
           NEW f \in Nat, NEW t \in Nat, Stretch(reply, f, t, l, p)
    PROVE  LET z == ReduceMany(Empty, reply.rows)
           IN  /\ z \in Snapshots /\ Showing(z, f, l, p) /\ Upto(z, f) = t
               /\ z.cursor # Null /\ z.cursor.seq = t
<1>. DEFINE z == ReduceMany(Empty, reply.rows)
<1>1. /\ 1 <= f /\ f <= t /\ t <= Len(l) /\ Len(l) \in Nat
      /\ reply.rows = Events(l, p, f, t) /\ reply.rows \in Seq(Frames)
  BY DEF Stretch, Replies
<1>2. Empty \in Snapshots
  BY EmptyIs
<1>3. Showing(Empty, f, l, p) /\ Upto(Empty, f) = f - 1
  BY <1>1, EmptyShows
<1>4. Run(Events(l, p, f, t), l, p, f - 1, t)
  BY <1>1, EventsRun
<1>5. z \in Snapshots
  BY <1>1, <1>2, ReduceIs
<1>6. /\ Showing(z, f, l, p) /\ Upto(z, f) = t
      /\ z.cursor = Null => Empty.cursor = Null /\ Places(reply.rows, "durable") = {}
  <2>1. Run(reply.rows, l, p, Upto(Empty, f), t)
    BY <1>1, <1>3, <1>4
  <2>. QED BY <1>1, <1>2, <1>3, <2>1, RunReduces
<1>7. z.cursor # Null
  BY <1>6, StretchBegins
<1>. HIDE DEF z
<1>8. z.cursor.seq = t
  BY <1>6, <1>7 DEF Upto
<1>. QED BY <1>5, <1>6, <1>7, <1>8 DEF z

-----------------------------------------------------------------------------
(* The host's steps. *)

\* The pane is left alone and the journal keeps what it has.
LEMMA OutsideShown ==
    ASSUME Shown, Typed', Longer(rows, epoch, rows', epoch'), epoch # 0 => epoch' # 0,
           UNCHANGED <<seedVars, paneVars, first, calm>>
    PROVE  Unread' /\ Seeding' /\ (calm /\ mode = "ready" => Settled')
<1>0. /\ Typed /\ Unread /\ Seeding /\ Following
      /\ UNCHANGED <<mode, asked, page, cur, since, batch, snap, rendered, resync, answer,
                     nextBefore, older>>
      /\ rows \in Seq(Row) /\ rows' \in Seq(Row)
  BY DEF Shown, seedVars, paneVars, Typed, HostInv
<1>1. Unread'
  BY <1>0 DEF Unread, OnlyEvents
<1>2. Seeding'
  <2>. SUFFICES ASSUME calm, mode \in {"paging", "seeding"}
                PROVE  /\ asked.epoch # 0 /\ asked.seq <= Len(rows')
                       /\ mode = "seeding" =>
                             \/ page.rows = <<>> /\ page.next = Null
                             \/ page.ok /\ \E f, t \in Nat : Stretch(page, f, t, rows', epoch')
    BY <1>0 DEF Seeding, LastSeq
  <2>1. asked.epoch # 0 /\ asked.seq <= Len(rows')
    <3>1. asked.seq \in Nat /\ Len(rows) \in Nat /\ Len(rows') \in Nat /\ Len(rows) <= Len(rows')
      BY <1>0 DEF Typed, PaneInv, Cursors, Longer
    <3>2. asked.epoch # 0 /\ asked.seq <= Len(rows)
      BY <1>0 DEF Seeding, LastSeq
    <3>. QED BY <3>1, <3>2
  <2>2. ASSUME NEW f \in Nat, NEW t \in Nat, Stretch(page, f, t, rows, epoch)
        PROVE  Stretch(page, f, t, rows', epoch')
    BY <1>0, <2>2, StretchStays
  <2>. QED BY <1>0, <2>1, <2>2 DEF Seeding
<1>3. ASSUME calm, mode = "ready" PROVE Settled'
  <2>1. Settled /\ first \in Nat
    BY <1>0, <1>3 DEF Following, Unread
  <2>. QED BY <1>0, <2>1, SettledStays
<1>. QED BY <1>1, <1>2, <1>3

\* Nothing reaches the pane, and the journal moves only under those not served.
LEMMA IncomingStays ==
    ASSUME Typed, Typed', Incoming, since.seq <= LastSeq,
           Longer(rows, epoch, rows', epoch'), cur' = cur, since' = since,
           cur # 0 /\ link'[cur] = "up" => link[cur] = "up" /\ wire'[cur] = wire[cur],
           cur \in reg' => cur \in reg /\ Len(rows') = Len(rows)
    PROVE  Incoming'
<1>. SUFFICES ASSUME cur # 0, link'[cur] = "up"
              PROVE  Arriving(wire'[cur], cur \in reg', rows', epoch', since.seq)
  BY DEF Incoming
<1>1. /\ rows \in Seq(Row) /\ rows' \in Seq(Row) /\ since.seq \in Nat
      /\ since.seq <= Len(rows)
  BY DEF Typed, HostInv, PaneInv, Cursors, LastSeq
<1>2. Arriving(wire[cur], cur \in reg, rows, epoch, since.seq) /\ wire'[cur] = wire[cur]
  BY DEF Incoming
<1>3. CASE cur \in reg'
  <2>1. Arriving(wire[cur], TRUE, rows, epoch, since.seq) /\ Len(rows') = Len(rows)
    BY <1>2, <1>3 DEF Arriving, Sound
  <2>2. Arriving(wire[cur], TRUE, rows', epoch', since.seq)
    BY <1>1, <2>1, ArrivingStays
  <2>. QED BY <1>2, <1>3, <2>2 DEF Arriving, Sound
<1>4. CASE cur \notin reg'
  <2>1. Arriving(wire[cur], FALSE, rows, epoch, since.seq)
    BY <1>2 DEF Arriving, Sound
  <2>2. Arriving(wire[cur], FALSE, rows', epoch', since.seq)
    BY <1>1, <2>1, ArrivingStays
  <2>. QED BY <1>2, <1>4, <2>2 DEF Arriving, Sound
<1>. QED BY <1>3, <1>4

LEMMA SameIsLonger == \A l \in Seq(Row) : \A p : Longer(l, p, l, p)
BY DEF Longer

\* The next event reaches those served.
LEMMA AppendShown ==
    ASSUME Shown, Typed', NEW i \in Subjects, AppendEnvelope(epoch', i),
           epoch' = epoch \/ LastSeq = 0, epoch' # 0,
           UNCHANGED <<reg, link, seedVars, paneVars, first, calm>>
    PROVE  Shown'
<1>1. PICK row, d : /\ rows' = Append(rows, row) /\ d = Durable(epoch', LastSeq + 1, row)
                    /\ wire' = Sent(wire, held \o <<d>>) /\ held' = <<>>
  BY DEF AppendEnvelope, Publish
<1>2. /\ rows \in Seq(Row) /\ rows' \in Seq(Row) /\ minted \in Nat /\ epoch' \in Nat
      /\ LastSeq = Len(rows) /\ Len(rows) \in Nat
      /\ UNCHANGED <<cur, since>> /\ since.seq \in Nat
  BY DEF Shown, Typed, HostInv, LastSeq, paneVars, PaneInv, Cursors
<1>3. PICK l \in Seq(Row), m \in Seq(Row) : l = rows /\ m = rows'
  BY <1>2
<1>4. Len(m) = Len(l) + 1 /\ m[Len(m)] = row /\ \A k \in 1 .. Len(l) : m[k] = l[k]
  BY <1>1, <1>3
<1>5. Longer(l, epoch, m, epoch') /\ d = Durable(epoch', Len(m), m[Len(m)])
  BY <1>1, <1>2, <1>3, <1>4 DEF Longer
<1>6. Unread' /\ Seeding' /\ (calm /\ mode = "ready" => Settled')
  BY <1>3, <1>5, OutsideShown
<1>7. Pending'
  BY <1>1 DEF Pending
<1>8. ASSUME calm, mode = "ready" PROVE Incoming'
  <2>1. Settled /\ Incoming /\ since.seq <= LastSeq
    BY <1>8 DEF Shown, Following, Settled
  <2>2. CASE cur \in reg /\ cur # 0 /\ link[cur] = "up"
    <3>1. /\ cur \in Sockets /\ wire[cur] \in Seq(Frames) /\ held \in Seq(Deltas)
          /\ held \in Seq(Frames)
      BY <1>2, <2>2, Kinds DEF Shown, Typed, PaneInv, NetInv, HubInv
    <3>2. PICK a \in Seq(Frames), b \in Seq(Frames) :
              a = wire[cur] /\ b = held /\ b \in Seq(Deltas)
      BY <3>1
    <3>3. a \o b \in Seq(Frames) /\ a \o (b \o <<d>>) = Append(a \o b, d)
      BY SentLast
    <3>4. wire'[cur] = a \o (b \o <<d>>)
      BY <1>1, <2>2, <3>1, <3>2 DEF Sent
    <3>5. Arriving(a, TRUE, l, epoch, since.seq)
      BY <1>3, <2>1, <2>2, <3>2 DEF Incoming, Arriving
    <3>6. \A k \in DOMAIN b : b[k].ver = Newest(l, b[k].item, 1, Len(l))
      BY <1>2, <1>3, <3>2 DEF Shown, Pending
    <3>7. Arriving(a \o b, TRUE, l, epoch, since.seq)
      BY <1>2, <3>2, <3>5, <3>6, ArrivingText
    <3>8. Arriving(Append(a \o b, d), TRUE, m, epoch', since.seq)
      <4>1. PICK w \in Seq(Frames) : w = a \o b
        BY <3>3
      <4>2. PICK o \in Nat : o = epoch'
        BY <1>2
      <4>3. since.seq <= Len(l)
        BY <1>2, <1>3, <2>1
      <4>. QED BY <1>2, <1>4, <1>5, <3>7, <4>1, <4>2, <4>3, ArrivingEvent
    <3>9. Arriving(wire'[cur], TRUE, rows', epoch', since.seq)
      BY <1>3, <3>3, <3>4, <3>8
    <3>10. (cur' \in reg') = TRUE
      BY <1>2, <2>2
    <3>. QED BY <1>2, <3>9, <3>10 DEF Incoming
  <2>3. CASE ~(cur \in reg /\ cur # 0 /\ link[cur] = "up")
    <3>1. cur # 0 /\ link'[cur] = "up" => link[cur] = "up" /\ wire'[cur] = wire[cur]
      BY <1>1, <2>3 DEF Sent, Shown, Typed, PaneInv
    <3>2. CASE cur # 0 /\ link[cur] = "up"
      <4>1. cur \notin reg'
        BY <2>3, <3>2
      <4>. QED BY <1>2, <1>3, <1>5, <2>1, <3>1, <4>1, IncomingStays DEF Shown
    <3>3. CASE ~(cur # 0 /\ link[cur] = "up")
      BY <1>2, <3>3 DEF Incoming
    <3>. QED BY <3>2, <3>3
  <2>. QED BY <2>2, <2>3
<1>. QED BY <1>2, <1>6, <1>7, <1>8 DEF Shown, Following, seedVars

\* A step that leaves the journal, the pane and its wire alone.
LEMMA QuietShown ==
    ASSUME Shown, Typed', rows' = rows, epoch' = epoch \/ LastSeq = 0, epoch # 0 => epoch' # 0,
           UNCHANGED <<seedVars, paneVars, first, calm>>,
           cur # 0 /\ link'[cur] = "up" => link[cur] = "up" /\ wire'[cur] = wire[cur],
           cur \in reg' => cur \in reg, Pending'
    PROVE  Shown'
<1>1. /\ Longer(rows, epoch, rows', epoch') /\ UNCHANGED <<mode, cur, since>>
      /\ Len(rows') = Len(rows)
  BY DEF Longer, LastSeq, seedVars, paneVars
<1>2. Unread' /\ Seeding' /\ (calm /\ mode = "ready" => Settled')
  BY <1>1, OutsideShown
<1>3. ASSUME calm, mode = "ready" PROVE Incoming'
  <2>1. Incoming /\ since.seq <= LastSeq
    BY <1>3 DEF Shown, Following, Settled
  <2>. QED BY <1>1, <2>1, IncomingStays DEF Shown
<1>. QED BY <1>1, <1>2, <1>3 DEF Shown, Following

LEMMA OpenEpochKeeps ==
    ASSUME Typed, OpenEpoch
    PROVE  (epoch' = epoch \/ LastSeq = 0) /\ epoch' # 0
<1>1. LastSeq \in Nat /\ minted \in Nat /\ (LastSeq # 0 => epoch # 0)
  <2>1. rows = <<>> => Len(rows) = 0
    OBVIOUS
  <2>2. rows \in Seq(Row) /\ (rows # <<>> => epoch # 0) /\ minted \in Nat
    BY DEF Typed, HostInv
  <2>. QED BY <2>1, <2>2 DEF LastSeq
<1>2. CASE epoch # 0 /\ LastSeq > 0
  BY <1>2 DEF OpenEpoch
<1>3. CASE ~(epoch # 0 /\ LastSeq > 0)
  <2>1. epoch' = minted + 1
    BY <1>3 DEF OpenEpoch
  <2>. QED BY <1>1, <1>3, <2>1
<1>. QED BY <1>2, <1>3

LEMMA EventShown ==
    ASSUME Shown, Typed', OpenSession \/ \E i \in Subjects : AppendEvent(i)
    PROVE  Shown'
<1>1. CASE OpenSession
  <2>1. /\ AppendEnvelope(epoch', State) /\ OpenEpoch
        /\ UNCHANGED <<reg, link, seedVars, paneVars, first, calm>>
    BY <1>1 DEF OpenSession
  <2>2. (epoch' = epoch \/ LastSeq = 0) /\ epoch' # 0
    BY <2>1, OpenEpochKeeps DEF Shown
  <2>3. State \in Subjects
    BY DEF Subjects
  <2>. QED BY <2>1, <2>2, <2>3, AppendShown
<1>2. ASSUME NEW i \in Subjects, AppendEvent(i)
      PROVE  Shown'
  <2>1. /\ live /\ epoch' = epoch /\ AppendEnvelope(epoch', i)
        /\ UNCHANGED <<reg, link, seedVars, paneVars, first, calm>>
    BY <1>2 DEF AppendEvent
  <2>2. epoch' # 0
    BY <2>1 DEF Shown, Typed, HostInv
  <2>. QED BY <2>1, <2>2, AppendShown
<1>. QED BY <1>1, <1>2

LEMMA OpenVoidShown ==
    ASSUME Shown, Typed', OpenVoid
    PROVE  Shown'
<1>1. /\ OpenEpoch /\ UNCHANGED <<rows, hubVars, netVars, seedVars, paneVars, first, calm>>
  BY DEF OpenVoid
<1>2. UNCHANGED <<reg, held, link, wire>>
  BY <1>1 DEF hubVars, netVars
<1>3. (epoch' = epoch \/ LastSeq = 0) /\ epoch' # 0
  BY <1>1, OpenEpochKeeps DEF Shown
<1>4. Pending'
  BY <1>1, <1>2 DEF Shown, Pending, LastSeq
<1>. QED BY <1>1, <1>2, <1>3, <1>4, QuietShown

LEMMA PublishDeltaShown ==
    ASSUME Shown, Typed', NEW i \in Items, PublishDelta(i)
    PROVE  Shown'
<1>1. /\ held' = Append(held, Delta(i, Latest(i, LastSeq)))
      /\ UNCHANGED <<hostVars, reg, netVars, seedVars, paneVars, first, calm>>
  BY DEF PublishDelta
<1>2. UNCHANGED <<rows, epoch, link, wire>>
  BY <1>1 DEF hostVars, netVars
<1>3. Latest(i, LastSeq) = Newest(rows, i, 1, LastSeq)
  BY NewestIsLatest DEF Shown, Typed, HostInv, LastSeq
<1>4. held \in Seq(Deltas)
  BY DEF Shown, Typed, HubInv
<1>5. Pending'
  <2>0. \A v : Delta(i, v).item = i /\ Delta(i, v).ver = v
    BY DEF Delta
  <2>1. PICK d : d = Delta(i, Latest(i, LastSeq)) /\ d.item = i /\ d.ver = Latest(i, LastSeq)
    BY <2>0
  <2>2. \A k \in DOMAIN held' : (k \in DOMAIN held /\ held'[k] = held[k]) \/ held'[k] = d
    BY <1>1, <1>4, <2>1
  <2>. QED BY <1>2, <1>3, <2>1, <2>2 DEF Shown, Pending, LastSeq
<1>. QED BY <1>1, <1>2, <1>5, QuietShown

\* The text that was held reaches those served.
LEMMA FlushArrives ==
    ASSUME Shown, calm, mode = "ready", cur # 0, link[cur] = "up"
    PROVE  Arriving(Sent(wire, held)[cur], cur \in reg, rows, epoch, since.seq)
<1>1. /\ cur \in Sockets /\ wire[cur] \in Seq(Frames) /\ held \in Seq(Deltas)
      /\ minted \in Nat /\ rows \in Seq(Row) /\ since.seq \in Nat
  BY DEF Shown, Typed, PaneInv, NetInv, HubInv, HostInv, Cursors
<1>2. Arriving(wire[cur], cur \in reg, rows, epoch, since.seq)
  BY DEF Shown, Following, Incoming
<1>3. CASE cur \in reg
  <2>1. Sent(wire, held)[cur] = wire[cur] \o held
    BY <1>1, <1>3 DEF Sent
  <2>2. Arriving(wire[cur], TRUE, rows, epoch, since.seq)
    BY <1>2, <1>3 DEF Arriving, Sound
  <2>3. \A k \in DOMAIN held : held[k].ver = Newest(rows, held[k].item, 1, Len(rows))
    BY DEF Shown, Pending, LastSeq
  <2>4. Arriving(wire[cur] \o held, TRUE, rows, epoch, since.seq)
    BY <1>1, <2>2, <2>3, ArrivingText
  <2>. QED BY <1>3, <2>1, <2>4 DEF Arriving, Sound
<1>4. CASE cur \notin reg
  <2>1. Sent(wire, held)[cur] = wire[cur]
    BY <1>1, <1>4 DEF Sent
  <2>. QED BY <1>2, <2>1
<1>. QED BY <1>3, <1>4

LEMMA FlushShown ==
    ASSUME Shown, Typed', FlushDeltas
    PROVE  Shown'
<1>1. /\ held' = <<>> /\ wire' = Sent(wire, held)
      /\ UNCHANGED <<hostVars, reg, link, seedVars, paneVars, histVars>>
  BY DEF FlushDeltas
<1>2. UNCHANGED <<rows, epoch, mode, cur, since, first, calm>>
  BY <1>1 DEF hostVars, seedVars, paneVars, histVars
<1>3. Longer(rows, epoch, rows', epoch')
  BY <1>2, SameIsLonger DEF Shown, Typed, HostInv
<1>4. Unread' /\ Seeding' /\ (calm /\ mode = "ready" => Settled')
  BY <1>1, <1>2, <1>3, OutsideShown
<1>5. Pending'
  BY <1>1 DEF Pending
<1>6. ASSUME calm, mode = "ready" PROVE Incoming'
  BY <1>1, <1>2, <1>6, FlushArrives DEF Incoming
<1>. QED BY <1>2, <1>4, <1>5, <1>6 DEF Shown, Following

\* A replay goes on where the pane is; a refusal is a reset.
LEMMA ReplayArrives ==
    ASSUME Shown, calm, mode = "ready", NEW s \in Sockets, s = cur, link[s] = "dialing"
    PROVE  Arriving(Replied(s), TRUE, rows, epoch, since.seq)
<1>1. /\ s # 0 /\ url[s] = since /\ since \in Cursors /\ since.seq \in Nat
      /\ since.epoch # 0 /\ HostInv /\ minted \in Nat /\ rows \in Seq(Row)
      /\ LastSeq = Len(rows) /\ Len(rows) \in Nat
  BY BoundsAssumption DEF Shown, Typed, PaneInv, Following, Settled, Cursors, HostInv, LastSeq
<1>2. since # Null
  BY <1>1, Kinds
<1>3. Replay(s) = ReadSince(since)
  BY <1>1, <1>2 DEF Replay
<1>4. CASE ReadSince(since).ok
  <2>1. /\ epoch = since.epoch /\ since.seq <= LastSeq
        /\ Replied(s) = Window(since.seq + 1, LastSeq)
    BY <1>1, <1>3, <1>4, ReadSinceIs DEF Replied
  <2>2. PICK b \in Nat, t \in Nat : b = since.seq /\ t = Len(rows)
    BY <1>1
  <2>3. Replied(s) = Events(rows, epoch, b + 1, t)
    BY <1>1, <2>1, <2>2 DEF Window, Events
  <2>4. Run(Events(rows, epoch, b + 1, t), rows, epoch, b, t)
    <3>1. PICK f \in Nat : f = b + 1 /\ 1 <= f /\ f <= t + 1 /\ f - 1 = b
      BY <1>1, <2>1, <2>2
    <3>2. Run(Events(rows, epoch, f, t), rows, epoch, f - 1, t)
      BY <1>1, <2>2, <3>1, EventsRun
    <3>. QED BY <3>1, <3>2
  <2>. QED BY <2>2, <2>3, <2>4 DEF Run, Arriving
<1>5. CASE ~ReadSince(since).ok
  <2>1. PICK w \in Resets : Replied(s) = <<Reset(w)>>
    BY <1>1, <1>3, <1>5, ReadSinceIs DEF Replied
  <2>2. PICK r : r = Replied(s) /\ DOMAIN r = {1} /\ r[1].kind = "reset"
    BY <2>1 DEF Reset
  <2>3. Sound(r, At(epoch, since.seq), TRUE, At(epoch, LastSeq))
    BY <1>1, <2>1, <2>2, ResetFollows
  <2>4. Places(r, "durable") = {} /\ Places(r, "reset") = {1}
    BY <2>2 DEF Places
  <2>. QED BY <1>1, <2>2, <2>3, <2>4 DEF Arriving, Genuine
<1>. QED BY <1>4, <1>5

LEMMA SubscribeShown ==
    ASSUME Shown, Typed', NEW s \in Sockets, Subscribe(s)
    PROVE  Shown'
<1>1. /\ link[s] = "dialing" /\ link' = [link EXCEPT ![s] = "up"]
      /\ wire' = [Sent(wire, held) EXCEPT ![s] = Replied(s)]
      /\ held' = <<>> /\ reg' = reg \cup {s}
      /\ UNCHANGED <<hostVars, seedVars, paneVars, histVars>>
  BY SubscribeDoes
<1>2. UNCHANGED <<rows, epoch, mode, cur, since, first, calm>>
  BY <1>1 DEF hostVars, seedVars, paneVars, histVars
<1>3. Longer(rows, epoch, rows', epoch')
  BY <1>2, SameIsLonger DEF Shown, Typed, HostInv
<1>4. Unread' /\ Seeding' /\ (calm /\ mode = "ready" => Settled')
  BY <1>1, <1>2, <1>3, OutsideShown
<1>5. Pending'
  BY <1>1 DEF Pending
<1>6. ASSUME calm, mode = "ready" PROVE Incoming'
  <2>1. s \in DOMAIN Sent(wire, held) /\ s \in DOMAIN link
    BY DEF Sent, Shown, Typed, NetInv
  <2>2. CASE s = cur
    <3>1. Arriving(Replied(s), TRUE, rows, epoch, since.seq)
      BY <1>1, <1>6, <2>2, ReplayArrives
    <3>2. wire'[cur] = Replied(s) /\ cur \in reg'
      BY <1>1, <2>1, <2>2
    <3>. QED BY <1>2, <3>1, <3>2 DEF Incoming, Arriving, Sound
  <2>3. CASE s # cur
    <3>. SUFFICES ASSUME cur # 0, link'[cur] = "up"
                  PROVE  Arriving(wire'[cur], cur \in reg', rows, epoch, since.seq)
      BY <1>2 DEF Incoming
    <3>1. link[cur] = "up" /\ wire'[cur] = Sent(wire, held)[cur] /\ (cur \in reg' => cur \in reg)
      BY <1>1, <2>1, <2>3 DEF Shown, Typed, PaneInv, NetInv, Sent
    <3>2. Arriving(Sent(wire, held)[cur], cur \in reg, rows, epoch, since.seq)
      BY <1>6, <3>1, FlushArrives
    <3>. QED BY <3>1, <3>2 DEF Arriving, Sound
  <2>. QED BY <2>2, <2>3
<1>. QED BY <1>2, <1>4, <1>5, <1>6 DEF Shown, Following

LEMMA HostGoneShown ==
    ASSUME Shown, Typed',
           \/ HostCrash \/ HostRestart \/ \E k \in 1 .. LastSeq : RestartWithBadRow(k)
           \/ \E s \in Sockets : Unsubscribe(s)
    PROVE  Shown'
<1>1. UNCHANGED <<rows, epoch, wire, seedVars, paneVars, first, calm>>
  BY DEF HostCrash, HostRestart, RestartWithBadRow, Unsubscribe, hostVars, netVars, histVars
<1>2. /\ held' \in {held, <<>>} /\ reg' \subseteq reg
      /\ cur # 0 /\ link'[cur] = "up" => link[cur] = "up"
  <2>1. CASE HostCrash
    <3>1. /\ reg' = {} /\ held' = <<>>
          /\ link' = [s \in Sockets |-> IF link[s] = "cut" THEN "free" ELSE link[s]]
      BY <2>1 DEF HostCrash
    <3>. QED BY <3>1 DEF Shown, Typed, PaneInv
  <2>2. CASE HostRestart \/ \E k \in 1 .. LastSeq : RestartWithBadRow(k)
    BY <2>2 DEF HostRestart, RestartWithBadRow, hubVars, netVars
  <2>3. ASSUME NEW s \in Sockets, Unsubscribe(s)
        PROVE  /\ held' \in {held, <<>>} /\ reg' \subseteq reg
               /\ cur # 0 /\ link'[cur] = "up" => link[cur] = "up"
    <3>1. /\ link[s] = "cut" /\ link' = [link EXCEPT ![s] = "free"]
          /\ reg' = reg \ {s} /\ held' \in {held, <<>>}
      BY <2>3 DEF Unsubscribe, Unsubscribed
    <3>. QED BY <3>1 DEF Shown, Typed, NetInv
  <2>. QED BY <2>1, <2>2, <2>3
<1>3. Pending'
  BY <1>1, <1>2 DEF Shown, Pending, LastSeq
<1>. QED BY <1>1, <1>2, <1>3, QuietShown

LEMMA LossShown ==
    ASSUME Shown, Typed', RestartWithoutJournal
    PROVE  Shown'
<1>1. /\ ~up /\ calm' = (mode = "away")
      /\ UNCHANGED <<epoch, hubVars, seedVars, paneVars, first>>
  BY DEF RestartWithoutJournal
<1>2. UNCHANGED <<held, mode, page, cur, batch, snap, rendered, resync, nextBefore, answer, older>>
  BY <1>1 DEF hubVars, seedVars, paneVars
<1>3. held = <<>>
  BY <1>1 DEF Shown, Typed, HubInv
<1>4. Pending'
  BY <1>2, <1>3 DEF Pending
<1>5. Unread'
  BY <1>1, <1>2 DEF Shown, Unread, OnlyEvents
<1>6. Seeding' /\ Following'
  BY <1>1, <1>2 DEF Seeding, Following
<1>. QED BY <1>4, <1>5, <1>6 DEF Shown

-----------------------------------------------------------------------------
(* The pane's steps. *)

\* A step that leaves the host and the network alone; what it has to show.
LEMMA PaneShown ==
    ASSUME Shown, Typed', Unread', Seeding', calm' /\ mode' = "ready" => Settled' /\ Incoming',
           UNCHANGED <<rows, held>>
    PROVE  Shown'
<1>1. Pending'
  BY DEF Shown, Pending, LastSeq
<1>. QED BY <1>1 DEF Shown, Following

\* One that leaves the stream alone as well.
LEMMA StreamStays ==
    ASSUME Shown, UNCHANGED <<epoch, rows, reg, link, wire, cur, since>>, Incoming
    PROVE  Incoming'
BY DEF Incoming, LastSeq

\* A pane that mounts and asks.
LEMMA SeedsShown ==
    ASSUME Shown, Typed', Mount \/ ServeSession \/ ServeItems \/ SeedFails
    PROVE  Shown'
<1>1. /\ UNCHANGED <<epoch, rows, hubVars, netVars, paneVars, first>>
      /\ mode # "ready" /\ mode' # "ready"
      /\ calm' = calm \/ calm' = TRUE
  BY DEF Mount, ServeSession, ServeItems, SeedFails, hostVars, histVars
<1>2. UNCHANGED <<held, cur, batch, snap, rendered, resync, nextBefore, answer, older>>
  BY <1>1 DEF hubVars, paneVars
<1>3. OnlyEvents(page)'
  <2>1. CASE ServeItems
    <3>1. OnlyEvents(ReadPage(Null, PageSize))
      <4>1. PICK t : t = LastSeq
        OBVIOUS
      <4>2. Null \in Nexts /\ PageSize \in Nat \ {0} /\ HostInv
        BY Kinds, BoundsAssumption DEF Shown, Typed, HostInv
      <4>. QED BY <4>1, <4>2, PageIs
    <3>2. page' = ReadPage(Null, PageSize)
      BY <2>1 DEF ServeItems
    <3>. QED BY <3>1, <3>2 DEF OnlyEvents
  <2>2. CASE Mount \/ ServeSession \/ SeedFails
    <3>1. page' = page
      BY <2>2 DEF Mount, ServeSession, SeedFails
    <3>. QED BY <3>1 DEF Shown, Unread, OnlyEvents
  <2>. QED BY <2>1, <2>2
<1>4. Unread'
  <2>1. mode' \in {"opening", "paging", "seeding", "stuck"} /\ epoch # 0
    BY DEF Mount, ServeSession, ServeItems, SeedFails, Shown, Unread
  <2>2. OnlyEvents(answer)' /\ OnlyEvents(older)'
    BY <1>2 DEF Shown, Unread, OnlyEvents
  <2>. QED BY <1>1, <1>2, <1>3, <2>1, <2>2 DEF Shown, Unread
<1>5. Seeding'
  <2>1. CASE Mount \/ SeedFails
    <3>1. mode' \in {"opening", "stuck"}
      BY <2>1 DEF Mount, SeedFails
    <3>. QED BY <3>1 DEF Seeding
  <2>2. CASE ServeSession
    <3>1. mode' = "paging" /\ asked' = At(epoch, LastSeq) /\ epoch # 0
      BY <2>2 DEF ServeSession, Shown, Unread
    <3>2. asked'.epoch = epoch /\ asked'.seq = LastSeq /\ LastSeq' = LastSeq /\ LastSeq \in Nat
      BY <1>1, <3>1 DEF At, LastSeq, Shown, Typed, HostInv
    <3>. QED BY <3>1, <3>2 DEF Seeding
  <2>3. CASE ServeItems
    <3>1. mode = "paging" /\ page' = ReadPage(Null, PageSize) /\ asked' = asked /\ calm' = calm
      BY <2>3 DEF ServeItems, histVars
    <3>2. /\ calm => asked.epoch # 0 /\ asked.seq <= LastSeq
          /\ LastSeq' = LastSeq /\ LastSeq \in Nat
      BY <1>1, <3>1 DEF Shown, Seeding, Typed, HostInv, LastSeq
    <3>3. PICK t \in Nat : t = LastSeq
      BY <3>2
    <3>4. Null \in Nexts /\ PageSize \in Nat \ {0} /\ HostInv
      BY Kinds, BoundsAssumption DEF Shown, Typed, HostInv
    <3>5. \/ page'.rows = <<>> /\ page'.next = Null
          \/ page'.ok /\ \E f \in Nat : Stretch(page', f, t, rows, epoch)
      BY <3>1, <3>3, <3>4, PageIs
    <3>. QED BY <1>1, <3>1, <3>2, <3>5 DEF Seeding
  <2>. QED BY <2>1, <2>2, <2>3
<1>. QED BY <1>1, <1>2, <1>4, <1>5, PaneShown

\* The seed's snapshot is the page; the stream goes on where that ends.
LEMMA SeedShows ==
    ASSUME Shown, NEW s \in Sockets, Seed(s), calm
    PROVE  /\ Showing(snap', first', rows, epoch)
           /\ Upto(snap', first') = since'.seq
           /\ since'.epoch # 0 /\ since'.seq <= LastSeq
           /\ nextBefore' # Null =>
                 nextBefore' = At(epoch, first') /\ first' > 1 /\ snap'.cursor # Null
<1>1. /\ mode = "seeding" /\ snap' = Seeded /\ nextBefore' = page.next /\ since' = SeedCursor
      /\ first' = IF page.rows = <<>> THEN asked.seq + 1 ELSE page.rows[1].at.seq
  BY DEF Seed
<1>2. /\ minted \in Nat /\ rows \in Seq(Row) /\ LastSeq = Len(rows) /\ Len(rows) \in Nat
      /\ asked.seq \in Nat /\ asked.epoch # 0 /\ asked.seq <= LastSeq
      /\ page \in Replies /\ epoch # 0
      /\ \/ page.rows = <<>> /\ page.next = Null
         \/ page.ok /\ \E f, t \in Nat : Stretch(page, f, t, rows, epoch)
  BY <1>1 DEF Shown, Typed, HostInv, PaneInv, Cursors, Seeding, LastSeq, Unread
<1>3. CASE page.rows = <<>> /\ page.next = Null
  <2>1. Seeded = Empty
    BY <1>3, NothingReduces DEF Seeded
  <2>2. since' = asked
    BY <1>1, <2>1 DEF SeedCursor, Empty
  <2>3. PICK f \in Nat : f = asked.seq + 1 /\ first' = f /\ 1 <= f /\ f <= Len(rows) + 1
    BY <1>1, <1>2, <1>3
  <2>4. Showing(Empty, f, rows, epoch) /\ Upto(Empty, f) = f - 1
    BY <1>2, <2>3, EmptyShows
  <2>. QED BY <1>1, <1>2, <1>3, <2>1, <2>2, <2>3, <2>4
<1>4. ASSUME page.ok, NEW f \in Nat, NEW t \in Nat, Stretch(page, f, t, rows, epoch)
      PROVE  /\ Showing(snap', first', rows, epoch)
             /\ Upto(snap', first') = since'.seq
             /\ since'.epoch # 0 /\ since'.seq <= LastSeq
             /\ nextBefore' # Null =>
                   nextBefore' = At(epoch, first') /\ first' > 1 /\ snap'.cursor # Null
  <2>1. Seeded = ReduceMany(Empty, page.rows)
    BY <1>4 DEF Seeded
  <2>2. /\ Showing(Seeded, f, rows, epoch) /\ Upto(Seeded, f) = t
        /\ Seeded.cursor # Null /\ Seeded.cursor.seq = t
    BY <1>2, <1>4, <2>1, StretchShows
  <2>3. since' = Seeded.cursor /\ first' = f
    BY <1>1, <1>4, <2>2, StretchBegins DEF SeedCursor
  <2>4. Seeded.cursor.epoch = epoch
    BY <2>2 DEF Showing
  <2>5. t <= Len(rows) /\ page.next = IF f > 1 THEN At(epoch, f) ELSE Null
    BY <1>4 DEF Stretch
  <2>. QED BY <1>1, <1>2, <2>2, <2>3, <2>4, <2>5
<1>. QED BY <1>2, <1>3, <1>4

LEMMA SeedShown ==
    ASSUME Shown, Typed', NEW s \in Sockets, Seed(s)
    PROVE  Shown'
<1>1. /\ mode = "seeding" /\ mode' = "ready"
      /\ UNCHANGED <<hostVars, hubVars, page, batch, rendered, resync, answer, older, calm>>
      /\ first' = IF page.rows = <<>> THEN asked.seq + 1 ELSE page.rows[1].at.seq
  BY DEF Seed
<1>2. /\ UNCHANGED <<epoch, rows, held>>
      /\ batch = <<>> /\ resync = "idle" /\ older = NoPage /\ epoch # 0
      /\ OnlyEvents(page) /\ OnlyEvents(answer) /\ OnlyEvents(older)
  BY <1>1 DEF hostVars, hubVars, Shown, Unread
<1>3. first' \in Nat \ {0}
  <2>1. CASE page.rows = <<>>
    BY <1>1, <2>1 DEF Shown, Typed, PaneInv, Cursors
  <2>2. CASE page.rows # <<>>
    <3>1. page.rows \in Seq(Frames) /\ minted \in Nat
      BY DEF Shown, Typed, HostInv, PaneInv, Replies
    <3>2. 1 \in DOMAIN page.rows /\ page.rows[1] \in Frames
      BY <2>2, <3>1
    <3>3. page.rows[1].kind = "durable"
      BY <1>2, <3>2 DEF OnlyEvents
    <3>. QED BY <1>1, <2>2, <3>1, <3>2, <3>3, Kinds DEF Cursors
  <2>. QED BY <2>1, <2>2
<1>4. Unread'
  <2>1. OnlyEvents(page)' /\ OnlyEvents(answer)' /\ OnlyEvents(older)'
    BY <1>1, <1>2 DEF OnlyEvents
  <2>. QED BY <1>1, <1>2, <1>3, <2>1 DEF Unread, Shown
<1>5. Seeding'
  BY <1>1 DEF Seeding
<1>6. ASSUME calm' PROVE Settled' /\ Incoming'
  <2>1. /\ Showing(snap', first', rows, epoch)
        /\ Upto(snap', first') = since'.seq
        /\ since'.epoch # 0 /\ since'.seq <= LastSeq
        /\ nextBefore' # Null =>
              nextBefore' = At(epoch, first') /\ first' > 1 /\ snap'.cursor # Null
    BY <1>1, <1>6, SeedShows
  <2>2. Run(<<>>, rows, epoch, Upto(snap', first'), since'.seq)
    BY <2>1, NothingRuns
  <2>3. Paging'
    BY <1>1, <1>2, <2>1 DEF Paging
  <2>4. Settled'
    BY <1>1, <1>2, <2>1, <2>2, <2>3 DEF Settled, LastSeq
  <2>5. cur' = s /\ link'[s] = "dialing"
    BY SeedTyped DEF Shown
  <2>. QED BY <2>4, <2>5 DEF Incoming
<1>. QED BY <1>2, <1>4, <1>5, <1>6, PaneShown

\* The pane lets go of its socket, or takes another; it forgets all, or nothing.
LEMMA SocketShown ==
    ASSUME Shown, Typed', Dropped \/ \E s \in Sockets : Reconnect(s)
    PROVE  Shown'
<1>1. UNCHANGED <<hostVars, hubVars, seedVars, since, batch, snap, rendered, resync, answer,
                  nextBefore, older, first, calm>>
  BY DEF Dropped, Reconnect, histVars
<1>2. UNCHANGED <<epoch, rows, held, mode, asked, page>>
  BY <1>1 DEF hostVars, hubVars, seedVars
<1>3. cur' = 0 \/ (mode = "ready" /\ link'[cur'] = "dialing")
  <2>1. ASSUME NEW s \in Sockets, Reconnect(s)
        PROVE  mode = "ready" /\ cur' = s /\ link'[s] = "dialing"
    BY <2>1, ReconnectTyped DEF Shown, Reconnect
  <2>. QED BY <2>1 DEF Dropped
<1>4. Unread'
  <2>1. OnlyEvents(page)' /\ OnlyEvents(answer)' /\ OnlyEvents(older)'
    BY <1>1, <1>2 DEF OnlyEvents, Shown, Unread
  <2>. QED BY <1>1, <1>2, <1>3, <2>1 DEF Shown, Unread
<1>5. Seeding'
  BY <1>1, <1>2 DEF Shown, Seeding, LastSeq
<1>6. ASSUME calm', mode' = "ready" PROVE Settled' /\ Incoming'
  <2>1. Settled
    BY <1>1, <1>2, <1>6 DEF Shown, Following
  <2>2. Settled'
    BY <1>1, <1>2, <2>1 DEF Settled, Paging, LastSeq
  <2>. QED BY <1>3, <2>2 DEF Incoming
<1>. QED BY <1>2, <1>4, <1>5, <1>6, PaneShown

LEMMA UnmountShown ==
    ASSUME Shown, Typed', Unmount
    PROVE  Shown'
<1>1. /\ mode' = "away" /\ page' = NoPage /\ cur' = 0 /\ batch' = <<>> /\ snap' = Empty
      /\ rendered' = "none" /\ resync' = "idle" /\ answer' = NoPage
      /\ nextBefore' = Null /\ older' = NoPage /\ first' = 1 /\ calm' = TRUE
      /\ UNCHANGED <<hostVars, hubVars>>
  BY DEF Unmount
<1>2. UNCHANGED <<rows, held>> /\ OnlyEvents(NoPage)
  BY <1>1 DEF hostVars, hubVars, OnlyEvents, NoPage
<1>3. Unread' /\ Seeding'
  BY <1>1, <1>2 DEF Unread, Seeding, OnlyEvents
<1>. QED BY <1>1, <1>2, <1>3, PaneShown

\* A pane that was told to start over asks for the newest page.
LEMMA ResyncShown ==
    ASSUME Shown, Typed', ServeResync \/ ResyncFails \/ ApplyResync
    PROVE  Shown'
<1>1. /\ resync # "idle"
      /\ UNCHANGED <<hostVars, hubVars, seedVars, cur, batch, rendered, older, calm>>
  BY DEF ServeResync, ResyncFails, ApplyResync, histVars
<1>2. UNCHANGED <<epoch, rows, held, mode, asked, page>> /\ mode = "ready" /\ ~calm
  BY <1>1 DEF hostVars, hubVars, seedVars, Shown, Unread, Following, Settled
<1>3. OnlyEvents(answer')
  <2>1. CASE ServeResync
    <3>1. PICK t : t = LastSeq
      OBVIOUS
    <3>2. Null \in Nexts /\ PageSize \in Nat \ {0} /\ HostInv
      BY Kinds, BoundsAssumption DEF Shown, Typed, HostInv
    <3>3. OnlyEvents(ReadPage(Null, PageSize))
      BY <3>1, <3>2, PageIs
    <3>. QED BY <2>1, <3>3 DEF ServeResync
  <2>2. CASE ResyncFails \/ ApplyResync
    <3>1. answer' = NoPage
      BY <2>2 DEF ResyncFails, ApplyResync
    <3>. QED BY <3>1 DEF OnlyEvents, NoPage
  <2>. QED BY <2>1, <2>2
<1>4. first' \in Nat \ {0}
  <2>1. CASE first' = first \/ first' = 1
    BY <2>1 DEF Shown, Unread
  <2>2. CASE answer.rows # <<>> /\ first' = answer.rows[1].at.seq
    <3>1. answer.rows \in Seq(Frames) /\ minted \in Nat
      BY DEF Shown, Typed, HostInv, PaneInv, Replies
    <3>2. 1 \in DOMAIN answer.rows /\ answer.rows[1] \in Frames
      BY <2>2, <3>1
    <3>3. answer.rows[1].kind = "durable"
      BY <3>2 DEF OnlyEvents, Shown, Unread
    <3>. QED BY <2>2, <3>1, <3>2, <3>3, Kinds DEF Cursors
  <2>. QED BY <2>1, <2>2 DEF ServeResync, ResyncFails, ApplyResync, histVars
<1>5. Unread'
  <2>1. OnlyEvents(page)' /\ OnlyEvents(answer)' /\ OnlyEvents(older)'
    BY <1>1, <1>2, <1>3 DEF OnlyEvents, Shown, Unread
  <2>. QED BY <1>1, <1>2, <1>4, <2>1 DEF Shown, Unread
<1>6. Seeding'
  BY <1>2 DEF Seeding
<1>. QED BY <1>1, <1>2, <1>5, <1>6, PaneShown

LEMMA RenderShown ==
    ASSUME Shown, Typed', Render
    PROVE  Shown'
<1>1. /\ mode = "ready"
      /\ resync' = IF snap.reset # "none" THEN AskResync ELSE resync
      /\ UNCHANGED <<hostVars, hubVars, netVars, seedVars, cur, since, batch, snap, answer,
                     nextBefore, older, first, calm>>
  BY DEF Render, histVars
<1>2. UNCHANGED <<epoch, rows, reg, held, link, wire, mode, asked, page>>
  BY <1>1 DEF hostVars, hubVars, netVars, seedVars
<1>3. Unread'
  <2>1. OnlyEvents(page)' /\ OnlyEvents(answer)' /\ OnlyEvents(older)'
    BY <1>1, <1>2 DEF OnlyEvents, Shown, Unread
  <2>. QED BY <1>1, <1>2, <2>1 DEF Shown, Unread
<1>4. Seeding'
  BY <1>1, <1>2 DEF Seeding
<1>5. ASSUME calm', mode' = "ready" PROVE Settled' /\ Incoming'
  <2>1. Settled /\ Incoming
    BY <1>1, <1>2, <1>5 DEF Shown, Following
  <2>2. resync' = resync
    BY <1>1, <2>1 DEF Settled, Showing
  <2>3. Settled'
    BY <1>1, <1>2, <2>1, <2>2 DEF Settled, Paging, LastSeq
  <2>. QED BY <1>1, <1>2, <2>1, <2>3, StreamStays
<1>. QED BY <1>2, <1>3, <1>4, <1>5, PaneShown

\* An older page is asked for: it ends before the first row.
LEMMA LoadOlderShown ==
    ASSUME Shown, Typed', LoadOlder \/ LoadOlderFails
    PROVE  Shown'
<1>1. /\ nextBefore # Null /\ nextBefore' = Null
      /\ UNCHANGED <<hostVars, hubVars, netVars, seedVars, cur, since, batch, snap,
                     rendered, resync, answer, first, calm>>
  BY DEF LoadOlder, LoadOlderFails, histVars
<1>2. UNCHANGED <<epoch, rows, reg, held, link, wire, mode, asked, page>> /\ mode = "ready"
  BY <1>1 DEF hostVars, hubVars, netVars, seedVars, Shown, Unread
<1>3. /\ nextBefore \in Nexts /\ HostInv /\ PageSize \in Nat \ {0}
      /\ nextBefore.seq \in Nat
  BY BoundsAssumption DEF Shown, Typed, PaneInv, Nexts, Cursors
<1>4. PICK t : t = nextBefore.seq - 1
  OBVIOUS
<1>5. PICK reply :
          /\ reply = ReadPage(nextBefore, PageSize)
          /\ \/ reply.rows = <<>> /\ reply.next = Null /\ (reply.ok => t = 0)
             \/ reply.ok /\ \E f \in Nat : Stretch(reply, f, t, rows, epoch)
          /\ OnlyEvents(reply) /\ reply \in Replies
  <2>1. t = IF nextBefore = Null THEN LastSeq ELSE nextBefore.seq - 1
    BY <1>1, <1>4
  <2>. QED BY <1>3, <2>1, PageIs, ReadPageIs
<1>6. \/ LoadOlderFails /\ older' = older
      \/ older' = IF reply.ok THEN reply ELSE [reply EXCEPT !.next = nextBefore]
  BY <1>5 DEF LoadOlder, LoadOlderFails
<1>7. [reply EXCEPT !.next = nextBefore].rows = reply.rows
      /\ [reply EXCEPT !.next = nextBefore].next = nextBefore
  BY <1>5 DEF Replies
<1>8. Unread'
  <2>1. OnlyEvents(page)' /\ OnlyEvents(answer)'
    BY <1>1, <1>2 DEF OnlyEvents, Shown, Unread
  <2>2. OnlyEvents(older)'
    <3>1. OnlyEvents(older')
      BY <1>5, <1>6, <1>7 DEF OnlyEvents, Shown, Unread
    <3>. QED BY <3>1 DEF OnlyEvents
  <2>. QED BY <1>1, <1>2, <2>1, <2>2 DEF Shown, Unread
<1>9. Seeding'
  BY <1>2 DEF Seeding
<1>10. ASSUME calm', mode' = "ready" PROVE Settled' /\ Incoming'
  <2>1. Settled /\ Incoming /\ first \in Nat
    BY <1>1, <1>2, <1>10 DEF Shown, Following, Unread
  <2>2. /\ nextBefore = At(epoch, first) /\ first > 1 /\ snap.cursor # Null
        /\ nextBefore.seq = first
    BY <1>1, <2>1, DurableIs DEF Settled, Paging
  <2>3. t = first - 1 /\ t # 0 /\ older = NoPage
    BY <1>1, <1>4, <2>1, <2>2 DEF Settled, Paging
  <2>4. older' # NoPage =>
            \/ older'.rows = <<>> /\ older'.next = At(epoch, first)
            \/ \E f \in Nat : Stretch(older', f, first - 1, rows, epoch)
    <3>1. CASE older' = older
      BY <2>3, <3>1
    <3>2. CASE reply.ok /\ older' = reply
      BY <1>5, <2>3, <3>2
    <3>3. CASE ~reply.ok /\ older' = [reply EXCEPT !.next = nextBefore]
      BY <1>5, <1>7, <2>2, <3>3
    <3>. QED BY <1>6, <3>1, <3>2, <3>3
  <2>5. Paging'
    BY <1>1, <1>2, <2>2, <2>4 DEF Paging
  <2>6. Settled'
    BY <1>1, <1>2, <2>1, <2>5 DEF Settled, LastSeq
  <2>. QED BY <1>1, <1>2, <2>1, <2>6, StreamStays
<1>. QED BY <1>2, <1>8, <1>9, <1>10, PaneShown

\* The batch is reduced: the screen ends where the cursor is.
LEMMA CommitShows ==
    ASSUME Shown, Commit, calm, mode = "ready"
    PROVE  /\ Showing(snap', first, rows, epoch) /\ Upto(snap', first) = since.seq
           /\ Upto(snap, first) <= since.seq /\ Upto(snap, first) \in Nat
           /\ snap'.cursor = Null => snap.cursor = Null
<1>1. /\ snap' = ReduceMany(snap, batch) /\ minted \in Nat /\ rows \in Seq(Row)
      /\ snap \in Snapshots /\ batch \in Seq(Frames) /\ first \in Nat /\ first # 0
      /\ since.seq \in Nat
      /\ Showing(snap, first, rows, epoch)
      /\ Run(batch, rows, epoch, Upto(snap, first), since.seq)
  BY DEF Commit, Shown, Typed, HostInv, PaneInv, Unread, Following, Settled, Cursors
<1>2. PICK q \in Nat : q = since.seq
  BY <1>1
<1>3. LET z == ReduceMany(snap, batch)
      IN  /\ Showing(z, first, rows, epoch) /\ Upto(z, first) = q /\ Upto(snap, first) <= q
          /\ z.cursor = Null => snap.cursor = Null /\ Places(batch, "durable") = {}
  BY <1>1, <1>2, RunReduces
<1>4. Upto(snap, first) \in Nat
  BY <1>1, UptoIs
<1>. QED BY <1>1, <1>2, <1>3, <1>4

LEMMA CommitShown ==
    ASSUME Shown, Typed', Commit
    PROVE  Shown'
<1>1. /\ batch # <<>> /\ batch' = <<>>
      /\ UNCHANGED <<hostVars, hubVars, netVars, seedVars, cur, since, rendered, resync,
                     answer, nextBefore, older, first, calm>>
  BY DEF Commit, histVars
<1>2. UNCHANGED <<epoch, rows, reg, held, link, wire, mode, asked, page>> /\ mode = "ready"
  BY <1>1 DEF hostVars, hubVars, netVars, seedVars, Shown, Unread
<1>3. Unread'
  <2>1. OnlyEvents(page)' /\ OnlyEvents(answer)' /\ OnlyEvents(older)'
    BY <1>1, <1>2 DEF OnlyEvents, Shown, Unread
  <2>. QED BY <1>1, <1>2, <2>1 DEF Shown, Unread
<1>4. Seeding'
  BY <1>2 DEF Seeding
<1>5. ASSUME calm', mode' = "ready" PROVE Settled' /\ Incoming'
  <2>1. Settled /\ Incoming
    BY <1>1, <1>2, <1>5 DEF Shown, Following
  <2>2. /\ Showing(snap', first, rows, epoch) /\ Upto(snap', first) = since.seq
        /\ snap'.cursor = Null => snap.cursor = Null
    BY <1>1, <1>2, <1>5, CommitShows
  <2>3. Run(<<>>, rows, epoch, Upto(snap', first), since.seq)
    BY <2>2, NothingRuns
  <2>4. Paging'
    BY <1>1, <1>2, <2>1, <2>2 DEF Settled, Paging
  <2>5. Settled'
    BY <1>1, <1>2, <2>1, <2>2, <2>3, <2>4 DEF Settled, LastSeq
  <2>. QED BY <1>1, <1>2, <2>1, <2>5, StreamStays
<1>. QED BY <1>2, <1>3, <1>4, <1>5, PaneShown

\* An older page fills in what the window lacks: it is the window from its own
\* first row.
LEMMA OlderShows ==
    ASSUME Shown, ApplyOlder, calm, mode = "ready"
    PROVE  /\ first' \in Nat \ {0} /\ first' <= first
           /\ Upto(snap', first') = Upto(snap, first) /\ snap'.cursor = snap.cursor
           /\ snap.cursor # Null
           /\ Showing(snap', first', rows, epoch)
           /\ nextBefore' # Null => nextBefore' = At(epoch, first') /\ first' > 1
<1>. DEFINE old == ReduceMany(Empty, older.rows).items
            is  == [i \in Subjects |-> IF snap.items[i] = 0 /\ i # State
                                       THEN old[i] ELSE snap.items[i]]
            u   == Upto(snap, first)
<1>1. /\ nextBefore' = older.next /\ snap' = [snap EXCEPT !.items = is]
      /\ first' = IF older.rows = <<>> THEN first ELSE older.rows[1].at.seq
      /\ older # NoPage
  BY DEF ApplyOlder
<1>2. /\ minted \in Nat /\ rows \in Seq(Row) /\ snap \in Snapshots /\ older \in Replies
      /\ first \in Nat /\ first # 0 /\ Showing(snap, first, rows, epoch)
      /\ first > 1 /\ snap.cursor # Null
      /\ \/ older.rows = <<>> /\ older.next = At(epoch, first)
         \/ \E f \in Nat : Stretch(older, f, first - 1, rows, epoch)
  BY <1>1 DEF Shown, Typed, HostInv, PaneInv, Unread, Following, Settled, Paging
<1>3. u \in Nat /\ u = snap.cursor.seq /\ first <= u + 1 /\ u <= Len(rows) /\ Len(rows) \in Nat
  BY <1>2, UptoIs DEF Showing, Upto
<1>. HIDE DEF u
<1>4. /\ \A i \in Items : i \in Subjects /\ i # State
      /\ \A i \in Items : snap.items[i] = Newest(rows, i, first, u)
      /\ \A i \in Items : snap.live[i] \subseteq {Newest(rows, i, 1, u)}
  BY <1>2, BoundsAssumption DEF Subjects, Showing, u
<1>. HIDE DEF old
<1>5. /\ snap'.cursor = snap.cursor /\ snap'.reset = snap.reset /\ snap'.live = snap.live
      /\ \A i \in Items : snap'.items[i] = IF snap.items[i] = 0 THEN old[i] ELSE snap.items[i]
  <2>1. /\ snap'.cursor = snap.cursor /\ snap'.reset = snap.reset /\ snap'.live = snap.live
        /\ snap'.items = is
    BY <1>1, <1>2 DEF Snapshots
  <2>. QED BY <1>4, <2>1
<1>6. \A f : Upto(snap', f) = u
  BY <1>2, <1>3, <1>5 DEF Upto
<1>7. ASSUME NEW f \in Nat, 1 <= f, f <= first,
             \A i \in Items : snap'.items[i] = Newest(rows, i, f, u)
      PROVE  Showing(snap', f, rows, epoch)
  BY <1>2, <1>3, <1>4, <1>5, <1>6, <1>7 DEF Showing
<1>8. CASE older.rows = <<>> /\ older.next = At(epoch, first)
  <2>1. \A i \in Items : old[i] = 0
    BY <1>4, <1>8, NothingReduces DEF old, Empty
  <2>2. \A i \in Items : snap'.items[i] = Newest(rows, i, first, u)
    BY <1>4, <1>5, <2>1
  <2>3. Showing(snap', first, rows, epoch)
    BY <1>2, <1>7, <2>2
  <2>. QED BY <1>1, <1>2, <1>5, <1>6, <1>8, <2>3 DEF u
<1>9. ASSUME NEW f \in Nat, Stretch(older, f, first - 1, rows, epoch)
      PROVE  /\ first' = f /\ 1 <= f /\ f < first
             /\ Showing(snap', f, rows, epoch)
             /\ nextBefore' # Null => nextBefore' = At(epoch, f) /\ f > 1
  <2>1. PICK t \in Nat : t = first - 1
    BY <1>2
  <2>2. /\ 1 <= f /\ f <= t /\ Stretch(older, f, t, rows, epoch)
        /\ older.next = IF f > 1 THEN At(epoch, f) ELSE Null
    BY <1>9, <2>1 DEF Stretch
  <2>3. first' = f /\ f < first
    BY <1>1, <1>2, <2>1, <2>2, StretchBegins
  <2>4. \A i \in Items : old[i] = Newest(rows, i, f, t)
    <3>1. LET z == ReduceMany(Empty, older.rows)
          IN  Showing(z, f, rows, epoch) /\ Upto(z, f) = t
      BY <1>2, <2>2, StretchShows
    <3>. QED BY <3>1 DEF Showing, old
  <2>5. \A i \in Items : snap'.items[i] = Newest(rows, i, f, u)
    <3>1. \A i : Newest(rows, i, f, u) =
                    IF Newest(rows, i, first, u) = 0 THEN Newest(rows, i, f, t)
                    ELSE Newest(rows, i, first, u)
      BY <1>2, <1>3, <2>1, <2>2, <2>3, NewestJoins
    <3>. QED BY <1>4, <1>5, <2>4, <3>1
  <2>. QED BY <1>1, <1>2, <1>7, <2>2, <2>3, <2>5
<1>. QED BY <1>2, <1>5, <1>6, <1>8, <1>9 DEF u

LEMMA ApplyOlderShown ==
    ASSUME Shown, Typed', ApplyOlder
    PROVE  Shown'
<1>1. /\ older # NoPage /\ older' = NoPage
      /\ first' = IF older.rows = <<>> THEN first ELSE older.rows[1].at.seq
      /\ UNCHANGED <<hostVars, hubVars, netVars, seedVars, cur, since, batch, rendered,
                     resync, answer, calm>>
  BY DEF ApplyOlder
<1>2. UNCHANGED <<epoch, rows, reg, held, link, wire, mode, asked, page>> /\ mode = "ready"
  BY <1>1 DEF hostVars, hubVars, netVars, seedVars, Shown, Unread
<1>3. first' \in Nat \ {0}
  <2>1. CASE older.rows = <<>>
    BY <1>1, <2>1 DEF Shown, Unread
  <2>2. CASE older.rows # <<>>
    <3>1. older.rows \in Seq(Frames) /\ minted \in Nat
      BY DEF Shown, Typed, HostInv, PaneInv, Replies
    <3>2. 1 \in DOMAIN older.rows /\ older.rows[1] \in Frames
      BY <2>2, <3>1
    <3>3. older.rows[1].kind = "durable"
      BY <3>2 DEF OnlyEvents, Shown, Unread
    <3>. QED BY <1>1, <2>2, <3>1, <3>2, <3>3, Kinds DEF Cursors
  <2>. QED BY <2>1, <2>2
<1>4. Unread'
  <2>1. OnlyEvents(page)' /\ OnlyEvents(answer)' /\ OnlyEvents(older)'
    BY <1>1, <1>2 DEF OnlyEvents, Shown, Unread, NoPage
  <2>. QED BY <1>1, <1>2, <1>3, <2>1 DEF Shown, Unread
<1>5. Seeding'
  BY <1>2 DEF Seeding
<1>6. ASSUME calm', mode' = "ready" PROVE Settled' /\ Incoming'
  <2>1. Settled /\ Incoming
    BY <1>1, <1>2, <1>6 DEF Shown, Following
  <2>2. /\ Upto(snap', first') = Upto(snap, first) /\ snap'.cursor = snap.cursor
        /\ snap.cursor # Null
        /\ Showing(snap', first', rows, epoch)
        /\ nextBefore' # Null => nextBefore' = At(epoch, first') /\ first' > 1
    BY <1>1, <1>2, <1>6, OlderShows
  <2>3. Paging'
    BY <1>1, <1>2, <2>2 DEF Paging
  <2>4. Settled'
    BY <1>1, <1>2, <2>1, <2>2, <2>3 DEF Settled, LastSeq
  <2>. QED BY <1>1, <1>2, <2>1, <2>4, StreamStays
<1>. QED BY <1>2, <1>4, <1>5, <1>6, PaneShown

\* The first frame that arrives, when it is no reset.
LEMMA FirstArrives ==
    ASSUME HostInv, NEW w \in Seq(Frames), w # <<>>, NEW served, NEW b \in Nat,
           Arriving(w, served, rows, epoch, b), w[1].kind # "reset"
    PROVE  /\ Places(w, "reset") = {}
           /\ w[1].kind = "delta" => w[1].ver = Newest(rows, w[1].item, 1, b)
           /\ w[1].kind = "durable" =>
                 /\ w[1].at = At(epoch, b + 1) /\ b + 1 <= Len(rows)
                 /\ w[1] = Durable(epoch, b + 1, rows[b + 1])
<1>1. /\ minted \in Nat /\ Len(rows) \in Nat
      /\ \A k \in Places(w, "reset") : k = 1
      /\ Genuine(w, rows, epoch) /\ (Places(w, "reset") = {} => Text(w, b, rows))
      /\ Sound(w, At(epoch, b), served, At(epoch, Len(rows)))
  BY DEF Arriving, HostInv
<1>2. 1 \in DOMAIN w /\ \A k \in DOMAIN w : k \in Nat /\ k >= 1
  OBVIOUS
<1>3. Places(w, "reset") = {}
  BY <1>1 DEF Places
<1>4. ASSUME w[1].kind = "delta"
      PROVE  w[1].ver = Newest(rows, w[1].item, 1, b)
  <2>1. 1 \in Places(w, "delta")
    BY <1>2, <1>4 DEF Places
  <2>2. Ranks(w, b, 1) = {b}
    <3>1. \A j \in Places(w, "durable") : ~(j < 1)
      BY <1>2 DEF Places
    <3>. QED BY <3>1 DEF Ranks
  <2>. QED BY <1>1, <1>3, <2>1, <2>2 DEF Text
<1>5. ASSUME w[1].kind = "durable"
      PROVE  /\ w[1].at = At(epoch, b + 1) /\ b + 1 <= Len(rows)
             /\ w[1] = Durable(epoch, b + 1, rows[b + 1])
  <2>1. 1 \in Places(w, "durable")
    BY <1>2, <1>5 DEF Places
  <2>2. /\ w[1].at.seq \in 1 .. Len(rows)
        /\ w[1] = Durable(epoch, w[1].at.seq, rows[w[1].at.seq])
    BY <1>1, <2>1 DEF Genuine
  <2>3. w[1].at.epoch = epoch
    BY <1>1, <2>1, GenuineIs
  <2>4. Continues(w, At(epoch, b)) /\ Contiguous(w)
    BY <1>1, <1>3 DEF Sound, From
  <2>5. b < w[1].at.seq /\ b + 1 \in Seqs(w)
    BY <2>1, <2>3, <2>4, DurableIs DEF Continues
  <2>6. PICK k \in Places(w, "durable") : w[k].at.seq = b + 1
    BY <2>5 DEF Seqs
  <2>7. k \in Nat /\ k >= 1
    BY <1>2, <2>6 DEF Places
  <2>8. 1 < k => w[1].at.seq < w[k].at.seq
    BY <2>1, <2>4, <2>6 DEF Contiguous
  <2>9. w[1].at.seq = b + 1
    BY <2>2, <2>5, <2>6, <2>7, <2>8
  <2>. QED BY <2>2, <2>9, DurableIs
<1>. QED BY <1>3, <1>4, <1>5

\* The rest arrives as well.
LEMMA RestArrives ==
    ASSUME HostInv, NEW w \in Seq(Frames), w # <<>>, NEW served \in BOOLEAN, NEW b \in Nat,
           b <= Len(rows), Arriving(w, served, rows, epoch, b), w[1].kind # "reset",
           NEW c, c = IF w[1].kind = "durable" THEN b + 1 ELSE b
    PROVE  Arriving(Tail(w), served, rows, epoch, c)
<1>. DEFINE v == Tail(w)
<1>1. /\ minted \in Nat /\ LastSeq = Len(rows) /\ Len(rows) \in Nat
      /\ At(epoch, b) \in Cursors
      /\ Genuine(w, rows, epoch) /\ (Places(w, "reset") = {} => Text(w, b, rows))
      /\ Sound(w, At(epoch, b), served, At(epoch, Len(rows)))
  <2>1. b \in 0 .. MaxVersion /\ epoch \in 0 .. minted /\ minted \in Nat
    BY BoundsAssumption DEF HostInv, LastSeq
  <2>. QED BY <2>1 DEF Arriving, HostInv, LastSeq, At, Cursors
<1>2. /\ Places(w, "reset") = {}
      /\ w[1].kind = "durable" => w[1].at = At(epoch, b + 1)
  BY FirstArrives
<1>3. w[1] \in Frames /\ w[1].kind \in {"delta", "durable"}
  <2>1. w[1] \in Frames
    OBVIOUS
  <2>. QED BY <1>1, <2>1, Kinds
<1>4. Taken(w[1], At(epoch, b)) = At(epoch, c)
  BY <1>2, <1>3 DEF Taken
<1>5. Sound(v, At(epoch, c), served, At(epoch, Len(rows)))
  <2>1. Sound(w, At(epoch, b), served, At(epoch, LastSeq))
    BY <1>1
  <2>2. PICK d \in Cursors : d = At(epoch, b)
    BY <1>1
  <2>3. Sound(w, d, served, At(epoch, LastSeq))
    BY <2>1, <2>2
  <2>4. Sound(Tail(w), Taken(w[1], d), served, At(epoch, LastSeq))
    BY <2>3, TakingFollows
  <2>. QED BY <1>1, <1>4, <2>2, <2>4
<1>6. Text(v, c, rows)
  <2>1. \A x \in Seqs(w) : x \in Nat
    BY <1>1 DEF Genuine, Seqs
  <2>2. c \in Nat
    OBVIOUS
  <2>3. \/ c = b /\ w[1].kind # "durable"
        \/ w[1].kind = "durable" /\ c = w[1].at.seq /\ b <= c
    BY <1>2, DurableIs
  <2>. QED BY <1>1, <1>2, <2>1, <2>2, <2>3, TextAfterFirst
<1>7. PICK h \in Nat : /\ h >= 1 /\ DOMAIN w = 1 .. h /\ DOMAIN v = 1 .. h - 1
                       /\ \A k \in 1 .. h - 1 : v[k] = w[k + 1]
  <2>1. PICK h \in Nat : h = Len(w) /\ h >= 1 /\ DOMAIN w = 1 .. h
    OBVIOUS
  <2>2. DOMAIN v = 1 .. h - 1 /\ \A k \in 1 .. h - 1 : v[k] = w[k + 1]
    BY <2>1
  <2>. HIDE DEF v
  <2>. QED BY <2>1, <2>2
<1>. HIDE DEF v
<1>8. \A k \in DOMAIN v : k + 1 \in DOMAIN w /\ v[k] = w[k + 1]
  BY <1>7
<1>9. Places(v, "reset") = {} /\ Genuine(v, rows, epoch)
  <2>1. \A k \in Places(v, "reset") : k + 1 \in Places(w, "reset")
    BY <1>8 DEF Places
  <2>2. \A k \in Places(v, "durable") : k + 1 \in Places(w, "durable") /\ v[k] = w[k + 1]
    BY <1>8 DEF Places
  <2>. QED BY <1>1, <1>2, <2>1, <2>2 DEF Genuine
<1>10. Arriving(v, served, rows, epoch, c)
  BY <1>5, <1>6, <1>9 DEF Arriving
<1>. QED BY <1>10 DEF v

LEMMA ReceiveShown ==
    ASSUME Shown, Typed', Receive
    PROVE  Shown'
<1>. DEFINE w == wire[cur]
            e == w[1]
            b == since.seq
<1>1. /\ cur # 0 /\ link[cur] = "up" /\ w # <<>>
      /\ since' = CASE e.kind = "durable" -> e.at
                    [] e.kind = "reset" -> Null
                    [] OTHER -> since
      /\ resync' = IF e.kind = "reset" THEN AskResync ELSE resync
      /\ calm' = (calm /\ e.kind # "reset")
      /\ batch' = Append(batch, e)
      /\ wire' = [wire EXCEPT ![cur] = Tail(@)]
      /\ UNCHANGED <<hostVars, hubVars, link, seedVars, cur, snap, rendered, answer,
                     nextBefore, older, first>>
  BY DEF Receive
<1>2. UNCHANGED <<epoch, rows, reg, held, mode, asked, page>> /\ mode = "ready"
  BY <1>1 DEF hostVars, hubVars, seedVars, Shown, Unread
<1>3. /\ w \in Seq(Frames) /\ e \in Frames /\ HostInv /\ minted \in Nat /\ b \in Nat
      /\ rows \in Seq(Row) /\ cur \in DOMAIN wire /\ batch \in Seq(Frames)
      /\ snap \in Snapshots /\ epoch \in Nat /\ LastSeq = Len(rows) /\ Len(rows) \in Nat
  <2>1. w \in Seq(Frames) /\ cur \in DOMAIN wire
    BY <1>1 DEF Shown, Typed, PaneInv, NetInv
  <2>2. e \in Frames
    BY <1>1, <2>1
  <2>. HIDE DEF w, e
  <2>3. /\ HostInv /\ minted \in Nat /\ b \in Nat /\ rows \in Seq(Row)
        /\ batch \in Seq(Frames) /\ snap \in Snapshots /\ epoch \in Nat
        /\ LastSeq = Len(rows)
    BY DEF Shown, Typed, HostInv, PaneInv, Cursors, LastSeq
  <2>4. Len(rows) \in Nat
    BY <2>3
  <2>. QED BY <2>1, <2>2, <2>3, <2>4
<1>4. wire'[cur] = Tail(w)
  BY <1>1, <1>3
<1>5. Unread'
  <2>1. OnlyEvents(page)' /\ OnlyEvents(answer)' /\ OnlyEvents(older)'
    BY <1>1, <1>2 DEF OnlyEvents, Shown, Unread
  <2>2. calm' \in BOOLEAN
    BY <1>1
  <2>. QED BY <1>1, <1>2, <2>1, <2>2 DEF Shown, Unread
<1>6. Seeding'
  BY <1>2 DEF Seeding
<1>. HIDE DEF w, e, b
<1>7. ASSUME calm', mode' = "ready" PROVE Settled' /\ Incoming'
  <2>1. calm /\ e.kind # "reset" /\ resync' = resync
    BY <1>1, <1>7
  <2>2. /\ Settled /\ first \in Nat /\ first # 0
        /\ Arriving(w, cur \in reg, rows, epoch, b)
    BY <1>1, <1>2, <2>1 DEF Shown, Following, Unread, Incoming, w, b
  <2>3. /\ resync = "idle" /\ since.epoch # 0 /\ b <= Len(rows)
        /\ Showing(snap, first, rows, epoch)
        /\ Run(batch, rows, epoch, Upto(snap, first), b)
        /\ Paging
    BY <1>3, <2>2 DEF Settled, b
  <2>4. PICK u \in Nat : u = Upto(snap, first)
    BY <1>3, <2>2, UptoIs
  <2>5. /\ e.kind = "delta" => e.ver = Newest(rows, e.item, 1, b)
        /\ e.kind = "durable" =>
              /\ e.at = At(epoch, b + 1) /\ b + 1 <= Len(rows)
              /\ e = Durable(epoch, b + 1, rows[b + 1])
    BY <1>1, <1>3, <2>1, <2>2, FirstArrives DEF e
  <2>6. epoch # 0
    BY <1>2 DEF Shown, Unread
  <2>7. PICK c \in Nat : c = IF e.kind = "durable" THEN b + 1 ELSE b
    BY <1>3
  <2>8. Arriving(Tail(w), cur \in reg, rows, epoch, c)
    <3>1. CASE cur \in reg
      <4>1. Arriving(w, TRUE, rows, epoch, b)
        BY <2>2, <3>1 DEF Arriving, Sound
      <4>2. Arriving(Tail(w), TRUE, rows, epoch, c)
        BY <1>1, <1>3, <2>1, <2>3, <2>7, <4>1, RestArrives DEF e
      <4>. QED BY <3>1, <4>2 DEF Arriving, Sound
    <3>2. CASE cur \notin reg
      <4>1. Arriving(w, FALSE, rows, epoch, b)
        BY <2>2 DEF Arriving, Sound
      <4>2. Arriving(Tail(w), FALSE, rows, epoch, c)
        BY <1>1, <1>3, <2>1, <2>3, <2>7, <4>1, RestArrives DEF e
      <4>. QED BY <3>2, <4>2 DEF Arriving, Sound
    <3>. QED BY <3>1, <3>2
  <2>9. /\ since'.seq = c /\ since'.epoch # 0 /\ c <= Len(rows)
        /\ Run(batch', rows, epoch, u, c)
    <3>1. CASE e.kind = "delta"
      <4>1. since' = since /\ c = b
        BY <1>1, <2>7, <3>1
      <4>2. Run(Append(batch, e), rows, epoch, u, b)
        BY <1>3, <2>3, <2>4, <2>5, <3>1, RunText
      <4>. QED BY <1>1, <2>3, <4>1, <4>2 DEF b
    <3>2. CASE e.kind = "durable"
      <4>1. since' = e.at /\ c = b + 1
        BY <1>1, <2>7, <3>2
      <4>2. Run(Append(batch, e), rows, epoch, u, b + 1)
        BY <1>3, <2>3, <2>4, <2>5, <2>6, <3>2, RunEvent
      <4>. QED BY <1>1, <2>5, <2>6, <3>2, <4>1, <4>2, DurableIs
    <3>. QED BY <1>3, <2>1, <3>1, <3>2, Kinds
  <2>10. Paging'
    BY <1>1, <1>2, <2>3 DEF Paging
  <2>11. Settled'
    BY <1>1, <1>2, <1>3, <2>1, <2>3, <2>4, <2>9, <2>10 DEF Settled, LastSeq
  <2>12. Incoming'
    BY <1>1, <1>2, <1>4, <2>8, <2>9 DEF Incoming
  <2>. QED BY <2>11, <2>12
<1>. QED BY <1>2, <1>5, <1>6, <1>7, PaneShown

-----------------------------------------------------------------------------
(* The pane shows a window of the journal, and text for its newest versions. *)

LEMMA ShownInit == Init => Shown
<1>. SUFFICES ASSUME Init PROVE Shown
  OBVIOUS
<1>1. Typed
  BY TypedInit
<1>2. Unread
  BY DEF Init, Unread, OnlyEvents, NoPage
<1>3. Seeding /\ Pending /\ Following
  BY DEF Init, Seeding, Pending, Following
<1>. QED BY <1>1, <1>2, <1>3 DEF Shown

LEMMA ShownStep == Shown /\ [Next]_vars => Shown'
<1>. SUFFICES ASSUME Shown, [Next]_vars PROVE Shown'
  OBVIOUS
<1>1. Typed'
  BY TypedStep DEF Shown
<1>2. CASE UNCHANGED vars
  <2>1. UNCHANGED <<rows, epoch, held, link, wire, reg, seedVars, paneVars, first, calm>>
    BY <1>2 DEF vars, hostVars, hubVars, netVars, histVars
  <2>2. Pending'
    BY <2>1 DEF Shown, Pending, LastSeq
  <2>. QED BY <1>1, <2>1, <2>2, QuietShown
<1>3. CASE HostSteps
  <2>1. CASE OpenSession \/ \E i \in Subjects : AppendEvent(i)
    BY <1>1, <2>1, EventShown
  <2>2. CASE OpenVoid \/ FlushDeltas \/ RestartWithoutJournal
    BY <1>1, <2>2, OpenVoidShown, FlushShown, LossShown
  <2>3. CASE \E i \in Items : PublishDelta(i)
    BY <1>1, <2>3, PublishDeltaShown
  <2>4. CASE \E s \in Sockets : Subscribe(s)
    BY <1>1, <2>4, SubscribeShown
  <2>5. CASE \/ HostCrash \/ HostRestart \/ \E k \in 1 .. LastSeq : RestartWithBadRow(k)
             \/ \E s \in Sockets : Unsubscribe(s)
    BY <1>1, <2>5, HostGoneShown
  <2>6. CASE ServeSession \/ ServeItems
    BY <1>1, <2>6, SeedsShown
  <2>7. CASE ServeResync
    BY <1>1, <2>7, ResyncShown
  <2>. QED BY <1>3, <2>1, <2>2, <2>3, <2>4, <2>5, <2>6, <2>7 DEF HostSteps
<1>4. CASE PaneSteps
  <2>1. CASE Mount \/ SeedFails
    BY <1>1, <2>1, SeedsShown
  <2>2. CASE \E s \in Sockets : Seed(s)
    BY <1>1, <2>2, SeedShown
  <2>3. CASE Dropped \/ \E s \in Sockets : Reconnect(s)
    BY <1>1, <2>3, SocketShown
  <2>4. CASE Unmount \/ Receive \/ Commit \/ Render
    BY <1>1, <2>4, UnmountShown, ReceiveShown, CommitShown, RenderShown
  <2>5. CASE ResyncFails \/ ApplyResync
    BY <1>1, <2>5, ResyncShown
  <2>6. CASE LoadOlder \/ LoadOlderFails \/ ApplyOlder
    BY <1>1, <2>6, LoadOlderShown, ApplyOlderShown
  <2>. QED BY <1>4, <2>1, <2>2, <2>3, <2>4, <2>5, <2>6 DEF PaneSteps
<1>. QED BY <1>2, <1>3, <1>4 DEF Next

LEMMA ShownHolds == Spec => []Shown
<1>1. Init => Shown
  BY ShownInit
<1>2. Shown /\ [Next]_vars => Shown'
  BY ShownStep
<1>. QED BY <1>1, <1>2, PTL DEF Spec

LEMMA ReachedIs ==
    ASSUME Shown
    PROVE  Reached = Upto(snap, first) /\ Reached \in Nat
<1>1. minted \in Nat /\ snap \in Snapshots /\ first \in Nat /\ first # 0
  BY DEF Shown, Typed, HostInv, PaneInv, Unread
<1>2. Reached = Upto(snap, first)
  BY DEF Reached, Upto
<1>. QED BY <1>1, <1>2, UptoIs

LEMMA ShownText == Shown => LiveTextExtendsLatest
<1>. SUFFICES ASSUME Shown, calm, mode = "ready", NEW i \in Items
              PROVE  snap.live[i] \subseteq {Latest(i, Reached)}
  BY DEF LiveTextExtendsLatest
<1>1. snap.live[i] \subseteq {Newest(rows, i, 1, Reached)}
  BY ReachedIs DEF Shown, Following, Settled, Showing
<1>2. Latest(i, Reached) = Newest(rows, i, 1, Reached)
  BY ReachedIs, NewestIsLatest DEF Shown, Typed
<1>. QED BY <1>1, <1>2

\* Text that streams into an item continues the version the pane has of it:
\* publish() flushes the held deltas before the event that supersedes them, and
\* the reducer drops an item's text when its event arrives.
THEOREM TextContinues == Spec => []LiveTextExtendsLatest
BY ShownHolds, ShownText, PTL

-----------------------------------------------------------------------------
(* The pane implements ChatLog, step by step. *)

\* What the refinement needs of a state.
OnScreen ==
    /\ first \in Nat /\ Reached \in Nat /\ snap.items \in [Subjects -> 0 .. MaxVersion]
    /\ calm /\ mode = "ready" =>
          /\ 1 <= first /\ first <= Reached + 1 /\ Reached <= Len(rows)
          /\ \A i \in Items : snap.items[i] = Newest(rows, i, first, Reached)

LEMMA ShownOnScreen == Shown => OnScreen
<1>. SUFFICES ASSUME Shown PROVE OnScreen
  OBVIOUS
<1>1. first \in Nat /\ Reached \in Nat /\ Reached = Upto(snap, first)
  BY ReachedIs DEF Shown, Unread
<1>2. snap.items \in [Subjects -> 0 .. MaxVersion]
  BY DEF Shown, Typed, PaneInv, Snapshots
<1>. QED BY <1>1, <1>2 DEF Shown, Following, Settled, Showing, OnScreen

LEMMA ShownOnScreenNext == Shown' => OnScreen'
BY ShownOnScreen, PTL

\* What the pane shows is always something the log's reader may show.
LEMMA AnywhereNext ==
    ASSUME OnScreen'
    PROVE  Log!Anywhere
<1>1. first' \in Nat /\ Reached' \in Nat /\ snap'.items \in [Subjects -> 0 .. MaxVersion]
  BY DEF OnScreen
<1>2. \A i \in Items : snap'.items[i] \in 1 .. MaxVersion \cup {0}
  BY <1>1, BoundsAssumption DEF Subjects
<1>. QED BY <1>1, <1>2 DEF Log!Anywhere

\* A pane that follows shows a window of the log.
LEMMA ShowsNext ==
    ASSUME OnScreen', calm', mode' = "ready", rows' = rows
    PROVE  /\ Log!Shows(first', Reached')
           /\ 1 <= first' /\ first' <= Reached' + 1 /\ Reached' <= Len(rows)
           /\ first' \in Nat /\ Reached' \in Nat
<1>1. /\ first' \in Nat /\ Reached' \in Nat
      /\ 1 <= first' /\ first' <= Reached' + 1 /\ Reached' <= Len(rows)
      /\ \A i \in Items : snap'.items[i] = Newest(rows, i, first', Reached')
  BY DEF OnScreen
<1>2. [i \in Items |-> snap'.items[i]] = [i \in Items |-> Log!VersionOf(rows, i, first', Reached')]
  BY <1>1, NewestIsVersion
<1>. QED BY <1>1, <1>2 DEF Log!Shows, Log!Screen

\* A window the pane shows, by its ends.
LEMMA ShowsWindow ==
    ASSUME OnScreen', calm', mode' = "ready", rows' = rows,
           NEW f, NEW t, f = first', t = Reached'
    PROVE  Log!Shows(f, t) /\ 1 <= f /\ f <= t + 1 /\ t <= Len(rows)
<1>1. /\ first' = f /\ Reached' = t /\ 1 <= f /\ f <= t + 1 /\ t <= Len(rows)
      /\ [i \in Items |-> snap'.items[i]] = Log!Screen(rows, f, t)
  <2>1. [i \in Items |-> snap'.items[i]] = Log!Screen(rows, first', Reached')
    BY ShowsNext DEF Log!Shows
  <2>. QED BY <2>1, ShowsNext
<1>. QED BY <1>1 DEF Log!Shows

\* Steps the log's reader does not see.
LEMMA StutterMaps ==
    ASSUME UNCHANGED <<rows, snap>>,
           \/ UNCHANGED <<mode, calm, first>>
           \/ mode # "ready" /\ mode' # "ready"
    PROVE  UNCHANGED Log!vars
<1>1. CASE UNCHANGED <<mode, calm, first>>
  <2>1. UNCHANGED Reached
    BY <1>1 DEF Reached
  <2>. QED BY <1>1, <2>1 DEF Log!vars
<1>2. CASE mode # "ready" /\ mode' # "ready"
  BY <1>2 DEF Log!vars
<1>. QED BY <1>1, <1>2

LEMMA QuietMaps ==
    ASSUME Shown,
           \/ OpenVoid \/ FlushDeltas \/ HostCrash \/ HostRestart \/ ServeResync
           \/ \E i \in Items : PublishDelta(i)
           \/ \E s \in Sockets : Subscribe(s) \/ Unsubscribe(s) \/ Reconnect(s)
           \/ \E k \in 1 .. LastSeq : RestartWithBadRow(k)
           \/ Mount \/ ServeSession \/ ServeItems \/ SeedFails
           \/ Dropped \/ Render \/ ResyncFails \/ LoadOlder \/ LoadOlderFails
    PROVE  UNCHANGED Log!vars
<1>1. CASE OpenVoid \/ FlushDeltas \/ HostCrash \/ HostRestart \/ ServeResync
  BY <1>1, StutterMaps DEF OpenVoid, FlushDeltas, HostCrash, HostRestart, ServeResync,
     hostVars, seedVars, paneVars, histVars
<1>2. CASE \/ \E i \in Items : PublishDelta(i)
           \/ \E k \in 1 .. LastSeq : RestartWithBadRow(k)
  BY <1>2, StutterMaps DEF PublishDelta, RestartWithBadRow, hostVars, seedVars, paneVars,
     histVars
<1>3. ASSUME NEW s \in Sockets, Subscribe(s) \/ Unsubscribe(s) \/ Reconnect(s)
      PROVE  UNCHANGED Log!vars
  <2>1. UNCHANGED <<rows, snap, mode, calm, first>>
    BY <1>3 DEF Subscribe, Unsubscribe, Reconnect, hostVars, seedVars, paneVars, histVars
  <2>. QED BY <2>1, StutterMaps
<1>4. CASE Mount \/ ServeSession \/ ServeItems \/ SeedFails
  <2>1. mode # "ready" /\ mode' # "ready" /\ UNCHANGED <<rows, snap>>
    BY <1>4 DEF Mount, ServeSession, ServeItems, SeedFails, hostVars, paneVars
  <2>. QED BY <2>1, StutterMaps
<1>5. CASE Dropped \/ Render \/ ResyncFails \/ LoadOlder \/ LoadOlderFails
  <2>1. UNCHANGED <<rows, snap, mode, calm, first>>
    BY <1>5 DEF Dropped, Render, ResyncFails, LoadOlder, LoadOlderFails, hostVars, seedVars,
       histVars
  <2>. QED BY <2>1, StutterMaps
<1>. QED BY <1>1, <1>2, <1>3, <1>4, <1>5

\* The journal's next event is written to the log.
LEMMA EventMaps ==
    ASSUME Shown, OpenSession \/ \E i \in Subjects : AppendEvent(i)
    PROVE  Log!Write
<1>1. PICK i \in Subjects :
          /\ AppendEnvelope(epoch', i)
          /\ UNCHANGED <<seedVars, paneVars, first, calm>>
  <2>1. CASE OpenSession
    BY <2>1 DEF OpenSession, Subjects
  <2>2. ASSUME NEW i \in Subjects, AppendEvent(i)
        PROVE  AppendEnvelope(epoch', i) /\ UNCHANGED <<seedVars, paneVars, first, calm>>
    BY <2>2 DEF AppendEvent
  <2>. QED BY <2>1, <2>2
<1>2. UNCHANGED <<mode, snap, first, calm>>
  BY <1>1 DEF seedVars, paneVars
<1>3. \E e \in [item : Items \cup {State}, ver : 1 .. MaxVersion] : rows' = Append(rows, e)
  <2>1. version \in 0 .. MaxVersion /\ version < MaxVersion /\ MaxVersion \in Nat
    BY <1>1, BoundsAssumption DEF AppendEnvelope, Shown, Typed, HostInv
  <2>2. version + 1 \in 1 .. MaxVersion
    BY <2>1
  <2>3. rows' = Append(rows, [item |-> i, ver |-> version + 1])
    BY <1>1 DEF AppendEnvelope
  <2>. QED BY <2>2, <2>3 DEF Subjects
<1>4. UNCHANGED Reached
  BY <1>2 DEF Reached
<1>. QED BY <1>2, <1>3, <1>4 DEF Log!Write

LEMMA LossMaps ==
    ASSUME Shown, OnScreen', RestartWithoutJournal
    PROVE  Log!Upset
<1>1. rows' = <<>> /\ calm' = (mode = "away") /\ UNCHANGED <<mode, snap, first>>
  BY DEF RestartWithoutJournal, seedVars, paneVars
<1>2. Log!Anywhere
  BY AnywhereNext
<1>3. UNCHANGED Reached
  BY <1>1 DEF Reached
<1>. QED BY <1>1, <1>2, <1>3 DEF Log!Upset

LEMMA SeedMaps ==
    ASSUME Shown, OnScreen', NEW s \in Sockets, Seed(s)
    PROVE  Log!Next
<1>1. /\ mode = "seeding" /\ mode' = "ready" /\ calm' = calm /\ rows' = rows
  BY DEF Seed, hostVars
<1>2. CASE calm
  <2>1. first' \in Nat /\ Reached' \in Nat
    BY <1>1, <1>2, ShowsNext
  <2>2. Len(rows) \in Nat
    BY DEF Shown, Typed, HostInv
  <2>3. PICK n \in Nat, f \in Nat, t \in Nat : n = Len(rows) /\ f = first' /\ t = Reached'
    BY <2>1, <2>2
  <2>4. Log!Shows(f, t) /\ 1 <= f /\ f <= t + 1 /\ t <= n
    BY <1>1, <1>2, <2>3, ShowsWindow
  <2>5. f \in 1 .. n + 1 /\ t \in f - 1 .. n
    BY <2>4
  <2>6. \E x \in 1 .. Len(rows) + 1 : \E y \in x - 1 .. Len(rows) : Log!Shows(x, y)
    BY <2>3, <2>4, <2>5
  <2>7. Log!Join
    BY <1>1, <1>2, <2>6 DEF Log!Join
  <2>. QED BY <2>7 DEF Log!Next
<1>3. CASE ~calm
  BY <1>1, <1>3, AnywhereNext DEF Log!Drift, Log!Next
<1>. QED BY <1>2, <1>3

LEMMA UnmountMaps ==
    ASSUME Unmount
    PROVE  Log!Leave
<1>1. mode' = "away" /\ snap' = Empty /\ rows' = rows
  BY DEF Unmount, hostVars
<1>2. \A i \in Items : Empty.items[i] = 0
  BY DEF Empty, Subjects
<1>. QED BY <1>1, <1>2 DEF Log!Leave

\* A reset is what upsets the reader.
LEMMA ReceiveMaps ==
    ASSUME Shown, OnScreen', Receive
    PROVE  Log!Next \/ UNCHANGED Log!vars
<1>1. /\ cur # 0 /\ calm' \in {calm, FALSE} /\ UNCHANGED <<rows, snap, mode, first>>
  BY DEF Receive, hostVars, seedVars, Shown, Unread
<1>2. mode = "ready"
  BY <1>1 DEF Shown, Unread
<1>3. CASE calm' = calm
  BY <1>1, <1>3, StutterMaps
<1>4. CASE calm' = FALSE
  BY <1>1, <1>2, <1>4, AnywhereNext DEF Log!Upset, Log!Next
<1>. QED BY <1>1, <1>3, <1>4

\* The batch, or an older page, moves an end of the window.
LEMMA CommitMaps ==
    ASSUME Shown, OnScreen, OnScreen', Commit
    PROVE  Log!Next \/ UNCHANGED Log!vars
<1>1. batch # <<>> /\ UNCHANGED <<rows, mode, first, calm>> /\ mode = "ready"
  BY DEF Commit, hostVars, seedVars, histVars, Shown, Unread
<1>2. CASE calm
  <2>1. Reached' <= Len(rows) /\ Reached' \in Nat
    BY <1>1, <1>2, ShowsNext
  <2>2. Reached \in Nat /\ Len(rows) \in Nat /\ Reached <= Reached'
    <3>1. Upto(snap', first) = since.seq /\ Upto(snap, first) <= since.seq
      BY <1>1, <1>2, CommitShows
    <3>2. Reached = Upto(snap, first) /\ Reached' = Upto(snap', first)
      BY <1>1 DEF Reached, Upto
    <3>. QED BY <3>1, <3>2 DEF OnScreen, Shown, Typed, HostInv
  <2>3. CASE Reached' = Reached
    <3>1. \A i \in Items : snap'.items[i] = snap.items[i]
      BY <1>1, <1>2, <2>3 DEF OnScreen
    <3>. QED BY <1>1, <2>3, <3>1 DEF Log!vars
  <2>4. CASE Reached' # Reached
    <3>1. PICK n \in Nat, r \in Nat, t \in Nat : n = Len(rows) /\ r = Reached /\ t = Reached'
      BY <2>1, <2>2
    <3>2. t \in r + 1 .. n
      BY <2>1, <2>2, <2>4, <3>1
    <3>3. Log!Shows(first, t)
      BY <1>1, <1>2, <3>1, ShowsWindow
    <3>4. \E x \in Reached + 1 .. Len(rows) : Log!Shows(first, x)
      BY <3>1, <3>2, <3>3
    <3>5. Log!Advance
      BY <1>1, <1>2, <3>4 DEF Log!Advance
    <3>. QED BY <3>5 DEF Log!Next
  <2>. QED BY <2>3, <2>4
<1>3. CASE ~calm
  BY <1>1, <1>3, AnywhereNext DEF Log!Drift, Log!Next
<1>. QED BY <1>2, <1>3

LEMMA ApplyOlderMaps ==
    ASSUME Shown, OnScreen, OnScreen', ApplyOlder
    PROVE  Log!Next \/ UNCHANGED Log!vars
<1>1. older # NoPage /\ UNCHANGED <<rows, mode, calm>> /\ mode = "ready"
  BY DEF ApplyOlder, hostVars, seedVars, Shown, Unread
<1>2. CASE calm
  <2>1. 1 <= first' /\ first' \in Nat
    BY <1>1, <1>2, ShowsNext
  <2>2. /\ Reached' = Reached /\ Reached \in Nat
        /\ first' <= first /\ first \in Nat
    <3>1. first' <= first /\ snap'.cursor = snap.cursor /\ snap.cursor # Null
      BY <1>1, <1>2, OlderShows
    <3>. QED BY <3>1 DEF Reached, OnScreen
  <2>3. CASE first' = first
    <3>1. \A i \in Items : snap'.items[i] = snap.items[i]
      BY <1>1, <1>2, <2>2, <2>3 DEF OnScreen
    <3>. QED BY <1>1, <2>2, <2>3, <3>1 DEF Log!vars
  <2>4. CASE first' # first
    <3>1. PICK f \in Nat, t \in Nat : f = first' /\ t = Reached /\ t = Reached'
      BY <2>1, <2>2
    <3>2. f \in 1 .. first - 1
      BY <2>1, <2>2, <2>4, <3>1
    <3>3. Log!Shows(f, t)
      BY <1>1, <1>2, <3>1, ShowsWindow
    <3>4. \E x \in 1 .. (IF mode = "ready" THEN first ELSE 1) - 1 :
             Log!Shows(x, IF mode = "ready" THEN Reached ELSE 0)
      <4>1. Log!Shows(f, IF mode = "ready" THEN Reached ELSE 0)
        BY <1>1, <3>1, <3>3 DEF Log!Shows
      <4>. QED BY <1>1, <3>2, <4>1
    <3>5. Log!PageBack
      BY <1>1, <1>2, <3>4 DEF Log!PageBack
    <3>. QED BY <3>5 DEF Log!Next
  <2>. QED BY <2>3, <2>4
<1>3. CASE ~calm
  BY <1>1, <1>3, AnywhereNext DEF Log!Drift, Log!Next
<1>. QED BY <1>2, <1>3

LEMMA ApplyResyncMaps ==
    ASSUME Shown, OnScreen', ApplyResync
    PROVE  Log!Next
<1>1. /\ resync # "idle" /\ UNCHANGED <<rows, mode, calm>>
  BY DEF ApplyResync, hostVars, seedVars
<1>2. mode = "ready" /\ ~calm
  BY <1>1 DEF Shown, Unread, Following, Settled
<1>. QED BY <1>1, <1>2, AnywhereNext DEF Log!Drift, Log!Next

LEMMA StepMaps == Shown /\ Shown' /\ [Next]_vars => [Log!Next]_(Log!vars)
<1>. SUFFICES ASSUME Shown, Shown', [Next]_vars PROVE Log!Next \/ UNCHANGED Log!vars
  OBVIOUS
<1>1. OnScreen /\ OnScreen'
  BY ShownOnScreen, ShownOnScreenNext
<1>2. CASE UNCHANGED vars
  BY <1>2, StutterMaps DEF vars, hostVars, seedVars, paneVars, histVars
<1>3. CASE OpenSession \/ \E i \in Subjects : AppendEvent(i)
  BY <1>3, EventMaps DEF Log!Next
<1>4. CASE RestartWithoutJournal
  BY <1>1, <1>4, LossMaps DEF Log!Next
<1>5. CASE \/ OpenVoid \/ FlushDeltas \/ HostCrash \/ HostRestart \/ ServeResync
           \/ \E i \in Items : PublishDelta(i)
           \/ \E s \in Sockets : Subscribe(s) \/ Unsubscribe(s) \/ Reconnect(s)
           \/ \E k \in 1 .. LastSeq : RestartWithBadRow(k)
           \/ Mount \/ ServeSession \/ ServeItems \/ SeedFails
           \/ Dropped \/ Render \/ ResyncFails \/ LoadOlder \/ LoadOlderFails
  BY <1>5, QuietMaps
<1>6. CASE \E s \in Sockets : Seed(s)
  BY <1>1, <1>6, SeedMaps
<1>7. CASE Unmount
  BY <1>7, UnmountMaps DEF Log!Next
<1>8. CASE Receive \/ Commit \/ ApplyOlder \/ ApplyResync
  BY <1>1, <1>8, ReceiveMaps, CommitMaps, ApplyOlderMaps, ApplyResyncMaps
<1>. QED BY <1>2, <1>3, <1>4, <1>5, <1>6, <1>7, <1>8 DEF Next, HostSteps, PaneSteps

LEMMA InitMaps == Init => Log!Init
<1>. SUFFICES ASSUME Init PROVE Log!Init
  OBVIOUS
<1>1. rows = <<>> /\ mode = "away" /\ snap = Empty
  BY DEF Init
<1>2. \A i \in Items : Log!VersionOf(<<>>, i, 1, 0) = 0
  BY DEF Log!VersionOf
<1>3. \A i \in Items : Empty.items[i] = 0
  BY DEF Empty, Subjects
<1>. QED BY <1>1, <1>2, <1>3 DEF Log!Init, Log!Screen

\* Through drops, reconnects, frame batches and paging, the pane shows one
\* window of the journal that never moves back, until a reset: every step of
\* the host and the pane is a step of ChatLog, or none.
THEOREM ImplementsChatLog == Spec => ShowsOneWindow
<1>1. Init => Log!Init
  BY InitMaps
<1>2. Shown /\ Shown' /\ [Next]_vars => [Log!Next]_(Log!vars)
  BY StepMaps
<1>. QED BY <1>1, <1>2, ShownHolds, PTL DEF Spec, ShowsOneWindow, Log!Spec
=============================================================================

------------------------ MODULE TerminalStreamProofs ------------------------
(* Proofs about TerminalStream, for any panes, rings and lengths of the        *)
(* stream and any number of upsets: no pane paints a chunk a second time or    *)
(* out of order.                                                               *)
(*                                                                             *)
(* The argument: what a pane on an attached socket has painted, followed by    *)
(* the frames on their way to it, is one thread through the stream that ends   *)
(* where its session object does (Threaded); so what it joins by counts        *)
(* positions of that object, and an anchor is never behind its screen          *)
(* (Anchored).  Where a pane joins at the head of an object, everything any    *)
(* pane has painted lies before it (Bounded).  What the coalescer drops or     *)
(* xterm refuses only takes chunks off a screen (Trimmed), and no more of them *)
(* than wait there (Queued): the thread keeps its order, and its counts.       *)
EXTENDS TerminalStream, SequenceTheorems, TLAPS

Below(s, n) == \A i \in 1 .. Len(s) : s[i] <= n
Rising(s)   == \A i, j \in 1 .. Len(s) : i < j => s[i] < s[j]

\* Every position after `from` up to `to` is in the buffer or was lost.
Full(buf, lost, from, to) ==
    \A p \in from + 1 .. to : p \in lost \/ \E i \in 1 .. Len(buf) : buf[i] = p

End(e)      == sess[e].base + sess[e].hi
Joins       == {"exact", "tail", "reanchor"}

\* The parts of the inductive invariant.
Anchors  == [e : Nat, n : Nat]
Frames   == [k : Joins \cup {"attached", "bytes", "exit"}, e : Nat, n : Nat, ps : Seq(Nat)]
Sessions == [base : Nat, lo : Nat, hi : Nat, on : BOOLEAN, settled : BOOLEAN,
             exited : BOOLEAN, nudge : BOOLEAN]
Asks     == [k : {"anchor", "none", "new"}, e : Nat, n : Nat]
Ends     == [st : {"none", "adopting", "respawning", "settling", "attached"},
             id : Nat, ask : Asks]
Joined   == [at : Nat, lost : SUBSET Nat]
Runtimes == [st : {"none", "parked", "mounted"}, screen : Seq(Nat), pend : Nat,
             anchor : Anchors, join : Joined, counting : BOOLEAN, ever : BOOLEAN, since : BOOLEAN,
             got : BOOLEAN, had : BOOLEAN, ended : BOOLEAN, owed : BOOLEAN]
Stores   == [buf : Seq(Nat), anchor : Anchors, join : Joined]

Shaped ==
    /\ out \in Nat /\ made \in Epochs /\ current \in 0 .. made
    /\ shell \in [st : {"alive", "exited", "lost"}, from : Nat]
    /\ wire \in [st : {"none", "asked", "on", "void"}, at : Nat, ring : Nat]
    /\ sess \in [Epochs -> Sessions]
    /\ ws \in [Panes -> Ends]
    /\ chan \in [Panes -> Seq(Frames)]
    /\ pane \in [Panes -> Runtimes]
    /\ stored \in Stores

\* Session objects and the subscription that feeds them: those the client calls
\* back, what is counted, and what has reached them.
Called ==
    /\ \A e \in Epochs : sess[e].on => e <= made /\ wire.st # "none"
    /\ wire.st # "none" => \E e \in Epochs : sess[e].on
    /\ current # 0 => sess[current].on

Counted ==
    /\ shell.st = "lost" => wire.st = "none"
    /\ shell.from <= out /\ wire.at <= out /\ wire.ring <= out
    /\ \A e \in Epochs : End(e) <= out /\ sess[e].lo <= sess[e].hi

Fed ==
    \A e \in Epochs : sess[e].on =>
        /\ wire.st \in {"asked", "void"} => sess[e].hi = 0
        /\ wire.st = "on" => End(e) = wire.at /\ (wire.at < wire.ring => sess[e].hi = 0)
        /\ wire.st = "asked" /\ shell.st = "alive" /\ sess[e].settled =>
              sess[e].base <= shell.from
        /\ sess[e].exited => wire.st = "on" /\ wire.at >= wire.ring

Wired == Called /\ Counted /\ Fed

\* Where sockets are.
Placed ==
    \A v \in Panes :
        /\ ws[v].id <= made
        /\ ws[v].st \in {"settling", "attached"} => ws[v].id # 0
        /\ ws[v].st = "attached" => sess[ws[v].id].settled
        /\ ws[v].st # "none" => pane[v].st # "none"
        /\ ws[v].st # "attached" => ~pane[v].counting

\* Everything painted, persisted, under way, or counted by those cut off.
AllBelow(n) ==
    /\ \A v \in Panes : /\ Below(pane[v].screen, n)
                        /\ \A k \in 1 .. Len(chan[v]) : Below(chan[v][k].ps, n)
    /\ Below(stored.buf, n)
    /\ \A e \in Epochs : ~sess[e].on => End(e) <= n

\* Where somebody may join the stream, now or after what is on the wire.
Frontier(n) ==
    \/ n = out
    \/ wire.st = "on" /\ n = Larger(wire.at, wire.ring)
    \/ \E e \in Epochs : /\ sess[e].on /\ n = End(e)
                         /\ sess[e].settled \/ wire.st \in {"asked", "void"}

Bounded ==
    /\ \A n \in Nat : Frontier(n) => AllBelow(n)
    /\ \A v \in Panes : ws[v].st = "settling" /\ ~sess[ws[v].id].on =>
          Below(pane[v].screen, End(ws[v].id))

\* Anchors, and what a pane asks for by them.
Reached(screen, anchor, last, s) ==
    anchor.e # 0 => /\ anchor.e <= last /\ s[anchor.e].settled
                    /\ Below(screen, s[anchor.e].base + anchor.n)

Asking(p, w) ==
    w.st \in {"adopting", "respawning", "settling"} =>
        /\ w.ask.k = "anchor" => w.ask.e = p.anchor.e /\ w.ask.n = p.anchor.n /\ p.anchor.e # 0
        /\ w.ask.k = "new" => p.screen = <<>>

Anchored ==
    /\ \A v \in Panes : /\ Reached(pane[v].screen, pane[v].anchor, made, sess)
                        /\ pane[v].screen # <<>> => pane[v].had \/ pane[v].got
                        /\ Asking(pane[v], ws[v])
    /\ Reached(stored.buf, stored.anchor, made, sess)

\* c: the position a pane p has come to before each of the frames under way.
Climbs(c, n) == \A i, j \in 0 .. n : i <= j => c[i] <= c[j]

Carries(f, from, to, e, s) ==
    /\ f.ps = Stretch(from, to)
    /\ f.k # "bytes" => to = from
    /\ f.k \in Joins => f.e = e /\ to = s.base + f.n

Ordered(q) ==
    \A k \in 1 .. Len(q) :
        /\ q[k].k \in Joins => \A j \in 1 .. k - 1 : q[j].k = "attached"
        /\ q[k].k = "attached" => k = 1 /\ Len(q) >= 2 /\ q[2].k \in Joins

\* A pane that counts knows where it is, and one that does not is told next.
Knows(q, at, p, e, s) ==
    /\ p.counting => /\ p.anchor.e = e /\ at = s.base + p.anchor.n
                     /\ \A k \in 1 .. Len(q) : q[k].k \in {"bytes", "exit"}
    /\ ~p.counting => Len(q) > 0 /\ q[1].k \in Joins \cup {"attached"}

Thread(q, c, p, e, s) ==
    /\ Climbs(c, Len(q)) /\ c[Len(q)] = s.base + s.hi
    /\ Below(p.screen, c[0])
    /\ \A k \in 1 .. Len(q) : Carries(q[k], c[k - 1], c[k], e, s)
    /\ Ordered(q)
    /\ Knows(q, c[0], p, e, s)

OnThread(q, p, e, s) == \E c \in [0 .. Len(q) -> Nat] : Thread(q, c, p, e, s)

Threaded ==
    \A v \in Panes : ws[v].st = "attached" =>
        OnThread(chan[v], pane[v], ws[v].id, sess[ws[v].id])

\* What waits in the coalescer is the end of what the pane was given.
Queued == \A v \in Panes : pane[v].pend <= Len(pane[v].screen)

\* What was painted once is persisted once.
Steady == (\A v \in Panes : Rising(pane[v].screen)) /\ Rising(stored.buf)

Invariant ==
    /\ Shaped
    /\ Wired
    /\ Placed
    /\ Bounded
    /\ Anchored
    /\ Threaded
    /\ Steady

-------------------------------------------------------------------------------
(* Stretches, screens and threads as data.                                      *)

\* A stretch is a sequence of positions in order.
LEMMA StretchIs ==
    ASSUME NEW a \in Nat, NEW b \in Nat, a <= b
    PROVE  /\ Stretch(a, b) \in Seq(Nat) /\ Len(Stretch(a, b)) = b - a
           /\ \A i \in 1 .. b - a : Stretch(a, b)[i] = a + i
           /\ Below(Stretch(a, b), b)
           /\ a = b => Stretch(a, b) = <<>>
<1>1. b - a \in Nat
  OBVIOUS
<1>2. \A i \in 1 .. b - a : a + i \in Nat
  OBVIOUS
<1>3. Stretch(a, b) \in [1 .. b - a -> Nat]
  BY <1>2 DEF Stretch
<1>4. Stretch(a, b) \in Seq(Nat) /\ Len(Stretch(a, b)) = b - a
  BY <1>1, <1>3, IsASeq, LenProperties
<1>5. \A i \in 1 .. b - a : Stretch(a, b)[i] = a + i
  BY DEF Stretch
<1>6. a = b => Stretch(a, b) = <<>>
  BY <1>4, EmptySeq
<1>. QED BY <1>4, <1>5, <1>6 DEF Below

\* Appending to a screen what comes after it.
LEMMA PaintOn ==
    ASSUME NEW s \in Seq(Nat), NEW a \in Nat, NEW b \in Nat, a <= b, Below(s, a)
    PROVE  /\ s \o Stretch(a, b) \in Seq(Nat)
           /\ Below(s \o Stretch(a, b), b)
           /\ Rising(s) => Rising(s \o Stretch(a, b))
<1> DEFINE t == Stretch(a, b)
           u == s \o t
<1>1. t \in Seq(Nat) /\ Len(t) = b - a /\ \A i \in 1 .. b - a : t[i] = a + i
  BY StretchIs
<1>2. u \in Seq(Nat) /\ Len(u) = Len(s) + Len(t)
      /\ \A i \in 1 .. Len(s) + Len(t) : u[i] = IF i <= Len(s) THEN s[i] ELSE t[i - Len(s)]
  BY <1>1, ConcatProperties
<1>3. \A i \in 1 .. Len(u) : u[i] = IF i <= Len(s) THEN s[i] ELSE a + (i - Len(s))
  <2>1. Len(s) \in Nat
    BY LenProperties
  <2>2. ASSUME NEW i \in 1 .. Len(u), ~(i <= Len(s)) PROVE u[i] = a + (i - Len(s))
    <3>1. i - Len(s) \in 1 .. b - a
      BY <1>1, <1>2, <2>1, <2>2
    <3>2. u[i] = t[i - Len(s)]
      BY <1>2, <2>2
    <3>. QED BY <1>1, <3>1, <3>2
  <2>. QED BY <1>2, <2>2
<1>4. Len(s) \in Nat /\ \A i \in 1 .. Len(s) : s[i] \in Nat
  BY ElementOfSeq, LenProperties
<1> HIDE DEF t, u
<1>5. Below(u, b)
  <2>. SUFFICES ASSUME NEW i \in 1 .. Len(u) PROVE u[i] <= b
    BY DEF Below
  <2>1. CASE i <= Len(s)
    <3>1. s[i] <= a /\ s[i] \in Nat
      BY <1>4, <2>1 DEF Below
    <3>. QED BY <1>3, <2>1, <3>1
  <2>2. CASE i > Len(s)
    <3>1. u[i] = a + (i - Len(s)) /\ Len(u) = Len(s) + (b - a) /\ i \in Nat
      BY <1>1, <1>2, <1>3, <1>4, <2>2
    <3>. QED BY <1>4, <3>1
  <2>. QED BY <1>4, <2>1, <2>2
<1>6. Rising(s) => Rising(u)
  <2>. SUFFICES ASSUME Rising(s), NEW i \in 1 .. Len(u), NEW j \in 1 .. Len(u), i < j
                PROVE  u[i] < u[j]
    BY DEF Rising
  <2>1. CASE j <= Len(s)
    BY <1>3, <1>4, <2>1 DEF Rising
  <2>2. CASE i <= Len(s) /\ j > Len(s)
    <3>1. s[i] <= a /\ s[i] \in Nat
      BY <1>4, <2>2 DEF Below
    <3>. QED BY <1>3, <1>4, <2>2, <3>1
  <2>3. CASE i > Len(s)
    BY <1>3, <1>4, <2>3
  <2>. QED BY <1>4, <2>1, <2>2, <2>3
<1>. QED BY <1>2, <1>5, <1>6 DEF t, u

\* What was there below a bound stays there when more below it is painted.
LEMMA BelowConcat ==
    ASSUME NEW s \in Seq(Nat), NEW t \in Seq(Nat), NEW n \in Nat, Below(s, n), Below(t, n)
    PROVE  Below(s \o t, n)
<1>1. Len(s \o t) = Len(s) + Len(t)
      /\ \A i \in 1 .. Len(s) + Len(t) : (s \o t)[i] = IF i <= Len(s) THEN s[i] ELSE t[i - Len(s)]
  BY ConcatProperties
<1>2. Len(s) \in Nat /\ Len(t) \in Nat
  BY LenProperties
<1>. QED BY <1>1, <1>2 DEF Below

\* A sequence from which n members are cut after the first a.
LEMMA CutIs ==
    ASSUME NEW s \in Seq(Nat), NEW a \in Nat, NEW n \in Nat, a + n <= Len(s)
    PROVE  LET t == SubSeq(s, 1, a) \o SubSeq(s, a + n + 1, Len(s)) IN
           /\ t \in Seq(Nat) /\ Len(t) = Len(s) - n
           /\ \A i \in 1 .. Len(t) : t[i] = IF i <= a THEN s[i] ELSE s[i + n]
<1> DEFINE u == SubSeq(s, 1, a)
           w == SubSeq(s, a + n + 1, Len(s))
           t == u \o w
<1>1. Len(s) \in Nat
  BY LenProperties
<1>2. u \in Seq(Nat) /\ Len(u) = a /\ \A i \in 1 .. a : u[i] = s[i]
  BY <1>1
<1>3. /\ w \in Seq(Nat) /\ Len(w) = Len(s) - (a + n)
      /\ \A i \in 1 .. Len(s) - (a + n) : w[i] = s[a + n + i]
  <2>1. /\ w \in Seq(Nat)
        /\ Len(w) = IF a + n + 1 <= Len(s) THEN Len(s) - (a + n + 1) + 1 ELSE 0
        /\ \A i \in 1 .. Len(s) - (a + n + 1) + 1 : w[i] = s[a + n + 1 + i - 1]
    BY <1>1, SubSeqProperties
  <2>. QED BY <1>1, <2>1
<1>4. /\ t \in Seq(Nat) /\ Len(t) = Len(u) + Len(w)
      /\ \A i \in 1 .. Len(u) + Len(w) : t[i] = IF i <= Len(u) THEN u[i] ELSE w[i - Len(u)]
  BY <1>2, <1>3, ConcatProperties
<1>. HIDE DEF u, w, t
<1>5. Len(t) = Len(s) - n
  BY <1>1, <1>2, <1>3, <1>4
<1>6. ASSUME NEW i \in 1 .. Len(t) PROVE t[i] = IF i <= a THEN s[i] ELSE s[i + n]
  <2>1. CASE i <= a
    BY <1>1, <1>2, <1>3, <1>4, <1>5, <2>1
  <2>2. CASE ~(i <= a)
    <3>1. i - a \in 1 .. Len(s) - (a + n) /\ a + n + (i - a) = i + n
      BY <1>1, <1>5, <2>2
    <3>2. w[i - a] = s[i + n]
      BY <1>3, <3>1
    <3>. QED BY <1>2, <1>3, <1>4, <1>5, <2>2, <3>2
  <2>. QED BY <2>1, <2>2
<1>. QED BY <1>4, <1>5, <1>6 DEF t, u, w

\* A snapshot is the screen up to some point.
LEMMA ParsedIs ==
    ASSUME NEW p, p.screen \in Seq(Nat), NEW k \in 0 .. Len(p.screen)
    PROVE  /\ Parsed(p, k) \in Seq(Nat)
           /\ \A n \in Nat : Below(p.screen, n) => Below(Parsed(p, k), n)
           /\ Rising(p.screen) => Rising(Parsed(p, k))
           /\ k = 0 => Parsed(p, k) = p.screen
<1> DEFINE s == p.screen
           m == Len(s) - k
           u == SubSeq(s, 1, m)
<1>1. Len(s) \in Nat /\ m \in 0 .. Len(s)
  BY LenProperties
<1>2. u \in Seq(Nat) /\ Len(u) = m /\ \A i \in 1 .. m : u[i] = s[i]
  BY <1>1
<1>3. k = 0 => u = s
  BY <1>1, SubSeqFull
<1>4. u = Parsed(p, k)
  BY DEF Parsed
<1> HIDE DEF u, m
<1>5. \A n \in Nat : Below(s, n) => Below(u, n)
  BY <1>1, <1>2 DEF Below
<1>6. Rising(s) => Rising(u)
  <2>. SUFFICES ASSUME Rising(s), NEW i \in 1 .. Len(u), NEW j \in 1 .. Len(u), i < j
                PROVE  u[i] < u[j]
    BY DEF Rising
  <2>1. i \in 1 .. Len(s) /\ j \in 1 .. Len(s) /\ u[i] = s[i] /\ u[j] = s[j]
    BY <1>1, <1>2
  <2>. QED BY <2>1 DEF Rising
<1>. QED BY <1>2, <1>3, <1>4, <1>5, <1>6

\* The host sends one more frame.
LEMMA ThreadExtends ==
    ASSUME NEW q \in Seq(Frames), NEW p, NEW e, NEW s, NEW r, NEW f \in Frames,
           s.base \in Nat, s.hi \in Nat, r.hi \in Nat, r.base = s.base, s.hi <= r.hi,
           OnThread(q, p, e, s), f.k \in {"bytes", "exit"},
           f.k = "exit" => r.hi = s.hi,
           f.ps = Stretch(s.base + s.hi, r.base + r.hi)
    PROVE  OnThread(Append(q, f), p, e, r)
<1>1. PICK c \in [0 .. Len(q) -> Nat] : Thread(q, c, p, e, s)
  BY DEF OnThread
<1> DEFINE d == [k \in 0 .. Len(q) + 1 |-> IF k = Len(q) + 1 THEN r.base + r.hi ELSE c[k]]
           u == Append(q, f)
<1>2. Len(q) \in Nat /\ Len(u) = Len(q) + 1 /\ u[Len(q) + 1] = f
      /\ \A k \in 1 .. Len(q) : u[k] = q[k]
  BY LenProperties, AppendProperties
<1>3. d \in [0 .. Len(u) -> Nat]
  BY <1>2
<1>4. d[Len(u)] = r.base + r.hi /\ \A k \in 0 .. Len(q) : d[k] = c[k]
  BY <1>2
<1>. HIDE DEF d, u
<1>5. Climbs(d, Len(u))
  <2>1. \A i, j \in 0 .. Len(q) : i <= j => c[i] <= c[j]
    BY <1>1 DEF Thread, Climbs
  <2>2. c[Len(q)] = s.base + s.hi
    BY <1>1 DEF Thread
  <2>3. \A i \in 0 .. Len(q) : c[i] \in Nat /\ c[i] <= s.base + s.hi
    BY <1>2, <2>1, <2>2
  <2>. SUFFICES ASSUME NEW i \in 0 .. Len(u), NEW j \in 0 .. Len(u), i <= j
                PROVE  d[i] <= d[j]
    BY DEF Climbs
  <2>4. CASE j = Len(u) /\ i # j
    <3>1. i \in 0 .. Len(q)
      BY <1>2, <2>4
    <3>. QED BY <1>4, <2>3, <2>4, <3>1
  <2>5. CASE i = j
    BY <1>3, <2>5
  <2>6. CASE j # Len(u)
    <3>1. i \in 0 .. Len(q) /\ j \in 0 .. Len(q)
      BY <1>2, <2>6
    <3>. QED BY <1>4, <2>1, <3>1
  <2>. QED BY <2>4, <2>5, <2>6
<1>6. ASSUME NEW k \in 1 .. Len(u)
      PROVE  Carries(u[k], d[k - 1], d[k], e, r)
  <2>1. CASE k = Len(u)
    <3>1. d[k - 1] = s.base + s.hi /\ d[k] = r.base + r.hi /\ u[k] = f
      BY <1>1, <1>2, <1>4, <2>1 DEF Thread
    <3>. QED BY <3>1 DEF Carries, Joins
  <2>2. CASE k # Len(u)
    <3>1. k \in 1 .. Len(q) /\ d[k - 1] = c[k - 1] /\ d[k] = c[k] /\ u[k] = q[k]
      BY <1>2, <1>4, <2>2
    <3>2. Carries(q[k], c[k - 1], c[k], e, s)
      BY <1>1, <3>1 DEF Thread
    <3>. QED BY <3>1, <3>2 DEF Carries
  <2>. QED BY <2>1, <2>2
<1>7. Ordered(u)
  <2>1. Ordered(q)
    BY <1>1 DEF Thread
  <2>. SUFFICES ASSUME NEW k \in 1 .. Len(u)
                PROVE  /\ u[k].k \in Joins => \A j \in 1 .. k - 1 : u[j].k = "attached"
                       /\ u[k].k = "attached" => k = 1 /\ Len(u) >= 2 /\ u[2].k \in Joins
    BY DEF Ordered
  <2>2. CASE k = Len(u)
    BY <1>2, <2>2 DEF Joins
  <2>3. CASE k # Len(u)
    <3>0. k \in 1 .. Len(q) /\ \A j \in 1 .. k - 1 : j \in 1 .. Len(q)
      BY <1>2, <2>3
    <3>1. k \in 1 .. Len(q) /\ u[k] = q[k] /\ \A j \in 1 .. k - 1 : u[j] = q[j]
      BY <1>2, <3>0
    <3>2. u[k].k = "attached" => 2 \in 1 .. Len(q) /\ q[2].k \in Joins /\ k = 1
      BY <1>2, <2>1, <3>1 DEF Ordered
    <3>. QED BY <1>2, <2>1, <3>1, <3>2 DEF Ordered
  <2>. QED BY <2>2, <2>3
<1>8. Knows(u, d[0], p, e, r)
  <2>1. Knows(q, c[0], p, e, s)
    BY <1>1 DEF Thread
  <2>2. d[0] = c[0]
    BY <1>2, <1>4
  <2>3. ASSUME p.counting, NEW k \in 1 .. Len(u) PROVE u[k].k \in {"bytes", "exit"}
    <3>1. CASE k = Len(u)
      BY <1>2, <3>1
    <3>2. CASE k # Len(u)
      <4>1. k \in 1 .. Len(q) /\ u[k] = q[k]
        BY <1>2, <3>2
      <4>. QED BY <2>1, <2>3, <4>1 DEF Knows
    <3>. QED BY <3>1, <3>2
  <2>4. ~p.counting => Len(u) > 0 /\ u[1] = q[1]
    BY <1>2, <2>1 DEF Knows
  <2>. QED BY <2>1, <2>2, <2>3, <2>4 DEF Knows
<1>9. Below(p.screen, d[0])
  BY <1>1, <1>2, <1>4 DEF Thread
<1>10. Thread(u, d, p, e, r)
  BY <1>4, <1>5, <1>6, <1>7, <1>8, <1>9 DEF Thread
<1>. QED BY <1>3, <1>10 DEF OnThread, u

\* The object begins elsewhere, and nothing was counted in it yet.
LEMMA ThreadLifts ==
    ASSUME NEW q \in Seq(Frames), NEW p \in Runtimes, NEW e, NEW s, NEW r,
           s.base \in Nat, s.hi = 0, r.base \in Nat, r.hi = 0, s.base <= r.base,
           OnThread(q, p, e, s)
    PROVE  OnThread(q, p, e, r)
<1>1. PICK c \in [0 .. Len(q) -> Nat] : Thread(q, c, p, e, s)
  BY DEF OnThread
<1> DEFINE d == [k \in 0 .. Len(q) |-> r.base]
<1>2. Len(q) \in Nat /\ \A k \in 1 .. Len(q) : q[k] \in Frames
  BY LenProperties, ElementOfSeq
<1>3. d \in [0 .. Len(q) -> Nat] /\ \A k \in 0 .. Len(q) : d[k] = r.base
  OBVIOUS
<1>. HIDE DEF d
<1>4. /\ Climbs(c, Len(q)) /\ c[Len(q)] = s.base /\ Below(p.screen, c[0])
      /\ \A k \in 1 .. Len(q) : Carries(q[k], c[k - 1], c[k], e, s)
      /\ Ordered(q) /\ Knows(q, c[0], p, e, s)
  BY <1>1 DEF Thread
<1>5. \A k \in 0 .. Len(q) : c[k] \in Nat /\ c[k] <= s.base /\ c[0] <= c[k]
  BY <1>2, <1>4 DEF Climbs
<1>6. c[0] = s.base
  <2>1. CASE p.counting
    <3>1. c[0] = s.base + p.anchor.n /\ p.anchor.n \in Nat
      BY <1>4, <2>1 DEF Knows, Runtimes, Anchors
    <3>. QED BY <1>2, <1>5, <3>1
  <2>2. CASE ~p.counting /\ q[1].k \in Joins
    <3>1. 1 \in 1 .. Len(q)
      BY <1>2, <1>4, <2>2 DEF Knows
    <3>2. Carries(q[1], c[0], c[1], e, s) /\ q[1] \in Frames
      BY <1>2, <1>4, <3>1
    <3>3. c[1] = s.base + q[1].n /\ c[1] = c[0] /\ q[1].n \in Nat
      BY <2>2, <3>2 DEF Carries, Joins, Frames
    <3>. QED BY <1>5, <3>1, <3>3
  <2>3. CASE ~p.counting /\ q[1].k = "attached"
    <3>1. 1 \in 1 .. Len(q)
      BY <1>2, <1>4, <2>3 DEF Knows
    <3>2. 2 \in 1 .. Len(q) /\ q[2].k \in Joins
      BY <1>2, <1>4, <2>3, <3>1 DEF Ordered
    <3>3. /\ Carries(q[1], c[0], c[1], e, s) /\ Carries(q[2], c[1], c[2], e, s)
          /\ q[2] \in Frames
      BY <1>2, <1>4, <3>1, <3>2
    <3>4. c[2] = s.base + q[2].n /\ c[2] = c[1] /\ c[1] = c[0] /\ q[2].n \in Nat
      BY <2>3, <3>2, <3>3 DEF Carries, Joins, Frames
    <3>. QED BY <1>5, <3>1, <3>2, <3>4
  <2>. QED BY <1>4, <2>1, <2>2, <2>3 DEF Knows
<1>7. \A k \in 0 .. Len(q) : c[k] = s.base
  BY <1>5, <1>6
<1>8. Below(p.screen, d[0])
  <2>1. \A i \in 1 .. Len(p.screen) : p.screen[i] \in Nat
    BY ElementOfSeq DEF Runtimes
  <2>2. d[0] = r.base
    BY <1>2, <1>3
  <2>. QED BY <1>4, <1>6, <2>1, <2>2 DEF Below
<1>9. ASSUME NEW k \in 1 .. Len(q)
      PROVE  Carries(q[k], d[k - 1], d[k], e, r)
  <2>1. k \in 0 .. Len(q) /\ k - 1 \in 0 .. Len(q)
    BY <1>2
  <2>2. Carries(q[k], s.base, s.base, e, s) /\ q[k] \in Frames
    BY <1>2, <1>4, <1>7, <2>1
  <2>3. Stretch(s.base, s.base) = <<>> /\ Stretch(r.base, r.base) = <<>>
    <3>1. \A n \in Nat : n <= n
      OBVIOUS
    <3>. QED BY <3>1, StretchIs
  <2>4. d[k] = r.base /\ d[k - 1] = r.base
    BY <1>3, <2>1
  <2>5. q[k].n \in Nat
    BY <2>2 DEF Frames
  <2>6. q[k].k \in Joins => q[k].n = 0
    BY <2>2, <2>5 DEF Carries
  <2>. QED BY <2>2, <2>3, <2>4, <2>6 DEF Carries
<1>10. Knows(q, d[0], p, e, r)
  <2>1. d[0] = r.base
    BY <1>2, <1>3
  <2>2. p.counting => p.anchor.n = 0
    BY <1>4, <1>6 DEF Knows, Runtimes, Anchors
  <2>. QED BY <1>4, <2>1, <2>2 DEF Knows
<1>11. Climbs(d, Len(q)) /\ d[Len(q)] = r.base + r.hi
  BY <1>2, <1>3 DEF Climbs
<1>12. Thread(q, d, p, e, r)
  BY <1>4, <1>8, <1>9, <1>10, <1>11 DEF Thread
<1>. QED BY <1>3, <1>12 DEF OnThread

\* The pane takes the first frame: what is left to come.
LEMMA ThreadShifts ==
    ASSUME NEW q \in Seq(Frames), q # <<>>, NEW p, NEW e, NEW s,
           NEW c \in [0 .. Len(q) -> Nat], Thread(q, c, p, e, s),
           NEW r, Below(r.screen, c[1]),
           r.counting => /\ r.anchor.e = e /\ c[1] = s.base + r.anchor.n
                         /\ \A k \in 2 .. Len(q) : q[k].k \in {"bytes", "exit"},
           ~r.counting => Len(q) > 1 /\ q[2].k \in Joins \cup {"attached"}
    PROVE  OnThread(Tail(q), r, e, s)
<1> DEFINE u == Tail(q)
           d == [k \in 0 .. Len(q) - 1 |-> c[k + 1]]
<1>1. Len(q) \in Nat \ {0} /\ Len(u) = Len(q) - 1 /\ \A k \in 1 .. Len(u) : u[k] = q[k + 1]
  BY LenProperties, EmptySeq, HeadTailProperties
<1>2. d \in [0 .. Len(u) -> Nat] /\ \A k \in 0 .. Len(u) : d[k] = c[k + 1]
  BY <1>1
<1>. HIDE DEF d, u
<1>3. Climbs(d, Len(u)) /\ d[Len(u)] = s.base + s.hi
  <2>1. \A i, j \in 0 .. Len(q) : i <= j => c[i] <= c[j]
    BY DEF Thread, Climbs
  <2>2. c[Len(q)] = s.base + s.hi
    BY DEF Thread
  <2>. QED BY <1>1, <1>2, <2>1, <2>2 DEF Climbs
<1>4. ASSUME NEW k \in 1 .. Len(u)
      PROVE  Carries(u[k], d[k - 1], d[k], e, s)
  <2>1. k + 1 \in 1 .. Len(q) /\ k \in 0 .. Len(u) /\ k - 1 \in 0 .. Len(u)
    BY <1>1
  <2>2. u[k] = q[k + 1] /\ d[k] = c[k + 1] /\ d[k - 1] = c[(k + 1) - 1]
    BY <1>1, <1>2, <2>1
  <2>. QED BY <2>1, <2>2 DEF Thread
<1>5. Ordered(u)
  <2>1. Ordered(q)
    BY DEF Thread
  <2>. SUFFICES ASSUME NEW k \in 1 .. Len(u)
                PROVE  /\ u[k].k \in Joins => \A j \in 1 .. k - 1 : u[j].k = "attached"
                       /\ u[k].k # "attached"
    BY DEF Ordered
  <2>2. k \in Nat \ {0} /\ k + 1 \in 1 .. Len(q) /\ k + 1 # 1
    BY <1>1
  <2>3. u[k] = q[k + 1]
    BY <1>1
  <2>4. \A j \in 1 .. k - 1 : j + 1 \in 1 .. (k + 1) - 1 /\ u[j] = q[j + 1]
    BY <1>1, <2>2
  <2>. QED BY <2>1, <2>2, <2>3, <2>4 DEF Ordered
<1>6. Knows(u, d[0], r, e, s)
  <2>1. d[0] = c[1] /\ \A k \in 1 .. Len(u) : k + 1 \in 2 .. Len(q) /\ u[k] = q[k + 1]
    BY <1>1, <1>2
  <2>2. ~r.counting => Len(u) > 0 /\ u[1] = q[2]
    BY <1>1
  <2>. QED BY <2>1, <2>2 DEF Knows
<1>7. Below(r.screen, d[0])
  BY <1>1, <1>2
<1>8. Thread(u, d, r, e, s)
  BY <1>3, <1>4, <1>5, <1>6, <1>7 DEF Thread
<1>. QED BY <1>2, <1>8 DEF OnThread, u

\* What a socket is sent when it is attached.
Replay(mode, e, n, s, gone) ==
    <<Frame("attached"), Synced(mode, e, n)>>
        \o Bytes(Stretch(s.base + n, s.base + s.hi))
        \o (IF gone THEN <<Frame("exit")>> ELSE <<>>)

\* What a socket is sent continues the pane it is sent to, to the end of its object.
LEMMA ThreadJoins ==
    ASSUME NEW p, ~p.counting, NEW e \in Nat, NEW s, s.base \in Nat, s.hi \in Nat,
           NEW n \in Nat, n <= s.hi, Below(p.screen, s.base + n), NEW mode \in Joins,
           NEW gone \in BOOLEAN
    PROVE  LET q == Replay(mode, e, n, s, gone)
           IN   /\ q \in Seq(Frames) /\ OnThread(q, p, e, s)
                /\ \A m \in Nat : s.hi = 0 \/ s.base + s.hi <= m =>
                       \A k \in 1 .. Len(q) : Below(q[k].ps, m)
                /\ \A k \in 1 .. Len(q) : q[k].k \in Joins =>
                       q[k].k = mode /\ q[k].e = e /\ q[k].n = n
<1> DEFINE one == <<Frame("attached"), Synced(mode, e, n)>>
           two == Bytes(Stretch(s.base + n, s.base + s.hi))
           end == IF gone THEN <<Frame("exit")>> ELSE <<>>
           q == one \o two \o end
           c == [k \in 0 .. Len(q) |-> IF k <= 2 THEN s.base + n ELSE s.base + s.hi]
<1>0. /\ Frame("attached") \in Frames /\ Frame("attached").k = "attached" /\ Frame("attached").ps = <<>>
      /\ Frame("exit") \in Frames /\ Frame("exit").k = "exit" /\ Frame("exit").ps = <<>>
      /\ Synced(mode, e, n) \in Frames /\ Synced(mode, e, n).k = mode /\ Synced(mode, e, n).e = e
      /\ Synced(mode, e, n).n = n /\ Synced(mode, e, n).ps = <<>>
  <2>1. <<>> \in Seq(Nat)
    BY EmptySeq
  <2>2. Frame("attached") \in Frames /\ Frame("exit") \in Frames /\ Frame(mode) \in Frames
    BY <2>1 DEF Frames, Frame, Joins
  <2>3. Frame(mode).k = mode /\ Frame(mode).ps = <<>>
    BY DEF Frame
  <2> DEFINE g == Frame(mode)
  <2> HIDE DEF g
  <2>4. [g EXCEPT !.e = e, !.n = n] \in Frames
    BY <2>2 DEF Frames, g
  <2>5. [g EXCEPT !.e = e, !.n = n].e = e /\ [g EXCEPT !.e = e, !.n = n].n = n
        /\ [g EXCEPT !.e = e, !.n = n].k = g.k /\ [g EXCEPT !.e = e, !.n = n].ps = g.ps
    BY <2>2 DEF Frames, g
  <2>6. Synced(mode, e, n) = [g EXCEPT !.e = e, !.n = n]
    BY DEF Synced, g
  <2>7. g.k = mode /\ g.ps = <<>>
    BY <2>3 DEF g
  <2>8. /\ Frame("attached").k = "attached" /\ Frame("attached").ps = <<>>
        /\ Frame("exit").k = "exit" /\ Frame("exit").ps = <<>>
    BY DEF Frame
  <2>. QED BY <2>2, <2>4, <2>5, <2>6, <2>7, <2>8
<1>1. one \in Seq(Frames) /\ Len(one) = 2 /\ one[1] = Frame("attached") /\ one[2] = Synced(mode, e, n)
  BY <1>0
<1>2. /\ s.base + n \in Nat /\ s.base + s.hi \in Nat /\ s.base + n <= s.base + s.hi
      /\ \A m \in Nat : m <= m
  OBVIOUS
<1>3. /\ Stretch(s.base + n, s.base + s.hi) \in Seq(Nat)
      /\ Below(Stretch(s.base + n, s.base + s.hi), s.base + s.hi)
      /\ n = s.hi <=> Stretch(s.base + n, s.base + s.hi) = <<>>
  <2> DEFINE a == s.base + n
             b == s.base + s.hi
  <2>1. a \in Nat /\ b \in Nat /\ a <= b /\ b - a = s.hi - n
    BY <1>2
  <2> HIDE DEF a, b
  <2>2. /\ Stretch(a, b) \in Seq(Nat) /\ Below(Stretch(a, b), b) /\ Len(Stretch(a, b)) = b - a
        /\ a = b => Stretch(a, b) = <<>>
    BY <2>1, StretchIs
  <2>3. n = s.hi => a = b
    BY DEF a, b
  <2>4. Stretch(a, b) = <<>> => s.hi - n = 0
    BY <2>1, <2>2, EmptySeq
  <2>. QED BY <2>2, <2>3, <2>4 DEF a, b
<1> DEFINE f == [Frame("bytes") EXCEPT !.ps = Stretch(s.base + n, s.base + s.hi)]
<1>4. f \in Frames /\ f.k = "bytes" /\ f.ps = Stretch(s.base + n, s.base + s.hi)
  BY <1>3 DEF Frames, Frame, Joins
<1>5. /\ two \in Seq(Frames) /\ Len(two) \in {0, 1}
      /\ Len(two) = 0 => n = s.hi
      /\ Len(two) = 1 => two[1] = f
  BY <1>3, <1>4, EmptySeq DEF Bytes
<1>6. /\ end \in Seq(Frames) /\ Len(end) \in {0, 1}
      /\ Len(end) = 1 => end[1] = Frame("exit")
  BY <1>0
<1> HIDE DEF one, two, end, f
<1>7. /\ q \in Seq(Frames) /\ Len(q) = 2 + Len(two) + Len(end)
      /\ q[1] = Frame("attached") /\ q[2] = Synced(mode, e, n)
      /\ Len(two) = 1 => q[3] = f
      /\ Len(end) = 1 => q[Len(q)] = Frame("exit")
  <2>1. one \o two \in Seq(Frames) /\ Len(one \o two) = 2 + Len(two)
        /\ \A i \in 1 .. 2 + Len(two) : (one \o two)[i] = IF i <= 2 THEN one[i] ELSE two[i - 2]
    <3>1. /\ one \o two \in Seq(Frames) /\ Len(one \o two) = Len(one) + Len(two)
          /\ \A i \in 1 .. Len(one) + Len(two) :
                (one \o two)[i] = IF i <= Len(one) THEN one[i] ELSE two[i - Len(one)]
      BY <1>1, <1>5, ConcatProperties
    <3>. QED BY <1>1, <3>1
  <2> DEFINE u == one \o two
  <2> HIDE DEF u
  <2>2. u \in Seq(Frames) /\ Len(u) = 2 + Len(two) /\ u[1] = one[1] /\ u[2] = one[2]
        /\ (Len(two) = 1 => u[3] = two[1])
    BY <1>5, <2>1 DEF u
  <2>3. q = u \o end
    BY DEF u
  <2>5. u \in Seq(Frames) /\ end \in Seq(Frames)
    BY <1>6, <2>2
  <2>4. u \o end \in Seq(Frames) /\ Len(u \o end) = Len(u) + Len(end)
        /\ \A i \in 1 .. Len(u) + Len(end) : (u \o end)[i] = IF i <= Len(u) THEN u[i] ELSE end[i - Len(u)]
    BY <2>5, ConcatProperties
  <2>6. u \o end \in Seq(Frames) /\ Len(u \o end) = 2 + Len(two) + Len(end)
    BY <2>2, <2>4
  <2>7. (u \o end)[1] = one[1] /\ (u \o end)[2] = one[2]
    <3>1. Len(end) \in Nat /\ Len(two) \in Nat
      BY <1>5, <1>6
    <3>. QED BY <2>2, <2>4, <3>1
  <2>8. Len(two) = 1 => (u \o end)[3] = two[1]
    <3>1. Len(end) \in Nat
      BY <1>6
    <3>. QED BY <2>2, <2>4, <3>1
  <2>9. Len(end) = 1 => (u \o end)[Len(u \o end)] = end[1]
    <3>1. Len(u) \in Nat
      BY <1>5, <2>2
    <3>. QED BY <2>4, <3>1
  <2> HIDE DEF q
  <2>. QED BY <1>1, <1>5, <1>6, <2>3, <2>6, <2>7, <2>8, <2>9
<1>8. \A k \in 3 .. Len(q) : \/ k = 3 /\ Len(two) = 1 /\ q[k] = f
                             \/ k = 3 + Len(two) /\ q[k] = Frame("exit")
  <2> HIDE DEF q
  <2>. TAKE k \in 3 .. Len(q)
  <2>1. k \in Nat /\ k >= 3 /\ k <= 2 + Len(two) + Len(end)
    BY <1>5, <1>6, <1>7
  <2>2. CASE k = 3 /\ Len(two) = 1
    BY <1>7, <2>2
  <2>3. CASE ~(k = 3 /\ Len(two) = 1)
    <3>0. Len(q) = 2 + Len(two) + Len(end) /\ Len(two) \in {0, 1} /\ Len(end) \in {0, 1}
      BY <1>5, <1>6, <1>7
    <3> DEFINE lt == Len(two)
               le == Len(end)
               lq == Len(q)
    <3> HIDE DEF lt, le, lq
    <3>1. lq = 2 + lt + le /\ lt \in {0, 1} /\ le \in {0, 1} /\ k <= 2 + lt + le /\ ~(k = 3 /\ lt = 1)
      BY <2>1, <2>3, <3>0 DEF lt, le, lq
    <3>2. le = 1 /\ k = 3 + lt /\ k = lq
      BY <2>1, <3>1
    <3>. QED BY <1>7, <3>2 DEF lt, le, lq
  <2>. QED BY <2>2, <2>3
<1>9. Len(q) \in Nat /\ Len(q) >= 2
  BY <1>5, <1>6, <1>7
<1> HIDE DEF q
<1>10. c \in [0 .. Len(q) -> Nat] /\ \A k \in 0 .. Len(q) : c[k] = IF k <= 2 THEN s.base + n ELSE s.base + s.hi
  BY <1>2
<1> HIDE DEF c
<1>11. Climbs(c, Len(q))
  BY <1>2, <1>10 DEF Climbs
<1>12. c[Len(q)] = s.base + s.hi
  BY <1>5, <1>6, <1>7, <1>9, <1>10
<1>13. Stretch(s.base + n, s.base + n) = <<>> /\ Stretch(s.base + s.hi, s.base + s.hi) = <<>>
  BY <1>2, StretchIs
<1>14. c[0] = s.base + n /\ c[1] = s.base + n /\ c[2] = s.base + n
  BY <1>9, <1>10
<1>15. ASSUME NEW k \in 1 .. Len(q)
       PROVE  Carries(q[k], c[k - 1], c[k], e, s)
  <2>1. CASE k = 1
    BY <1>0, <1>7, <1>13, <1>14, <2>1 DEF Carries, Joins
  <2>2. CASE k = 2
    BY <1>0, <1>7, <1>13, <1>14, <2>2 DEF Carries, Joins
  <2>3. CASE k = 3 /\ Len(two) = 1
    <3>1. q[k] = f /\ c[k - 1] = s.base + n /\ c[k] = s.base + s.hi
      BY <1>7, <1>9, <1>10, <1>14, <2>3
    <3>. QED BY <1>4, <3>1 DEF Carries, Joins
  <2>4. CASE k >= 3 /\ ~(k = 3 /\ Len(two) = 1)
    <3>1. k = 3 + Len(two) /\ q[k] = Frame("exit")
      BY <1>8, <1>9, <2>4
    <3>2. c[k - 1] = s.base + s.hi /\ c[k] = s.base + s.hi
      BY <1>5, <1>9, <1>10, <1>14, <3>1
    <3>. QED BY <1>0, <1>13, <3>1, <3>2 DEF Carries, Joins
  <2>. QED BY <1>9, <2>1, <2>2, <2>3, <2>4
<1>16. Ordered(q)
  <2>1. q[1].k = "attached" /\ q[2].k \in Joins /\ q[2].k # "attached"
    BY <1>0, <1>7 DEF Joins
  <2>2. \A k \in 3 .. Len(q) : q[k].k \in {"bytes", "exit"}
    BY <1>0, <1>4, <1>8
  <2>. QED BY <1>9, <2>1, <2>2 DEF Ordered, Joins
<1>17. Knows(q, c[0], p, e, s)
  BY <1>0, <1>7, <1>9 DEF Knows
<1>18. Thread(q, c, p, e, s)
  BY <1>11, <1>12, <1>14, <1>15, <1>16, <1>17 DEF Thread
<1>19. ASSUME NEW m \in Nat, s.hi = 0 \/ s.base + s.hi <= m, NEW k \in 1 .. Len(q)
       PROVE  Below(q[k].ps, m)
  <2>1. q[k].ps = <<>> \/ q[k] = f
    BY <1>0, <1>7, <1>8, <1>9
  <2>2. Below(<<>>, m)
    BY DEF Below
  <2>3. Below(f.ps, m)
    <3>1. CASE s.hi = 0
      BY <1>3, <1>4, <2>2, <3>1
    <3>2. CASE s.base + s.hi <= m
      BY <1>2, <1>3, <1>4, <3>2, ElementOfSeq DEF Below
    <3>. QED BY <1>19, <3>1, <3>2
  <2>. QED BY <2>1, <2>2, <2>3
<1>20. q \in Seq(Frames)
  BY <1>7
<1>21. \A k \in 1 .. Len(q) : q[k].k \in Joins => q[k].k = mode /\ q[k].e = e /\ q[k].n = n
  BY <1>0, <1>4, <1>7, <1>8, <1>9 DEF Joins
<1>. QED BY <1>10, <1>18, <1>19, <1>20, <1>21 DEF OnThread, Replay, q, one, two, end

-------------------------------------------------------------------------------
(* What a step must show of the parts it hardly touches.                        *)

\* What is below a position is below a later one.
LEMMA BelowLater ==
    ASSUME NEW s \in Seq(Nat), NEW m \in Nat, NEW n \in Nat, m <= n, Below(s, m)
    PROVE  Below(s, n)
BY ElementOfSeq DEF Below

\* The records of the variables.
LEMMA Fields ==
    ASSUME Shaped
    PROVE  /\ \A e \in Epochs : sess[e] \in Sessions
           /\ \A v \in Panes : /\ ws[v] \in Ends /\ chan[v] \in Seq(Frames)
                               /\ pane[v] \in Runtimes
           /\ \A e \in Epochs : End(e) \in Nat
           /\ \A v \in Panes : \A k \in 1 .. Len(chan[v]) : chan[v][k].ps \in Seq(Nat)
           /\ made \in Nat /\ 1 <= made /\ \A e \in 1 .. made : e \in Epochs
<1>1. \A e \in Epochs : sess[e] \in Sessions
  BY DEF Shaped
<1>2. \A v \in Panes : ws[v] \in Ends /\ chan[v] \in Seq(Frames) /\ pane[v] \in Runtimes
  BY DEF Shaped
<1>3. \A e \in Epochs : End(e) \in Nat
  BY <1>1 DEF Sessions, End
<1>4. \A v \in Panes : \A k \in 1 .. Len(chan[v]) : chan[v][k] \in Frames
  BY <1>2, ElementOfSeq
<1>5. \A v \in Panes : \A k \in 1 .. Len(chan[v]) : chan[v][k].ps \in Seq(Nat)
  BY <1>4 DEF Frames
<1>6. made \in Nat /\ 1 <= made /\ \A e \in 1 .. made : e \in Epochs
  BY BoundsAssumption DEF Shaped, Epochs
<1>. QED BY <1>1, <1>2, <1>3, <1>5, <1>6

\* Their numbers, names and truth values: the host's, and the panes'.
LEMMA Numbers ==
    ASSUME Shaped
    PROVE  /\ \A e \in Epochs : /\ sess[e].base \in Nat /\ sess[e].lo \in Nat /\ sess[e].hi \in Nat
                               /\ sess[e].on \in BOOLEAN /\ sess[e].settled \in BOOLEAN
                               /\ sess[e].exited \in BOOLEAN /\ sess[e].nudge \in BOOLEAN
           /\ out \in Nat /\ shell.from \in Nat /\ wire.at \in Nat /\ wire.ring \in Nat
           /\ shell.st \in {"alive", "exited", "lost"}
           /\ wire.st \in {"none", "asked", "on", "void"}
           /\ made \in Nat /\ made \in Epochs /\ 1 <= made
           /\ current \in Nat /\ current <= made /\ (current # 0 => current \in Epochs)
<1>1. \A e \in Epochs : sess[e] \in Sessions
  BY DEF Shaped
<1>2. /\ out \in Nat /\ shell.from \in Nat /\ wire.at \in Nat /\ wire.ring \in Nat
      /\ shell.st \in {"alive", "exited", "lost"}
      /\ wire.st \in {"none", "asked", "on", "void"} /\ current \in 0 .. made
  BY DEF Shaped
<1>3. /\ made \in Nat /\ made \in Epochs /\ 1 <= made
      /\ current \in Nat /\ current <= made /\ (current # 0 => current \in Epochs)
  BY <1>2, BoundsAssumption DEF Shaped, Epochs
<1>4. \A e \in Epochs : /\ sess[e].base \in Nat /\ sess[e].lo \in Nat /\ sess[e].hi \in Nat
                        /\ sess[e].on \in BOOLEAN /\ sess[e].settled \in BOOLEAN
                        /\ sess[e].exited \in BOOLEAN /\ sess[e].nudge \in BOOLEAN
  BY <1>1 DEF Sessions
<1>. QED BY <1>2, <1>3, <1>4

\* The panes, their sockets and the persisted snapshot.
LEMMA Typed ==
    ASSUME Shaped
    PROVE  /\ \A v \in Panes : /\ ws[v].id \in Nat /\ ws[v].ask \in Asks
                               /\ ws[v].st \in {"none", "adopting", "respawning", "settling", "attached"}
                               /\ pane[v].st \in {"none", "parked", "mounted"}
                               /\ pane[v].screen \in Seq(Nat) /\ pane[v].anchor \in Anchors
                               /\ pane[v].join \in Joined /\ pane[v].counting \in BOOLEAN
                               /\ pane[v].ever \in BOOLEAN /\ pane[v].since \in BOOLEAN
                               /\ pane[v].got \in BOOLEAN /\ pane[v].had \in BOOLEAN
                               /\ pane[v].ended \in BOOLEAN /\ pane[v].owed \in BOOLEAN
           /\ stored.buf \in Seq(Nat) /\ stored.anchor \in Anchors /\ stored.join \in Joined
<1>1. \A v \in Panes : ws[v] \in Ends /\ pane[v] \in Runtimes
  BY DEF Shaped
<1>2. stored.buf \in Seq(Nat) /\ stored.anchor \in Anchors /\ stored.join \in Joined
  BY DEF Shaped, Stores
<1>3. \A v \in Panes : /\ ws[v].id \in Nat /\ ws[v].ask \in Asks
                       /\ ws[v].st \in {"none", "adopting", "respawning", "settling", "attached"}
  BY <1>1 DEF Ends
<1>4. \A v \in Panes : /\ pane[v].st \in {"none", "parked", "mounted"}
                       /\ pane[v].screen \in Seq(Nat) /\ pane[v].anchor \in Anchors
                       /\ pane[v].join \in Joined /\ pane[v].counting \in BOOLEAN
                       /\ pane[v].ever \in BOOLEAN /\ pane[v].since \in BOOLEAN
                       /\ pane[v].got \in BOOLEAN /\ pane[v].had \in BOOLEAN
                       /\ pane[v].ended \in BOOLEAN /\ pane[v].owed \in BOOLEAN
  BY <1>1 DEF Runtimes
<1>. QED BY <1>2, <1>3, <1>4

\* The object of a socket that waits for a replay or is attached.
LEMMA Placing ==
    ASSUME Shaped, Placed, NEW v \in Panes, ws[v].st \in {"settling", "attached"}
    PROVE  ws[v].id \in Epochs /\ ws[v].id <= made
<1>1. ws[v].id \in Nat /\ ws[v].id <= made /\ ws[v].id # 0
  BY Typed DEF Placed
<1>. QED BY <1>1, Numbers, BoundsAssumption DEF Epochs

\* What closing a socket does to the runtime, and what a runtime asks for.
LEMMA ClosedIs ==
    ASSUME NEW p \in Runtimes
    PROVE  /\ Closed(p) \in Runtimes /\ ~Closed(p).counting
           /\ Closed(p).st = p.st /\ Closed(p).screen = p.screen /\ Closed(p).join = p.join
           /\ Closed(p).ever = p.ever /\ Closed(p).got = p.got /\ Closed(p).had = p.had
           /\ Closed(p).ended = p.ended /\ Closed(p).owed = p.owed
           /\ Closed(p).anchor = p.anchor \/ Closed(p).anchor = NoAnchor
           /\ Closed(p).pend = 0
BY DEF Runtimes, Closed, NoAnchor, Anchors

\* A runtime r that is t but for its queue, of which some may be lost.
Trimmed(t, r) ==
    /\ r \in Runtimes
    /\ r.st = t.st /\ r.anchor = t.anchor /\ r.counting = t.counting
    /\ r.got = t.got /\ r.had = t.had /\ r.join.at = t.join.at
    /\ \A n \in Nat : Below(t.screen, n) => Below(r.screen, n)
    /\ Rising(t.screen) => Rising(r.screen)
    /\ t.screen = <<>> => r.screen = <<>>
    /\ \A a, b \in Nat : Full(t.screen, t.join.lost, a, b) => Full(r.screen, r.join.lost, a, b)

\* What is shed from the queue is missing from the screen, and noted as lost.
LEMMA ShedIs ==
    ASSUME NEW p \in Runtimes, p.pend <= Len(p.screen), NEW n \in 0 .. p.pend
    PROVE  Trimmed(p, Shed(p, n)) /\ Shed(p, n).pend <= Len(Shed(p, n).screen)
<1> DEFINE s == p.screen
           a == Len(s) - p.pend
           t == SubSeq(s, 1, a) \o SubSeq(s, a + n + 1, Len(s))
           gone == {s[a + i] : i \in 1 .. n}
           k == p.pend - n
           j == [at |-> p.join.at, lost |-> p.join.lost \cup gone]
           r == Shed(p, n)
<1>1. /\ s \in Seq(Nat) /\ p.pend \in Nat /\ p.join \in Joined /\ Len(s) \in Nat
      /\ a \in Nat /\ n \in Nat /\ a + n <= Len(s) /\ k \in Nat /\ k <= Len(s) - n
  BY LenProperties DEF Runtimes
<1>2. /\ t \in Seq(Nat) /\ Len(t) = Len(s) - n
      /\ \A i \in 1 .. Len(t) : t[i] = IF i <= a THEN s[i] ELSE s[i + n]
  <2>. HIDE DEF a, s
  <2>. QED BY <1>1, CutIs
<1>3. \A i \in 1 .. Len(s) : s[i] \in Nat
  BY <1>1, ElementOfSeq
<1>4. gone \in SUBSET Nat
  <2>1. \A i \in 1 .. n : a + i \in 1 .. Len(s)
    <3>. HIDE DEF a
    <3>. QED BY <1>1
  <2>. HIDE DEF a, s
  <2>. QED BY <1>3, <2>1
<1>5. r = [p EXCEPT !.screen = t, !.pend = k, !.join = j]
  <2>1. [p.join EXCEPT !.lost = @ \cup gone] = j
    <3>1. ASSUME NEW x \in Joined, NEW h \in SUBSET Nat
          PROVE  [x EXCEPT !.lost = h] = [at |-> x.at, lost |-> h]
      BY DEF Joined
    <3> DEFINE h == p.join.lost \cup gone
    <3>2. h \in SUBSET Nat
      BY <1>1, <1>4 DEF Joined
    <3>3. [p.join EXCEPT !.lost = @ \cup gone] = [p.join EXCEPT !.lost = h]
      OBVIOUS
    <3>. HIDE DEF gone, h
    <3>4. [p.join EXCEPT !.lost = h] = [at |-> p.join.at, lost |-> h]
      BY <1>1, <3>1, <3>2
    <3>. QED BY <3>3, <3>4 DEF h
  <2>2. r = [p EXCEPT !.screen = t, !.pend = k, !.join = [p.join EXCEPT !.lost = @ \cup gone]]
    BY DEF Shed, Runtimes
  <2>. QED BY <2>1, <2>2
<1>6. j \in Joined
  BY <1>1, <1>4 DEF Joined
<1>. HIDE DEF t, k, j, gone, a
<1>7. /\ r \in Runtimes /\ r.screen = t /\ r.pend = k /\ r.join = j
      /\ r.st = p.st /\ r.anchor = p.anchor /\ r.counting = p.counting
      /\ r.got = p.got /\ r.had = p.had
  <2> DEFINE q == [p EXCEPT !.screen = t, !.pend = k, !.join = j]
  <2>1. t \in Seq(Nat) /\ k \in Nat
    BY <1>1, <1>2
  <2>2. /\ q \in Runtimes /\ q.screen = t /\ q.pend = k /\ q.join = j
        /\ q.st = p.st /\ q.anchor = p.anchor /\ q.counting = p.counting
        /\ q.got = p.got /\ q.had = p.had
    BY <1>6, <2>1 DEF Runtimes
  <2>3. r = q
    BY <1>5
  <2>. HIDE DEF q, r
  <2>. QED BY <2>2, <2>3
<1>. HIDE DEF r
<1>8. \A i \in 1 .. Len(t) : \E x \in 1 .. Len(s) : t[i] = s[x]
  BY <1>1, <1>2
<1>9. \A m \in Nat : Below(s, m) => Below(t, m)
  BY <1>8 DEF Below
<1>10. Rising(s) => Rising(t)
  <2>. SUFFICES ASSUME Rising(s), NEW x \in 1 .. Len(t), NEW y \in 1 .. Len(t), x < y
                PROVE  t[x] < t[y]
    BY DEF Rising
  <2> DEFINE h(i) == IF i <= a THEN i ELSE i + n
  <2>1. Len(t) = Len(s) - n /\ x \in Nat /\ y \in Nat
    BY <1>1, <1>2
  <2>2. h(x) \in 1 .. Len(s) /\ h(y) \in 1 .. Len(s) /\ h(x) < h(y)
    <3>. HIDE DEF s
    <3>. QED BY <1>1, <2>1
  <2>3. t[x] = s[h(x)] /\ t[y] = s[h(y)]
    <3>. HIDE DEF s
    <3>. QED BY <1>2
  <2>. HIDE DEF h
  <2>. QED BY <2>2, <2>3 DEF Rising
<1>11. s = <<>> => t = <<>>
  BY <1>1, <1>2, EmptySeq
<1>12. ASSUME NEW b \in Nat, NEW c \in Nat, Full(s, p.join.lost, b, c)
       PROVE  Full(t, j.lost, b, c)
  <2>. SUFFICES ASSUME NEW x \in b + 1 .. c, x \notin j.lost
                PROVE  \E i \in 1 .. Len(t) : t[i] = x
    BY DEF Full
  <2>1. x \notin p.join.lost /\ \A i \in 1 .. n : s[a + i] # x
    BY DEF j, gone
  <2>2. PICK y \in 1 .. Len(s) : s[y] = x
    BY <1>12, <2>1 DEF Full
  <2>3. y <= a \/ y > a + n
    <3>. SUFFICES ASSUME y > a, y <= a + n PROVE FALSE
      BY <1>1
    <3>1. y - a \in 1 .. n /\ a + (y - a) = y
      BY <1>1
    <3>. QED BY <2>1, <2>2, <3>1
  <2>4. CASE y <= a
    <3>1. y \in 1 .. Len(t)
      <4>. HIDE DEF s
      <4>. QED BY <1>1, <1>2, <2>4
    <3>2. t[y] = x
      BY <1>2, <2>2, <2>4, <3>1
    <3>. QED BY <3>1, <3>2
  <2>5. CASE y > a + n
    <3>1. y - n \in 1 .. Len(t) /\ ~(y - n <= a) /\ (y - n) + n = y
      BY <1>1, <1>2, <2>5
    <3>2. t[y - n] = x
      BY <1>2, <2>2, <3>1
    <3>. QED BY <3>1, <3>2
  <2>. QED BY <2>3, <2>4, <2>5
<1>13. j.at = p.join.at
  BY DEF j
<1>14. k <= Len(t)
  BY <1>1, <1>2
<1>. QED BY <1>7, <1>9, <1>10, <1>11, <1>12, <1>13, <1>14 DEF Trimmed, r

\* A queue that is given to xterm.
LEMMA FlushedIs ==
    ASSUME NEW p \in Runtimes
    PROVE  Trimmed(p, [p EXCEPT !.pend = 0]) /\ [p EXCEPT !.pend = 0].pend = 0
BY DEF Trimmed, Runtimes

\* A runtime of which nothing is lost.
LEMMA TrimmedSelf ==
    ASSUME NEW t \in Runtimes
    PROVE  Trimmed(t, t)
BY DEF Trimmed

\* A thread goes on from what is left of a runtime.
LEMMA ThreadTrims ==
    ASSUME NEW q \in Seq(Frames), NEW t, NEW r, Trimmed(t, r), NEW e, NEW s,
           OnThread(q, t, e, s)
    PROVE  OnThread(q, r, e, s)
<1>1. PICK c \in [0 .. Len(q) -> Nat] : Thread(q, c, t, e, s)
  BY DEF OnThread
<1>2. c[0] \in Nat /\ Below(r.screen, c[0])
  <2>1. 0 \in 0 .. Len(q)
    BY LenProperties
  <2>2. c[0] \in Nat
    BY <2>1
  <2>. QED BY <1>1, <2>2 DEF Thread, Trimmed
<1>3. Knows(q, c[0], r, e, s)
  BY <1>1 DEF Thread, Knows, Trimmed
<1>4. Thread(q, c, r, e, s)
  BY <1>1, <1>2, <1>3 DEF Thread
<1>. QED BY <1>4 DEF OnThread

\* An anchor is not behind what is left either.
LEMMA ReachedTrims ==
    ASSUME NEW t \in Runtimes, NEW r, Trimmed(t, r), NEW l, l \in Epochs,
           NEW S \in [Epochs -> Sessions], Reached(t.screen, t.anchor, l, S)
    PROVE  Reached(r.screen, r.anchor, l, S)
<1>. SUFFICES ASSUME t.anchor.e # 0 PROVE Reached(r.screen, r.anchor, l, S)
  BY DEF Reached, Trimmed
<1>1. t.anchor \in Anchors /\ t.anchor.e \in Epochs
  BY BoundsAssumption DEF Runtimes, Anchors, Reached, Epochs
<1>2. S[t.anchor.e].base + t.anchor.n \in Nat
  BY <1>1 DEF Sessions, Anchors
<1>3. Below(r.screen, S[t.anchor.e].base + t.anchor.n)
  BY <1>2 DEF Reached, Trimmed
<1>. QED BY <1>3 DEF Reached, Trimmed

\* What a pane says when it dials.
LEMMA AskIs ==
    ASSUME NEW p \in Runtimes
    PROVE  /\ Ask(p) \in Asks
           /\ Ask(p).k = "anchor" => Ask(p).e = p.anchor.e /\ Ask(p).n = p.anchor.n /\ p.anchor.e # 0
           /\ Ask(p).k = "new" => ~p.had /\ ~p.got
BY DEF Runtimes, Anchors, Asks, Ask, NoAsk

\* What is nothing yet, or nothing any more.
LEMMA Blanks ==
    /\ NoAsk \in Asks /\ NoWs \in Ends /\ NoWs.st = "none" /\ NoWs.id = 0
    /\ <<>> \in Seq(Frames)
    /\ NoJoin \in Joined
    /\ NoStored \in Stores /\ NoStored.buf = <<>> /\ NoStored.anchor = NoAnchor
    /\ NoAnchor \in Anchors /\ NoAnchor.e = 0
    /\ FreshPane \in Runtimes /\ FreshPane.screen = <<>> /\ FreshPane.anchor = NoAnchor
    /\ ~FreshPane.counting /\ FreshPane.st = "none" /\ FreshPane.pend = 0
BY DEF NoJoin, Joined, NoWs, Ends, Asks, NoAsk, NoStored, Stores, NoAnchor, Anchors, FreshPane, Runtimes

\* Flags of a runtime.
LEMMA Marked ==
    ASSUME NEW p \in Runtimes, NEW b \in BOOLEAN
    PROVE  /\ [p EXCEPT !.owed = b] \in Runtimes /\ [p EXCEPT !.ended = b] \in Runtimes
BY DEF Runtimes

\* A new object.
LEMMA SessionIs ==
    ASSUME NEW b \in Nat, NEW k \in BOOLEAN
    PROVE  /\ Session(b, k) \in Sessions /\ Session(b, k).base = b
           /\ Session(b, k).lo = 0 /\ Session(b, k).hi = 0 /\ Session(b, k).settled = k
           /\ Session(b, k).on /\ ~Session(b, k).exited
BY DEF Sessions, Session

\* An object nobody can reach.
LEMMA ForgottenIs ==
    ASSUME NEW s \in Sessions
    PROVE  /\ Forgotten(s) \in Sessions /\ Forgotten(s).base = s.base
           /\ Forgotten(s).lo = 0 /\ Forgotten(s).hi = 0 /\ Forgotten(s).settled
           /\ ~Forgotten(s).on /\ ~Forgotten(s).exited
BY DEF Sessions, Forgotten, NoSession, Session

\* What lay below a position, after a step, lies below a later one.
LEMMA StillBelow ==
    ASSUME Shaped, Shaped', NEW m \in Nat, NEW n \in Nat, m <= n, AllBelow(m),
           \A v \in Panes : Below(pane'[v].screen, n) \/ pane'[v].screen = pane[v].screen,
           \A v \in Panes : \/ chan'[v] = chan[v]
                            \/ \A k \in 1 .. Len(chan'[v]) : Below(chan'[v][k].ps, n),
           Below(stored'.buf, n) \/ stored'.buf = stored.buf,
           \A e \in Epochs : ~sess'[e].on =>
               End(e)' <= n \/ (~sess[e].on /\ End(e)' <= End(e))
    PROVE  AllBelow(n)'
<1>1. \A v \in Panes : Below(pane'[v].screen, n)
  <2>1. \A v \in Panes : pane[v].screen \in Seq(Nat)
    BY DEF Shaped, Runtimes
  <2>2. \A v \in Panes : Below(pane[v].screen, n)
    BY <2>1, BelowLater DEF AllBelow
  <2>. QED BY <2>2
<1>2. \A v \in Panes : \A k \in 1 .. Len(chan'[v]) : Below(chan'[v][k].ps, n)
  <2>1. \A v \in Panes : \A k \in 1 .. Len(chan[v]) : Below(chan[v][k].ps, n)
    BY Fields, BelowLater DEF AllBelow
  <2>. QED BY <2>1
<1>3. Below(stored'.buf, n)
  <2>1. stored.buf \in Seq(Nat)
    BY DEF Shaped, Stores
  <2>2. Below(stored.buf, n)
    BY <2>1, BelowLater DEF AllBelow
  <2>. QED BY <2>2
<1>4. \A e \in Epochs : ~sess'[e].on => End(e)' <= n
  <2>1. \A e \in Epochs : sess[e] \in Sessions /\ sess'[e] \in Sessions
    BY DEF Shaped
  <2>2. \A e \in Epochs : End(e) \in Nat /\ End(e)' \in Nat
    BY <2>1 DEF Sessions, End
  <2>. QED BY <2>2 DEF AllBelow
<1>. QED BY <1>1, <1>2, <1>3, <1>4 DEF AllBelow

\* All that is below a position is below a later one.
LEMMA AllLater ==
    ASSUME Shaped, Bounded, NEW n \in Nat, NEW m \in Nat, m <= n, Frontier(m)
    PROVE  AllBelow(n)
<1>1. AllBelow(m)
  BY DEF Bounded
<1>2. \A v \in Panes : Below(pane[v].screen, n)
  BY <1>1, Typed, BelowLater DEF AllBelow
<1>3. \A v \in Panes : \A k \in 1 .. Len(chan[v]) : Below(chan[v][k].ps, n)
  BY <1>1, Fields, BelowLater DEF AllBelow
<1>4. Below(stored.buf, n)
  BY <1>1, Typed, BelowLater DEF AllBelow
<1>5. \A e \in Epochs : ~sess[e].on => End(e) <= n
  BY <1>1, Fields DEF AllBelow
<1>. QED BY <1>2, <1>3, <1>4, <1>5 DEF AllBelow

\* A frame is added to what is on its way.
LEMMA OneMore ==
    ASSUME NEW q \in Seq(Frames), NEW f \in Frames, NEW n \in Nat, Below(f.ps, n),
           \A k \in 1 .. Len(q) : Below(q[k].ps, n)
    PROVE  \A k \in 1 .. Len(Append(q, f)) : Below(Append(q, f)[k].ps, n)
<1>1. Len(q) \in Nat /\ Len(Append(q, f)) = Len(q) + 1 /\ Append(q, f)[Len(q) + 1] = f
      /\ \A k \in 1 .. Len(q) : Append(q, f)[k] = q[k]
  OBVIOUS
<1>. QED BY <1>1

\* A frame behind the others.
LEMMA FrameAdded ==
    ASSUME NEW q \in Seq(Frames), NEW f \in Frames
    PROVE  Append(q, f) \in Seq(Frames)
BY AppendProperties

\* An empty stretch.
LEMMA StretchNone ==
    ASSUME NEW n \in Nat
    PROVE  Stretch(n, n) = <<>>
BY StretchIs

\* A session takes n more chunks.
Grown(s, n) == [s EXCEPT !.hi = @ + n, !.lo = Larger(@, s.hi + n - RingCap)]

\* An object that is fed.
LEMMA GrownIs ==
    ASSUME NEW s \in Sessions, NEW n \in Nat, s.lo <= s.hi
    PROVE  /\ Grown(s, n) \in Sessions /\ Grown(s, n).base = s.base
           /\ Grown(s, n).hi = s.hi + n /\ Grown(s, n).lo <= s.hi + n
           /\ Grown(s, n).on = s.on /\ Grown(s, n).settled = s.settled
           /\ Grown(s, n).exited = s.exited /\ Grown(s, n).nudge = s.nudge
<1> DEFINE l == Larger(s.lo, s.hi + n - RingCap)
           h == s.hi + n
<1>1. s.lo \in Nat /\ s.hi \in Nat /\ RingCap \in Nat
  BY CapsAssumption DEF Sessions
<1>2. l \in Nat /\ h \in Nat /\ l <= h
  BY <1>1 DEF Larger
<1>3. Grown(s, n) = [s EXCEPT !.hi = h, !.lo = l]
  BY DEF Grown
<1>. HIDE DEF l
<1>4. [s EXCEPT !.hi = h, !.lo = l] \in Sessions
  <2>. HIDE DEF h
  <2>. QED BY <1>2 DEF Sessions
<1>5. LET r == [s EXCEPT !.hi = h, !.lo = l] IN
      /\ r.base = s.base /\ r.hi = h /\ r.lo = l /\ r.on = s.on
      /\ r.settled = s.settled /\ r.exited = s.exited /\ r.nudge = s.nudge
  BY DEF Sessions
<1>. QED BY <1>2, <1>3, <1>4, <1>5

\* The frame of an exit.
LEMMA ExitFrame ==
    Frame("exit") \in Frames /\ Frame("exit").k = "exit" /\ Frame("exit").ps = <<>>
BY DEF Frame, Frames

Output(s) == [Frame("bytes") EXCEPT !.ps = s]

\* The frame of an output.
LEMMA OutputFrame ==
    ASSUME NEW s \in Seq(Nat)
    PROVE  Output(s) \in Frames /\ Output(s).k = "bytes" /\ Output(s).ps = s
BY DEF Frame, Frames, Output

\* Output is sent as one frame.
LEMMA OutputSent ==
    ASSUME NEW s \in Seq(Nat), s # <<>>, NEW q \in Seq(Frames)
    PROVE  q \o Bytes(s) = Append(q, Output(s))
<1>1. Bytes(s) = <<Output(s)>>
  BY DEF Bytes, Output
<1>. QED BY <1>1, OutputFrame, AppendIsConcat

\* No new place to join the stream, and nothing painted.
LEMMA BoundedStays ==
    ASSUME Shaped, Shaped', Bounded,
           \A n \in Nat : Frontier(n)' => \E m \in Nat : m <= n /\ Frontier(m),
           \A v \in Panes : pane'[v].screen = pane[v].screen \/ pane'[v].screen = <<>>,
           \A v \in Panes : chan'[v] = chan[v] \/ chan'[v] = <<>>,
           stored' = stored,
           \A e \in Epochs : ~sess'[e].on => ~sess[e].on /\ End(e)' <= End(e),
           \A v \in Panes : ws'[v].st = "settling" /\ ~sess'[ws'[v].id].on =>
               /\ ws[v].st = "settling" /\ ws'[v].id = ws[v].id
               /\ ~sess[ws[v].id].on /\ End(ws[v].id)' = End(ws[v].id)
               /\ pane'[v].screen = pane[v].screen
    PROVE  Bounded'
<1>1. \A n \in Nat : Below(<<>>, n)
  BY DEF Below
<1>2. ASSUME NEW n \in Nat, Frontier(n)' PROVE AllBelow(n)'
  <2>1. PICK m \in Nat : m <= n /\ Frontier(m)
    BY <1>2
  <2>2. AllBelow(m)
    BY <2>1 DEF Bounded
  <2>3. \A v \in Panes : \/ chan'[v] = chan[v]
                         \/ \A k \in 1 .. Len(chan'[v]) : Below(chan'[v][k].ps, n)
    OBVIOUS
  <2>. QED BY <1>1, <2>1, <2>2, <2>3, StillBelow
<1>3. ASSUME NEW v \in Panes, ws'[v].st = "settling", ~sess'[ws'[v].id].on
      PROVE  Below(pane'[v].screen, sess'[ws'[v].id].base + sess'[ws'[v].id].hi)
  <2>1. Below(pane[v].screen, sess[ws[v].id].base + sess[ws[v].id].hi)
    BY <1>3 DEF Bounded, End
  <2>2. sess'[ws[v].id].base + sess'[ws[v].id].hi = sess[ws[v].id].base + sess[ws[v].id].hi
    BY <1>3 DEF End
  <2>. QED BY <1>3, <2>1, <2>2
<1>. QED BY <1>2, <1>3 DEF Bounded, End

\* An anchor outlives a change of its object.
LEMMA ReachedStays ==
    ASSUME NEW s \in Seq(Nat), NEW a \in Anchors, NEW l \in Epochs, NEW m \in Epochs,
           NEW S \in [Epochs -> Sessions], NEW T \in [Epochs -> Sessions],
           Reached(s, a, l, S), l <= m,
           \A e \in Epochs : e <= l /\ S[e].settled => T[e].settled /\ S[e].base <= T[e].base
    PROVE  Reached(s, a, m, T)
<1>. SUFFICES ASSUME a.e # 0 PROVE Reached(s, a, m, T)
  BY DEF Reached
<1>1. a.e \in Epochs /\ a.e <= l /\ S[a.e].settled /\ Below(s, S[a.e].base + a.n)
  BY BoundsAssumption DEF Reached, Anchors, Epochs
<1>2. T[a.e].settled /\ S[a.e].base \in Nat /\ T[a.e].base \in Nat /\ a.n \in Nat
      /\ S[a.e].base <= T[a.e].base
  BY <1>1 DEF Sessions, Anchors
<1>3. Below(s, T[a.e].base + a.n)
  <2> DEFINE x == S[a.e].base + a.n
             y == T[a.e].base + a.n
  <2>1. x \in Nat /\ y \in Nat /\ x <= y
    BY <1>2
  <2>2. Below(s, x)
    BY <1>1
  <2> HIDE DEF x, y
  <2>3. Below(s, y)
    BY <2>1, <2>2, BelowLater
  <2>. QED BY <2>3 DEF y
<1>. QED BY <1>1, <1>2, <1>3 DEF Reached, Epochs

\* Screens and their positions stay, or positions are given up.
LEMMA AnchoredStays ==
    ASSUME Shaped, Shaped', Anchored, made <= made',
           \A e \in Epochs : e <= made /\ sess[e].settled =>
               sess'[e].settled /\ sess[e].base <= sess'[e].base,
           \A v \in Panes :
               /\ pane'[v].screen = pane[v].screen
               /\ pane'[v].anchor = pane[v].anchor \/ pane'[v].anchor = NoAnchor
               /\ pane'[v].had = pane[v].had /\ pane'[v].got = pane[v].got
               /\ ws'[v].st \in {"adopting", "respawning", "settling"} =>
                     \/ Asking(pane'[v], ws'[v])
                     \/ /\ ws[v].st \in {"adopting", "respawning", "settling"}
                        /\ ws'[v].ask = ws[v].ask /\ pane'[v].anchor = pane[v].anchor,
           stored' = stored
    PROVE  Anchored'
<1>1. sess \in [Epochs -> Sessions] /\ sess' \in [Epochs -> Sessions]
      /\ made \in Epochs /\ made' \in Epochs
  BY DEF Shaped
<1>2. ASSUME NEW v \in Panes
      PROVE  Reached(pane'[v].screen, pane'[v].anchor, made', sess')
  <2>1. pane[v].screen \in Seq(Nat) /\ pane[v].anchor \in Anchors
        /\ Reached(pane[v].screen, pane[v].anchor, made, sess)
    BY DEF Shaped, Runtimes, Anchored
  <2>2. CASE pane'[v].anchor = NoAnchor
    BY <2>2 DEF Reached, NoAnchor
  <2>3. CASE pane'[v].anchor = pane[v].anchor
    <3>1. Reached(pane[v].screen, pane[v].anchor, made', sess')
      BY <1>1, <2>1, ReachedStays
    <3>. QED BY <2>3, <3>1
  <2>. QED BY <2>2, <2>3
<1>3. Reached(stored'.buf, stored'.anchor, made', sess')
  <2>1. stored.buf \in Seq(Nat) /\ stored.anchor \in Anchors
        /\ Reached(stored.buf, stored.anchor, made, sess)
    BY DEF Shaped, Stores, Anchored
  <2>2. Reached(stored.buf, stored.anchor, made', sess')
    BY <1>1, <2>1, ReachedStays
  <2>. QED BY <2>2
<1>4. \A v \in Panes : Asking(pane'[v], ws'[v])
  BY DEF Anchored, Asking
<1>5. \A v \in Panes : pane'[v].screen # <<>> => pane'[v].had \/ pane'[v].got
  BY DEF Anchored
<1>. QED BY <1>2, <1>3, <1>4, <1>5 DEF Anchored

\* A socket on which nothing happens.
LEMMA ThreadStays ==
    ASSUME NEW q \in Seq(Frames), NEW p, NEW e, NEW s, OnThread(q, p, e, s), NEW r, NEW t,
           r.screen = p.screen, r.anchor = p.anchor, r.counting = p.counting,
           t.base = s.base, t.hi = s.hi
    PROVE  OnThread(q, r, e, t)
<1>1. PICK c \in [0 .. Len(q) -> Nat] : Thread(q, c, p, e, s)
  BY DEF OnThread
<1>2. Thread(q, c, r, e, t)
  BY <1>1 DEF Thread, Carries, Knows
<1>. QED BY <1>2 DEF OnThread

\* Threads outlive a step that leaves the attached sockets alone.
LEMMA ThreadedStays ==
    ASSUME Shaped, Threaded,
           \A v \in Panes : ws'[v].st = "attached" =>
               \/ OnThread(chan'[v], pane'[v], ws'[v].id, sess'[ws'[v].id])
               \/ /\ ws[v].st = "attached" /\ ws'[v].id = ws[v].id /\ chan'[v] = chan[v]
                  /\ pane'[v].screen = pane[v].screen /\ pane'[v].anchor = pane[v].anchor
                  /\ pane'[v].counting = pane[v].counting
                  /\ sess'[ws[v].id].base = sess[ws[v].id].base
                  /\ sess'[ws[v].id].hi = sess[ws[v].id].hi
    PROVE  Threaded'
<1>. SUFFICES ASSUME NEW v \in Panes, ws'[v].st = "attached"
              PROVE  OnThread(chan'[v], pane'[v], ws'[v].id, sess'[ws'[v].id])
  BY DEF Threaded
<1>. SUFFICES ASSUME ws[v].st = "attached", ws'[v].id = ws[v].id, chan'[v] = chan[v],
                     pane'[v].screen = pane[v].screen, pane'[v].anchor = pane[v].anchor,
                     pane'[v].counting = pane[v].counting,
                     sess'[ws[v].id].base = sess[ws[v].id].base,
                     sess'[ws[v].id].hi = sess[ws[v].id].hi
              PROVE  OnThread(chan'[v], pane'[v], ws'[v].id, sess'[ws'[v].id])
  OBVIOUS
<1>1. OnThread(chan[v], pane[v], ws[v].id, sess[ws[v].id])
  BY DEF Threaded
<1>2. chan[v] \in Seq(Frames)
  BY DEF Shaped
<1>3. OnThread(chan[v], pane'[v], ws[v].id, sess'[ws[v].id])
  BY <1>1, <1>2, ThreadStays
<1>. QED BY <1>3

USE DEF hostVars

-------------------------------------------------------------------------------
(* The steps.                                                                   *)

\* What Adopt and Respawn have in common: a session object is put into the map.
LEMMA InstallStep ==
    ASSUME Invariant, NEW w \in Pursuers, NEW settled \in BOOLEAN, Install(w, settled),
           w \in Panes => ws[w].st \in {"adopting", "respawning"},
           \/ shell.st = "alive" /\ shell' = shell /\ ~settled
           \/ shell.st # "alive" /\ ~ExitInFlight /\ shell' = [st |-> "alive", from |-> out]
    PROVE  Invariant'
<1>. USE DEF Invariant
<1>0. /\ made \in Nat /\ made' = made + 1 /\ current' = made + 1 /\ made +
            1 \in Epochs
      /\ \/ wire.st = "none" /\ wire'.st = "asked" /\ wire'.at = 0 /\ wire'.ring = 0
         \/ wire.st # "none" /\ wire' = wire
      /\ wire' \in [st : {"none", "asked", "on", "void"}, at : Nat, ring :
            Nat]
      /\ \/ shell.st = "alive" /\ shell' = shell /\ ~settled
         \/ /\ shell.st # "alive" /\ shell'.st = "alive" /\ shell'.from = out
            /\ wire.st = "on" => wire.at >= wire.ring
      /\ shell' \in [st : {"alive", "exited", "lost"}, from : Nat]
      /\ /\ sess'[made + 1].base = IF wire.st = "on" THEN wire.at ELSE out
         /\ sess'[made + 1].lo = 0 /\ sess'[made + 1].hi = 0 /\ sess'[made + 1].on
         /\ sess'[made + 1].settled = settled /\ ~sess'[made + 1].exited
      /\ \A g \in Epochs : g <= made => sess'[g] = sess[g]
      /\ \A g \in Epochs : g # made + 1 => sess'[g] = sess[g]
      /\ ~sess[made + 1].on
      /\ w \in Panes => /\ ws[w].st \in {"adopting", "respawning"} /\ ws'[w].st = "settling"
                         /\ ws'[w].id = made + 1 /\ ws'[w].ask = ws[w].ask
      /\ sess' \in [Epochs -> Sessions]
      /\ \A u \in Panes : u # w => ws'[u] = ws[u]
      /\ ws' \in [Panes -> Ends]
      /\ UNCHANGED <<out, chan, pane, stored>>
  <2>01. FirstBase \in Nat /\ FirstBase = IF wire.st = "on" THEN wire.at ELSE out
    BY Numbers DEF FirstBase
  <2>02. made \in Nat /\ made + 1 \in Nat /\ made + 1 \in Epochs
    BY Numbers DEF Install
  <2>1. \A g \in Epochs : sess[g] \in Sessions
    BY DEF Shaped
  <2>2. \A g \in Epochs : sess'[g] = IF g = made + 1 THEN Session(FirstBase,
        settled) ELSE sess[g]
    BY <2>02 DEF Shaped, Install, MoveOn, Enter
  <2>3. \A g \in Epochs : sess'[g] \in Sessions
    BY <2>1, <2>2, <2>01, SessionIs
  <2>4. sess' = [g \in Epochs |-> sess'[g]]
    BY DEF Shaped, Install, MoveOn, Enter
  <2>5. sess' \in [Epochs -> Sessions]
    BY <2>3, <2>4
  <2>6. \A u \in Panes : ws[u] \in Ends
    BY DEF Shaped
  <2>7. \A u \in Panes : ws'[u] = IF u = w THEN [ws[u] EXCEPT !.st =
        "settling", !.id = made + 1] ELSE ws[u]
    BY <2>02 DEF Shaped, Install, MoveOn, Enter
  <2>8. \A u \in Panes : u # w => ws'[u] = ws[u]
    BY <2>6, <2>7 DEF Ends
  <2>9. \A u \in Panes : ws'[u] \in Ends
    BY <2>6, <2>7, <2>02 DEF Ends
  <2>10. ws' = [u \in Panes |-> ws'[u]]
    BY DEF Shaped, Install, MoveOn, Enter
  <2>11. ws' \in [Panes -> Ends]
    BY <2>9, <2>10
  <2>20. made' = made + 1 /\ current' = made + 1
    BY DEF Install
  <2>21. /\ \/ wire.st = "none" /\ wire'.st = "asked" /\ wire'.at = 0 /\ wire'.ring = 0
            \/ wire.st # "none" /\ wire' = wire
         /\ wire' \in [st : {"none", "asked", "on", "void"}, at : Nat, ring : Nat]
    <3>1. wire \in [st : {"none", "asked", "on", "void"}, at : Nat, ring : Nat]
      BY DEF Shaped
    <3>2. wire' = IF wire.st = "none" THEN [st |-> "asked", at |-> 0, ring |-> 0] ELSE wire
      BY DEF Install, Subscription, NoWire
    <3>. QED BY <3>1, <3>2
  <2>22. /\ \/ shell.st = "alive" /\ shell' = shell /\ ~settled
            \/ /\ shell.st # "alive" /\ shell'.st = "alive" /\ shell'.from = out
               /\ wire.st = "on" => wire.at >= wire.ring
         /\ shell' \in [st : {"alive", "exited", "lost"}, from : Nat]
    <3>1. shell \in [st : {"alive", "exited", "lost"}, from : Nat] /\ out \in Nat
      BY DEF Shaped
    <3>2. shell.st # "alive" /\ ~ExitInFlight /\ wire.st = "on" => wire.at >= wire.ring
      BY <3>1 DEF ExitInFlight, Wired, Called, Counted, Fed
    <3>. QED BY <3>1, <3>2
  <2>23. /\ sess'[made + 1].base = IF wire.st = "on" THEN wire.at ELSE out
         /\ sess'[made + 1].lo = 0 /\ sess'[made + 1].hi = 0 /\ sess'[made + 1].on
         /\ sess'[made + 1].settled = settled /\ ~sess'[made + 1].exited
    BY <2>01, <2>02, <2>2, SessionIs
  <2>24. /\ ~sess[made + 1].on
         /\ \A g \in Epochs : g <= made => sess'[g] = sess[g]
         /\ \A g \in Epochs : g # made + 1 => sess'[g] = sess[g]
    BY <2>02, <2>2 DEF Wired, Called, Epochs
  <2>25. w \in Panes => /\ ws[w].st \in {"adopting", "respawning"} /\ ws'[w].st = "settling"
                        /\ ws'[w].id = made + 1 /\ ws'[w].ask = ws[w].ask
    BY <2>6, <2>7 DEF Ends
  <2>26. UNCHANGED <<out, chan, pane, stored>>
    BY DEF Install
  <2>. QED BY <2>02, <2>5, <2>8, <2>11, <2>20, <2>21, <2>22, <2>23, <2>24, <2>25, <2>26
<1>1. Shaped'
  <2>1. (made \in Epochs)'
    BY <1>0, Numbers
  <2>2. (current \in 0 .. made)'
    BY <1>0, Numbers
  <2>3. (sess \in [Epochs -> Sessions])'
    BY <1>0 DEF Shaped
  <2>4. (wire \in [st : {"none", "asked", "on", "void"}, at : Nat, ring : Nat])'
    BY <1>0, Numbers
  <2>5. (ws \in [Panes -> Ends])'
    BY <1>0 DEF Shaped
  <2>6. (shell \in [st : {"alive", "exited", "lost"}, from : Nat])'
    BY <1>0, Numbers
  <2>. QED BY <1>0, <2>1, <2>2, <2>3, <2>4, <2>5, <2>6 DEF Shaped
<1>2. Wired'
  <2>1. Called'
    <3>1. \A g \in Epochs : sess'[g].on => g = made + 1 \/ (sess[g].on /\ g <= made)
      BY <1>0 DEF Wired, Called
    <3>2. wire'.st # "none" /\ made \in Nat /\ made' = made + 1
      BY <1>0, Numbers
    <3>3. \A g \in Epochs : sess'[g].on => g <= made' /\ wire'.st # "none"
      BY <3>1, <3>2, Numbers DEF Epochs
    <3>4. made + 1 \in Epochs /\ sess'[made + 1].on /\ current' = made + 1
      BY <1>0
    <3>. QED BY <3>3, <3>4 DEF Called
  <2>2. Counted'
    BY <1>0, Numbers DEF Wired, Called, Counted, Fed, End
  <2>3. Fed'
    BY <1>0, Numbers DEF Wired, Called, Counted, Fed, End
  <2>. QED BY <2>1, <2>2, <2>3 DEF Wired
<1>3. Placed'
  <2>. SUFFICES ASSUME NEW u \in Panes
                PROVE  /\ ws'[u].id <= made'
                       /\ ws'[u].st \in {"settling", "attached"} => ws'[u].id # 0
                       /\ ws'[u].st = "attached" => sess'[ws'[u].id].settled
                       /\ ws'[u].st # "none" => pane'[u].st # "none"
                       /\ ws'[u].st # "attached" => ~pane'[u].counting
    BY DEF Placed
  <2>1. CASE u = w
    BY <2>1, <1>0, Numbers, Typed DEF Placed, Wired, Called
  <2>2. CASE u # w
    BY <2>2, <1>0, Placing, Numbers, Typed DEF Placed
  <2>. QED BY <2>1, <2>2
<1>4. Bounded'
  <2>1. \A n \in Nat : Frontier(n)' => \E m \in Nat : m <= n /\ Frontier(m)
    BY <1>0, Numbers DEF Wired, Called, Counted, Fed, End, Frontier,
       Larger
  <2>2. \A u \in Panes : /\ pane'[u].screen = pane[u].screen \/ pane'[u].screen = <<>>
                         /\ chan'[u] = chan[u] \/ chan'[u] = <<>>
    BY <1>0
  <2>3. \A g \in Epochs : ~sess'[g].on => ~sess[g].on /\ End(g)' <= End(g)
    BY <1>0, Numbers DEF End
  <2>4. \A u \in Panes : ws'[u].st = "settling" /\ ~sess'[ws'[u].id].on =>
            /\ ws[u].st = "settling" /\ ws'[u].id = ws[u].id
            /\ ~sess[ws[u].id].on /\ End(ws[u].id)' = End(ws[u].id)
            /\ pane'[u].screen = pane[u].screen
    BY <1>0, Numbers, Placing DEF End, Placed, Wired, Called
  <2>5. stored' = stored
    BY <1>0
  <2>. QED BY <1>1, <2>1, <2>2, <2>3, <2>4, <2>5, BoundedStays
<1>5. Anchored'
  <2>1. \A g \in Epochs : g <= made /\ sess[g].settled =>
            sess'[g].settled /\ sess[g].base <= sess'[g].base
    BY <1>0, Numbers DEF Wired, Called, Counted, Fed, End
  <2>2. \A u \in Panes :
            /\ pane'[u].screen = pane[u].screen
            /\ pane'[u].anchor = pane[u].anchor \/ pane'[u].anchor = NoAnchor
            /\ pane'[u].had = pane[u].had /\ pane'[u].got = pane[u].got
    BY <1>0
  <2>3. \A u \in Panes : ws'[u].st \in {"adopting", "respawning", "settling"} =>
            \/ Asking(pane'[u], ws'[u])
            \/ /\ ws[u].st \in {"adopting", "respawning", "settling"}
               /\ ws'[u].ask = ws[u].ask /\ pane'[u].anchor = pane[u].anchor
    BY <1>0
  <2>4. stored' = stored /\ made <= made'
    BY <1>0, Numbers
  <2>. QED BY <1>1, <2>1, <2>2, <2>3, <2>4, AnchoredStays
<1>6. Threaded'
  <2>1. \A u \in Panes : ws'[u].st = "attached" =>
            /\ ws[u].st = "attached" /\ ws'[u].id = ws[u].id /\ chan'[u] = chan[u]
            /\ pane'[u].screen = pane[u].screen /\ pane'[u].anchor = pane[u].anchor
            /\ pane'[u].counting = pane[u].counting
            /\ sess'[ws[u].id].base = sess[ws[u].id].base
            /\ sess'[ws[u].id].hi = sess[ws[u].id].hi
    BY <1>0, Placing DEF Placed
  <2>. QED BY <2>1, ThreadedStays
<1>7. Steady'
  BY <1>0 DEF Steady, Rising
<1>. QED BY <1>1, <1>2, <1>3, <1>4, <1>5, <1>6, <1>7

\* Write keeps the invariant.
LEMMA WriteStep ==
    ASSUME Invariant, Write
    PROVE  Invariant'
<1>. USE DEF Invariant
<1>0. /\ out' = out + 1
      /\ UNCHANGED <<shell, wire, sess, made, current, ws, chan, pane,
            stored>>
  BY Typed DEF Epochs, Write
<1>1. Shaped'
  <2>1. (out \in Nat)'
    BY Typed DEF Shaped, Write
  <2>. QED BY <1>0, <2>1 DEF Shaped
<1>2. Wired'
  <2>1. Called'
    BY <1>0, Numbers DEF Wired, Called, Counted, Fed, End
  <2>2. Counted'
    BY <1>0, Numbers DEF Wired, Called, Counted, Fed, End
  <2>3. Fed'
    BY <1>0, Numbers DEF Wired, Called, Counted, Fed, End
  <2>. QED BY <2>1, <2>2, <2>3 DEF Wired
<1>3. Placed'
  BY <1>0, Numbers, Typed, Placing DEF Wired, Called, Placed
<1>4. Bounded'
  <2>1. \A n \in Nat : Frontier(n)' => \E m \in Nat : m <= n /\ Frontier(m)
    BY <1>0, Numbers DEF Wired, Called, Counted, Fed, End, Frontier,
       Larger
  <2>2. \A u \in Panes : /\ pane'[u].screen = pane[u].screen \/ pane'[u].screen = <<>>
                         /\ chan'[u] = chan[u] \/ chan'[u] = <<>>
    BY <1>0
  <2>3. \A g \in Epochs : ~sess'[g].on => ~sess[g].on /\ End(g)' <= End(g)
    BY <1>0, Numbers DEF End
  <2>4. \A u \in Panes : ws'[u].st = "settling" /\ ~sess'[ws'[u].id].on =>
            /\ ws[u].st = "settling" /\ ws'[u].id = ws[u].id
            /\ ~sess[ws[u].id].on /\ End(ws[u].id)' = End(ws[u].id)
            /\ pane'[u].screen = pane[u].screen
    BY <1>0, Numbers, Placing DEF End, Placed, Wired, Called
  <2>5. stored' = stored
    BY <1>0
  <2>. QED BY <1>1, <2>1, <2>2, <2>3, <2>4, <2>5, BoundedStays
<1>5. Anchored'
  <2>1. \A g \in Epochs : g <= made /\ sess[g].settled =>
            sess'[g].settled /\ sess[g].base <= sess'[g].base
    BY <1>0, Numbers DEF Wired, Called, Counted, Fed, End
  <2>2. \A u \in Panes :
            /\ pane'[u].screen = pane[u].screen
            /\ pane'[u].anchor = pane[u].anchor \/ pane'[u].anchor = NoAnchor
            /\ pane'[u].had = pane[u].had /\ pane'[u].got = pane[u].got
    BY <1>0
  <2>3. \A u \in Panes : ws'[u].st \in {"adopting", "respawning", "settling"} =>
            \/ Asking(pane'[u], ws'[u])
            \/ /\ ws[u].st \in {"adopting", "respawning", "settling"}
               /\ ws'[u].ask = ws[u].ask /\ pane'[u].anchor = pane[u].anchor
    BY <1>0
  <2>4. stored' = stored /\ made <= made'
    BY <1>0, Numbers
  <2>. QED BY <1>1, <2>1, <2>2, <2>3, <2>4, AnchoredStays
<1>6. Threaded'
  <2>1. \A u \in Panes : ws'[u].st = "attached" =>
            /\ ws[u].st = "attached" /\ ws'[u].id = ws[u].id /\ chan'[u] = chan[u]
            /\ pane'[u].screen = pane[u].screen /\ pane'[u].anchor = pane[u].anchor
            /\ pane'[u].counting = pane[u].counting
            /\ sess'[ws[u].id].base = sess[ws[u].id].base
            /\ sess'[ws[u].id].hi = sess[ws[u].id].hi
    BY <1>0, Placing DEF Placed
  <2>. QED BY <2>1, ThreadedStays
<1>7. Steady'
  BY <1>0 DEF Steady, Rising
<1>. QED BY <1>1, <1>2, <1>3, <1>4, <1>5, <1>6, <1>7

\* ShellExits keeps the invariant.
LEMMA ShellExitsStep ==
    ASSUME Invariant, ShellExits
    PROVE  Invariant'
<1>. USE DEF Invariant
<1>0. /\ shell.st = "alive" /\ shell'.st = "exited" /\ shell'.from =
            shell.from
      /\ UNCHANGED <<out, wire, sess, made, current, ws, chan, pane,
            stored>>
  BY Typed DEF Epochs, ShellExits
<1>1. Shaped'
  <2>1. (shell \in [st : {"alive", "exited", "lost"}, from : Nat])'
    BY Typed DEF Shaped, ShellExits
  <2>. QED BY <1>0, <2>1 DEF Shaped
<1>2. Wired'
  <2>1. Called'
    BY <1>0, Numbers DEF Wired, Called, Counted, Fed, End
  <2>2. Counted'
    BY <1>0, Numbers DEF Wired, Called, Counted, Fed, End
  <2>3. Fed'
    BY <1>0, Numbers DEF Wired, Called, Counted, Fed, End
  <2>. QED BY <2>1, <2>2, <2>3 DEF Wired
<1>3. Placed'
  BY <1>0, Numbers, Typed, Placing DEF Wired, Called, Placed
<1>4. Bounded'
  <2>1. \A n \in Nat : Frontier(n)' => \E m \in Nat : m <= n /\ Frontier(m)
    BY <1>0, Numbers DEF Wired, Called, Counted, Fed, End, Frontier,
       Larger
  <2>2. \A u \in Panes : /\ pane'[u].screen = pane[u].screen \/ pane'[u].screen = <<>>
                         /\ chan'[u] = chan[u] \/ chan'[u] = <<>>
    BY <1>0
  <2>3. \A g \in Epochs : ~sess'[g].on => ~sess[g].on /\ End(g)' <= End(g)
    BY <1>0, Numbers DEF End
  <2>4. \A u \in Panes : ws'[u].st = "settling" /\ ~sess'[ws'[u].id].on =>
            /\ ws[u].st = "settling" /\ ws'[u].id = ws[u].id
            /\ ~sess[ws[u].id].on /\ End(ws[u].id)' = End(ws[u].id)
            /\ pane'[u].screen = pane[u].screen
    BY <1>0, Numbers, Placing DEF End, Placed, Wired, Called
  <2>5. stored' = stored
    BY <1>0
  <2>. QED BY <1>1, <2>1, <2>2, <2>3, <2>4, <2>5, BoundedStays
<1>5. Anchored'
  <2>1. \A g \in Epochs : g <= made /\ sess[g].settled =>
            sess'[g].settled /\ sess[g].base <= sess'[g].base
    BY <1>0, Numbers DEF Wired, Called, Counted, Fed, End
  <2>2. \A u \in Panes :
            /\ pane'[u].screen = pane[u].screen
            /\ pane'[u].anchor = pane[u].anchor \/ pane'[u].anchor = NoAnchor
            /\ pane'[u].had = pane[u].had /\ pane'[u].got = pane[u].got
    BY <1>0
  <2>3. \A u \in Panes : ws'[u].st \in {"adopting", "respawning", "settling"} =>
            \/ Asking(pane'[u], ws'[u])
            \/ /\ ws[u].st \in {"adopting", "respawning", "settling"}
               /\ ws'[u].ask = ws[u].ask /\ pane'[u].anchor = pane[u].anchor
    BY <1>0
  <2>4. stored' = stored /\ made <= made'
    BY <1>0, Numbers
  <2>. QED BY <1>1, <2>1, <2>2, <2>3, <2>4, AnchoredStays
<1>6. Threaded'
  <2>1. \A u \in Panes : ws'[u].st = "attached" =>
            /\ ws[u].st = "attached" /\ ws'[u].id = ws[u].id /\ chan'[u] = chan[u]
            /\ pane'[u].screen = pane[u].screen /\ pane'[u].anchor = pane[u].anchor
            /\ pane'[u].counting = pane[u].counting
            /\ sess'[ws[u].id].base = sess[ws[u].id].base
            /\ sess'[ws[u].id].hi = sess[ws[u].id].hi
    BY <1>0, Placing DEF Placed
  <2>. QED BY <2>1, ThreadedStays
<1>7. Steady'
  BY <1>0 DEF Steady, Rising
<1>. QED BY <1>1, <1>2, <1>3, <1>4, <1>5, <1>6, <1>7

\* Subscribe keeps the invariant.
LEMMA SubscribeStep ==
    ASSUME Invariant, Subscribe
    PROVE  Invariant'
<1>. USE DEF Invariant
<1>0. /\ wire.st = "asked"
      /\ shell.st # "alive" => wire'.st = "void" /\ wire'.at = wire.at /\
            wire'.ring = wire.ring
      /\ shell.st = "alive" => /\ wire'.st = "on" /\ wire'.ring = out
                              /\ shell.from <= wire'.at /\ wire'.at <= out
      /\ wire' \in [st : {"none", "asked", "on", "void"}, at : Nat, ring :
            Nat]
      /\ \A g \in Epochs : /\ sess'[g].lo = sess[g].lo /\ sess'[g].hi = sess[g].hi
                           /\ sess'[g].on = sess[g].on /\ sess'[g].settled = sess[g].settled
                           /\ sess'[g].exited = sess[g].exited /\ sess'[g].nudge = sess[g].nudge
      /\ \A g \in Epochs : sess'[g].base = IF shell.st = "alive" /\
            sess[g].on THEN wire'.at ELSE sess[g].base
      /\ sess' \in [Epochs -> Sessions]
      /\ UNCHANGED <<out, shell, made, current, ws, chan, pane, stored>>
  <2>01. Larger(shell.from, out - DaemonCap) \in Nat /\ Larger(shell.from, out - DaemonCap) <= out
         /\ shell.from <= Larger(shell.from, out - DaemonCap)
    BY Numbers, CapsAssumption DEF Larger, Wired, Counted
  <2>02. wire.st = "asked" /\ wire' = IF shell.st = "alive"
            THEN [st |-> "on", at |-> Larger(shell.from, out - DaemonCap), ring |-> out]
            ELSE [wire EXCEPT !.st = "void"]
    BY DEF Subscribe
  <2>03. wire \in [st : {"none", "asked", "on", "void"}, at : Nat, ring : Nat] /\ out \in Nat
    BY DEF Shaped
  <2>0. /\ wire' \in [st : {"none", "asked", "on", "void"}, at : Nat, ring : Nat]
        /\ shell.st # "alive" => wire'.st = "void" /\ wire'.at = wire.at /\ wire'.ring = wire.ring
        /\ shell.st = "alive" => /\ wire'.st = "on" /\ wire'.ring = out
                                 /\ wire'.at = Larger(shell.from, out - DaemonCap)
                                 /\ shell.from <= wire'.at /\ wire'.at <= out
    BY <2>01, <2>02, <2>03
  <2>1. \A g \in Epochs : sess[g] \in Sessions
    BY DEF Shaped
  <2>2. \A g \in Epochs : sess'[g] = IF shell.st = "alive" /\ sess[g].on THEN [sess[g] EXCEPT !.base = wire'.at]
            ELSE sess[g]
    BY <2>0 DEF Shaped, Subscribe
  <2>3. \A g \in Epochs : sess'[g].lo = sess[g].lo /\ sess'[g].hi = sess[g].hi
        /\ sess'[g].on = sess[g].on /\ sess'[g].settled = sess[g].settled /\
        sess'[g].exited = sess[g].exited /\ sess'[g].nudge = sess[g].nudge
    BY <2>1, <2>2 DEF Sessions
  <2>4. \A g \in Epochs : sess'[g].base = IF shell.st = "alive" /\ sess[g].on
        THEN wire'.at ELSE sess[g].base
    BY <2>1, <2>2 DEF Sessions
  <2>5. \A g \in Epochs : sess'[g] \in Sessions
    BY <2>1, <2>2, <2>0 DEF Sessions
  <2>6. sess' = [g \in Epochs |-> sess'[g]]
    BY <2>0 DEF Shaped, Subscribe
  <2>7. sess' \in [Epochs -> Sessions]
    BY <2>5, <2>6
  <2>. QED BY <2>0, <2>3, <2>4, <2>7 DEF Shaped, Subscribe
<1>1. Shaped'
  <2>1. (wire \in [st : {"none", "asked", "on", "void"}, at : Nat, ring : Nat])'
    BY <1>0
  <2>2. (sess \in [Epochs -> Sessions])'
    BY <1>0 DEF Shaped
  <2>. QED BY <1>0, <2>1, <2>2 DEF Shaped
<1>2. Wired'
  <2>1. Called'
    BY <1>0, Numbers DEF Wired, Called, Counted, Fed, End
  <2>2. Counted'
    BY <1>0, Numbers DEF Wired, Called, Counted, Fed, End
  <2>3. Fed'
    BY <1>0, Numbers DEF Wired, Called, Counted, Fed, End
  <2>. QED BY <2>1, <2>2, <2>3 DEF Wired
<1>3. Placed'
  BY <1>0, Numbers, Typed, Placing DEF Wired, Called, Placed
<1>4. Bounded'
  <2>1. \A n \in Nat : Frontier(n)' => \E m \in Nat : m <= n /\ Frontier(m)
    BY <1>0, Numbers DEF Wired, Called, Counted, Fed, End, Frontier,
       Larger
  <2>2. \A u \in Panes : /\ pane'[u].screen = pane[u].screen \/ pane'[u].screen = <<>>
                         /\ chan'[u] = chan[u] \/ chan'[u] = <<>>
    BY <1>0
  <2>3. \A g \in Epochs : ~sess'[g].on => ~sess[g].on /\ End(g)' <= End(g)
    BY <1>0, Numbers DEF End
  <2>4. \A u \in Panes : ws'[u].st = "settling" /\ ~sess'[ws'[u].id].on =>
            /\ ws[u].st = "settling" /\ ws'[u].id = ws[u].id
            /\ ~sess[ws[u].id].on /\ End(ws[u].id)' = End(ws[u].id)
            /\ pane'[u].screen = pane[u].screen
    BY <1>0, Numbers, Placing DEF End, Placed, Wired, Called
  <2>5. stored' = stored
    BY <1>0
  <2>. QED BY <1>1, <2>1, <2>2, <2>3, <2>4, <2>5, BoundedStays
<1>5. Anchored'
  <2>1. \A g \in Epochs : g <= made /\ sess[g].settled =>
            sess'[g].settled /\ sess[g].base <= sess'[g].base
    BY <1>0, Numbers DEF Wired, Called, Counted, Fed, End
  <2>2. \A u \in Panes :
            /\ pane'[u].screen = pane[u].screen
            /\ pane'[u].anchor = pane[u].anchor \/ pane'[u].anchor = NoAnchor
            /\ pane'[u].had = pane[u].had /\ pane'[u].got = pane[u].got
    BY <1>0
  <2>3. \A u \in Panes : ws'[u].st \in {"adopting", "respawning", "settling"} =>
            \/ Asking(pane'[u], ws'[u])
            \/ /\ ws[u].st \in {"adopting", "respawning", "settling"}
               /\ ws'[u].ask = ws[u].ask /\ pane'[u].anchor = pane[u].anchor
    BY <1>0
  <2>4. stored' = stored /\ made <= made'
    BY <1>0, Numbers
  <2>. QED BY <1>1, <2>1, <2>2, <2>3, <2>4, AnchoredStays
<1>6. Threaded'
  <2>. SUFFICES ASSUME NEW u \in Panes, ws'[u].st = "attached"
                PROVE  OnThread(chan'[u], pane'[u], ws'[u].id, sess'[ws'[u].id])
    BY DEF Threaded
  <2>1. /\ ws[u].st = "attached" /\ ws'[u] = ws[u] /\ ws[u].id \in Epochs
        /\ sess[ws[u].id].settled /\ pane[u] \in Runtimes /\ chan[u] \in Seq(Frames)
        /\ OnThread(chan[u], pane[u], ws[u].id, sess[ws[u].id])
    BY <1>0, Placing, Fields DEF Placed, Threaded
  <2>2. CASE sess[ws[u].id].on
    <3>1. sess[ws[u].id].hi = 0 /\ sess'[ws[u].id].hi = 0
      BY <2>1, <2>2, <1>0 DEF Wired, Fed
    <3>2. sess[ws[u].id].base <= sess'[ws[u].id].base
      BY <2>1, <2>2, <1>0, Numbers DEF Wired, Fed
    <3>3. sess[ws[u].id].base \in Nat /\ sess'[ws[u].id].base \in Nat
      BY <2>1, <1>0, Numbers DEF Sessions
    <3>. QED BY <2>1, <1>0, <3>1, <3>2, <3>3, ThreadLifts
  <2>3. CASE ~sess[ws[u].id].on
    <3>1. /\ sess'[ws[u].id].base = sess[ws[u].id].base /\ sess'[ws[u].id].hi = sess[ws[u].id].hi
          /\ chan'[u] = chan[u] /\ pane'[u] = pane[u]
      BY <2>1, <2>3, <1>0
    <3>. QED BY <2>1, <3>1, ThreadStays
  <2>. QED BY <2>2, <2>3
<1>7. Steady'
  BY <1>0 DEF Steady, Rising
<1>. QED BY <1>1, <1>2, <1>3, <1>4, <1>5, <1>6, <1>7

\* What a chunk of output, or the ring of a new subscription, changes.
LEMMA DeliverOutputDoes ==
    ASSUME Invariant, DeliverOutput
    PROVE  /\ wire' \in [st : {"none", "asked", "on", "void"}, at : Nat, ring :
                 Nat]
           /\ wire.st = "on" /\ wire'.st = "on" /\ wire'.ring = 0
           /\ wire.at \in Nat /\ wire'.at \in Nat /\ wire.at < wire'.at /\
                 wire'.at <= out /\ wire.ring <= wire'.at
           /\ \A g \in Epochs : /\ sess'[g].base = sess[g].base /\ sess'[g].on = sess[g].on
                                /\ sess'[g].settled = sess[g].settled
                                /\ sess'[g].exited = sess[g].exited
                                /\ sess'[g].nudge = sess[g].nudge
           /\ \A g \in Epochs : ~sess[g].on => sess'[g] = sess[g]
           /\ \A g \in Epochs : /\ sess'[g].lo <= sess'[g].hi /\ sess'[g].lo \in Nat
                                /\ sess'[g].hi \in Nat
           /\ \A g \in Epochs : sess[g].on => sess'[g].hi = sess[g].hi +
                 (wire'.at - wire.at)
           /\ sess' \in [Epochs -> Sessions]
           /\ \A u \in Panes : chan'[u] = IF ws[u].st = "attached" /\ sess[ws[u].id].on
                                     THEN Append(chan[u], Output(Stretch(wire.at, wire'.at)))
                                     ELSE chan[u]
           /\ chan' \in [Panes -> Seq(Frames)]
           /\ \A g \in Epochs : sess[g].on => sess[g].base + sess[g].hi =
                 wire.at /\ sess'[g].base + sess'[g].hi = wire'.at
           /\ UNCHANGED <<out, shell, made, current, ws, pane, stored>>
<1>. USE DEF Invariant
<1> DEFINE to == IF wire.at < wire.ring THEN wire.ring ELSE wire.at + 1
<1>01. wire' = [wire EXCEPT !.at = to, !.ring = IF @ <= to THEN 0 ELSE @] /\ wire.st = "on" /\ to <= out
  BY DEF DeliverOutput
<1>02. wire \in [st : {"none", "asked", "on", "void"}, at : Nat, ring : Nat] /\ out \in Nat
  BY DEF Shaped
<1>03. to \in Nat /\ wire.ring <= to /\ wire.at < to /\ wire.at \in Nat /\ wire.at <= to
  BY <1>02
<1>04. wire'.at = to
  BY <1>01, <1>02, <1>03
<1>. HIDE DEF to
<1>0. /\ wire' \in [st : {"none", "asked", "on", "void"}, at : Nat, ring : Nat]
      /\ wire.st = "on" /\ wire'.st = "on" /\ wire'.ring = 0
      /\ wire.at \in Nat /\ wire'.at \in Nat /\ wire.at < wire'.at /\ wire'.at <= out /\ wire.ring <= wire'.at
      /\ Stretch(wire.at, wire'.at) \in Seq(Nat) /\ Stretch(wire.at, wire'.at) # <<>>
      /\ wire'.at - wire.at \in Nat /\ \A g \in Epochs : sess[g].lo <= sess[g].hi
  <2>1. wire' \in [st : {"none", "asked", "on", "void"}, at : Nat, ring : Nat] /\ wire'.st = "on" /\ wire'.ring = 0
    BY <1>01, <1>02, <1>03
  <2>2. /\ Stretch(wire.at, to) \in Seq(Nat) /\ Len(Stretch(wire.at, to)) = to - wire.at
    BY <1>03, StretchIs
  <2>. QED BY <2>1, <2>2, <1>01, <1>02, <1>03, <1>04 DEF Wired, Counted
<1>06. Output(Stretch(wire.at, wire'.at)) \in Frames
  BY <1>0, OutputFrame
<1>07. ASSUME NEW g \in Epochs
       PROVE  LET r == Grown(sess[g], wire'.at - wire.at) IN
              /\ r \in Sessions /\ r.base = sess[g].base /\ r.on = sess[g].on
              /\ r.settled = sess[g].settled /\ r.exited = sess[g].exited
              /\ r.nudge = sess[g].nudge /\ r.hi = sess[g].hi + (wire'.at - wire.at)
              /\ r.lo <= r.hi /\ sess[g].lo <= sess[g].hi /\ r.lo \in Nat /\ r.hi \in Nat
              /\ sess[g].lo \in Nat /\ sess[g].hi \in Nat
  <2> DEFINE n == wire'.at - wire.at
  <2>1. n \in Nat /\ sess[g] \in Sessions /\ sess[g].lo <= sess[g].hi
    BY <1>0, Fields
  <2>. HIDE DEF n
  <2>2. LET r == Grown(sess[g], n) IN
        /\ r \in Sessions /\ r.base = sess[g].base /\ r.on = sess[g].on
        /\ r.settled = sess[g].settled /\ r.exited = sess[g].exited
        /\ r.nudge = sess[g].nudge /\ r.hi = sess[g].hi + n /\ r.lo <= r.hi
    BY <2>1, GrownIs
  <2>3. \A r \in Sessions : r.lo \in Nat /\ r.hi \in Nat
    BY DEF Sessions
  <2>. QED BY <2>1, <2>2, <2>3 DEF n
<1>1. \A g \in Epochs : sess[g] \in Sessions
  BY DEF Shaped
<1>2. \A g \in Epochs : sess'[g] = IF sess[g].on THEN Grown(sess[g],
      wire'.at - wire.at) ELSE sess[g]
  BY <1>0, <1>04, OutputSent, Fields DEF Shaped, Grown, DeliverOutput
<1>3. \A g \in Epochs : /\ sess'[g].base = sess[g].base /\ sess'[g].on = sess[g].on
                        /\ sess'[g].settled = sess[g].settled /\ sess'[g].exited = sess[g].exited
                        /\ sess'[g].nudge = sess[g].nudge
  BY <1>1, <1>2, <1>07
<1>4. \A g \in Epochs : ~sess[g].on => sess'[g] = sess[g]
  BY <1>1, <1>2, <1>07
<1>5. \A g \in Epochs : /\ sess'[g].lo <= sess'[g].hi /\ sess'[g].lo \in Nat /\ sess'[g].hi \in Nat
  BY <1>1, <1>2, <1>07
<1>6. \A g \in Epochs : sess[g].on => sess'[g].hi = sess[g].hi + (wire'.at -
      wire.at)
  BY <1>1, <1>2, <1>07
<1>7. \A g \in Epochs : sess'[g] \in Sessions
  BY <1>1, <1>2, <1>07
<1>8. sess' = [g \in Epochs |-> sess'[g]]
  BY <1>0, <1>04, OutputSent, Fields DEF Shaped, Grown, DeliverOutput
<1>9. sess' \in [Epochs -> Sessions]
  BY <1>7, <1>8
<1>10. \A u \in Panes : chan[u] \in Seq(Frames)
  BY DEF Shaped
<1>11. \A u \in Panes : chan'[u] = IF ws[u].st = "attached" /\ sess[ws[u].id].on
          THEN Append(chan[u], Output(Stretch(wire.at, wire'.at))) ELSE chan[u]
  BY <1>0, <1>04, OutputSent, Fields DEF Shaped, Grown, DeliverOutput
<1>12. \A u \in Panes : chan'[u] = IF ws[u].st = "attached" /\ sess[ws[u].id].on
                              THEN Append(chan[u], Output(Stretch(wire.at, wire'.at)))
                              ELSE chan[u]
  BY <1>10, <1>11
<1>13. \A u \in Panes : chan'[u] \in Seq(Frames)
  BY <1>10, <1>11, <1>06, FrameAdded
<1>14. chan' = [u \in Panes |-> chan'[u]]
  BY <1>0, <1>04, OutputSent, Fields DEF Shaped, Grown, DeliverOutput
<1>15. chan' \in [Panes -> Seq(Frames)]
  BY <1>13, <1>14
<1>20. \A g \in Epochs : sess[g].on => sess[g].base + sess[g].hi = wire.at /\ sess'[g].base + sess'[g].hi = wire'.at
  <2>1. \A g \in Epochs : sess[g].on => sess[g].base + sess[g].hi = wire.at
    BY <1>0 DEF Wired, Fed, End
  <2>2. \A g \in Epochs : sess[g].base \in Nat /\ sess[g].hi \in Nat
    BY Numbers
  <2>3. wire.at \in Nat /\ wire'.at \in Nat
    BY <1>0
  <2>. QED BY <1>3, <1>6, <2>1, <2>2, <2>3
<1>. QED BY <1>0, <1>20, <1>3, <1>4, <1>5, <1>6, <1>9, <1>12, <1>15 DEF Shaped, DeliverOutput

\* DeliverOutput keeps the invariant.
LEMMA DeliverOutputStep ==
    ASSUME Invariant, DeliverOutput
    PROVE  Invariant'
<1>. USE DEF Invariant
<1>0. /\ wire' \in [st : {"none", "asked", "on", "void"}, at : Nat, ring :
            Nat]
      /\ wire.st = "on" /\ wire'.st = "on" /\ wire'.ring = 0
      /\ wire.at \in Nat /\ wire'.at \in Nat /\ wire.at < wire'.at /\
            wire'.at <= out /\ wire.ring <= wire'.at
      /\ \A g \in Epochs : /\ sess'[g].base = sess[g].base /\ sess'[g].on = sess[g].on
                           /\ sess'[g].settled = sess[g].settled /\ sess'[g].exited = sess[g].exited
                           /\ sess'[g].nudge = sess[g].nudge
      /\ \A g \in Epochs : ~sess[g].on => sess'[g] = sess[g]
      /\ \A g \in Epochs : /\ sess'[g].lo <= sess'[g].hi /\ sess'[g].lo \in Nat
                           /\ sess'[g].hi \in Nat
      /\ \A g \in Epochs : sess[g].on => sess'[g].hi = sess[g].hi +
            (wire'.at - wire.at)
      /\ sess' \in [Epochs -> Sessions]
      /\ \A u \in Panes : chan'[u] = IF ws[u].st = "attached" /\ sess[ws[u].id].on
                                THEN Append(chan[u], Output(Stretch(wire.at, wire'.at)))
                                ELSE chan[u]
      /\ chan' \in [Panes -> Seq(Frames)]
      /\ \A g \in Epochs : sess[g].on => sess[g].base + sess[g].hi =
            wire.at /\ sess'[g].base + sess'[g].hi = wire'.at
      /\ UNCHANGED <<out, shell, made, current, ws, pane, stored>>
  BY DeliverOutputDoes
<1>1. Shaped'
  <2>1. (wire \in [st : {"none", "asked", "on", "void"}, at : Nat, ring : Nat])'
    BY <1>0
  <2>2. (sess \in [Epochs -> Sessions])'
    BY <1>0 DEF Shaped
  <2>3. (chan \in [Panes -> Seq(Frames)])'
    BY <1>0 DEF Shaped
  <2>. QED BY <1>0, <2>1, <2>2, <2>3 DEF Shaped
<1>2. Wired'
  <2>1. Called'
    BY <1>0, Numbers DEF Wired, Called, Counted, Fed, End
  <2>2. Counted'
    <3>1. \A g \in Epochs : End(g)' <= out
      <4>1. \A g \in Epochs : End(g) <= out
        BY DEF Wired, Counted
      <4>2. \A g \in Epochs : sess[g].on \/ End(g)' = End(g)
        BY <1>0 DEF End
      <4>. QED BY <1>0, <4>1, <4>2 DEF End
    <3>. QED BY <1>0, <3>1, Numbers DEF Wired, Counted
  <2>3. Fed'
    BY <1>0, Numbers DEF Wired, Counted, Fed, End
  <2>. QED BY <2>1, <2>2, <2>3 DEF Wired
<1>3. Placed'
  BY <1>0, Numbers, Typed, Placing DEF Wired, Called, Placed
<1>4. Bounded'
  <2>0. \A n \in Nat : Frontier(n)' => n = out \/ n = wire'.at
    BY <1>0 DEF Frontier, Larger, End
  <2>1. \A n \in Nat : Frontier(n)' => \E m \in Nat : m <= n /\ Frontier(m)
    <3>1. Frontier(out) /\ Frontier(Larger(wire.at, wire.ring))
      BY <1>0 DEF Frontier
    <3>2. Larger(wire.at, wire.ring) \in Nat /\ Larger(wire.at, wire.ring) <= wire'.at /\ out \in Nat
      BY <1>0, Numbers DEF Larger
    <3>. QED BY <2>0, <3>1, <3>2
  <2>2. ASSUME NEW n \in Nat, Frontier(n)' PROVE AllBelow(n)'
    <3>1. AllBelow(n)
      BY <2>1, <2>2, AllLater
    <3>2. Output(Stretch(wire.at, wire'.at)) \in Frames /\ Below(Output(Stretch(wire.at, wire'.at)).ps, n)
      <4>1. wire.at \in Nat /\ wire'.at \in Nat /\ wire.at <= wire'.at
        BY <1>0, Numbers
      <4>2. wire'.at <= n
        BY <1>0, <2>0, <2>2
      <4>3. /\ Stretch(wire.at, wire'.at) \in Seq(Nat)
            /\ Below(Stretch(wire.at, wire'.at), wire'.at)
        BY <4>1, StretchIs
      <4>4. Below(Stretch(wire.at, wire'.at), n)
        BY <4>1, <4>2, <4>3, BelowLater
      <4>. QED BY <4>3, <4>4, OutputFrame
    <3>3. \A u \in Panes : \A k \in 1 .. Len(chan'[u]) : Below(chan'[u][k].ps, n)
      <4>1. \A u \in Panes : chan[u] \in Seq(Frames) /\ \A k \in 1 .. Len(chan[u]) : Below(chan[u][k].ps, n)
        BY <3>1, Fields DEF AllBelow
      <4>2. \A u \in Panes : chan'[u] = chan[u] \/ chan'[u] = Append(chan[u], Output(Stretch(wire.at, wire'.at)))
        BY <1>0
      <4>. QED BY <3>2, <4>1, <4>2, OneMore
    <3>4. \A g \in Epochs : ~sess'[g].on => End(g)' <= n
      BY <1>0, <3>1, Numbers DEF AllBelow, End
    <3>. QED BY <1>0, <3>1, <3>3, <3>4 DEF AllBelow
  <2>3. \A u \in Panes : ws'[u].st = "settling" /\ ~sess'[ws'[u].id].on =>
            Below(pane'[u].screen, End(ws[u].id)')
    <3>1. \A u \in Panes : /\ ws'[u] = ws[u] /\ pane'[u].screen = pane[u].screen
                           /\ ws[u].st = "settling" => ws[u].id \in Epochs
      BY <1>0, Placing
    <3>2. \A g \in Epochs : ~sess'[g].on => ~sess[g].on /\ End(g)' = End(g)
      BY <1>0, Numbers DEF End
    <3>. QED BY <3>1, <3>2 DEF Bounded
  <2>. QED BY <1>0, <2>2, <2>3 DEF Bounded
<1>5. Anchored'
  <2>1. \A g \in Epochs : g <= made /\ sess[g].settled =>
            sess'[g].settled /\ sess[g].base <= sess'[g].base
    BY <1>0, Numbers DEF Wired, Called, Counted, Fed, End
  <2>2. \A u \in Panes :
            /\ pane'[u].screen = pane[u].screen
            /\ pane'[u].anchor = pane[u].anchor \/ pane'[u].anchor = NoAnchor
            /\ pane'[u].had = pane[u].had /\ pane'[u].got = pane[u].got
    BY <1>0
  <2>3. \A u \in Panes : ws'[u].st \in {"adopting", "respawning", "settling"} =>
            \/ Asking(pane'[u], ws'[u])
            \/ /\ ws[u].st \in {"adopting", "respawning", "settling"}
               /\ ws'[u].ask = ws[u].ask /\ pane'[u].anchor = pane[u].anchor
    BY <1>0
  <2>4. stored' = stored /\ made <= made'
    BY <1>0, Numbers
  <2>. QED BY <1>1, <2>1, <2>2, <2>3, <2>4, AnchoredStays
<1>6. Threaded'
  <2>. SUFFICES ASSUME NEW u \in Panes, ws'[u].st = "attached"
                PROVE  OnThread(chan'[u], pane'[u], ws'[u].id, sess'[ws'[u].id])
    BY DEF Threaded
  <2>1. /\ ws[u].st = "attached" /\ ws'[u] = ws[u] /\ ws[u].id \in Epochs
        /\ sess[ws[u].id].settled /\ pane[u] \in Runtimes /\ chan[u] \in Seq(Frames)
        /\ OnThread(chan[u], pane[u], ws[u].id, sess[ws[u].id])
    BY <1>0, Placing, Fields DEF Placed, Threaded
  <2>2. CASE sess[ws[u].id].on
    <3>1. /\ sess[ws[u].id].base \in Nat /\ sess[ws[u].id].hi \in Nat /\ sess'[ws[u].id].hi \in Nat
          /\ sess'[ws[u].id].base = sess[ws[u].id].base /\ sess[ws[u].id].hi <= sess'[ws[u].id].hi
          /\ sess[ws[u].id].base + sess[ws[u].id].hi = wire.at
          /\ sess'[ws[u].id].base + sess'[ws[u].id].hi = wire'.at
      <4>1. sess[ws[u].id].base \in Nat /\ sess[ws[u].id].hi \in Nat
        BY <2>1, Numbers
      <4>2. /\ sess'[ws[u].id].base = sess[ws[u].id].base /\ sess'[ws[u].id].hi \in Nat
            /\ sess[ws[u].id].base + sess[ws[u].id].hi = wire.at
            /\ sess'[ws[u].id].base + sess'[ws[u].id].hi = wire'.at
            /\ wire.at \in Nat /\ wire'.at \in Nat /\ wire.at < wire'.at
        BY <2>1, <2>2, <1>0
      <4>. QED BY <4>1, <4>2
    <3>2. /\ wire.at \in Nat /\ wire'.at \in Nat /\ wire.at <= wire'.at
      BY <1>0, Numbers
    <3>3. /\ Output(Stretch(wire.at, wire'.at)) \in Frames
          /\ Output(Stretch(wire.at, wire'.at)).k = "bytes"
          /\ Output(Stretch(wire.at, wire'.at)).ps = Stretch(wire.at, wire'.at)
      BY <3>2, StretchIs, OutputFrame
    <3>4. OnThread(Append(chan[u], Output(Stretch(wire.at, wire'.at))), pane[u], ws[u].id, sess'[ws[u].id])
      BY <2>1, <3>1, <3>3, ThreadExtends
    <3>. QED BY <2>1, <2>2, <1>0, <3>4
  <2>3. CASE ~sess[ws[u].id].on
    <3>1. /\ sess'[ws[u].id].base = sess[ws[u].id].base /\ sess'[ws[u].id].hi = sess[ws[u].id].hi
          /\ chan'[u] = chan[u] /\ pane'[u] = pane[u]
      BY <2>1, <2>3, <1>0
    <3>. QED BY <2>1, <3>1, ThreadStays
  <2>. QED BY <2>2, <2>3
<1>7. Steady'
  BY <1>0 DEF Steady, Rising
<1>. QED BY <1>1, <1>2, <1>3, <1>4, <1>5, <1>6, <1>7

\* DeliverExit keeps the invariant.
LEMMA DeliverExitStep ==
    ASSUME Invariant, DeliverExit
    PROVE  Invariant'
<1>. USE DEF Invariant
<1>0. /\ wire.st = "on" /\ wire.at = out
      /\ \A g \in Epochs : /\ sess'[g].base = sess[g].base /\ sess'[g].lo = sess[g].lo
                           /\ sess'[g].hi = sess[g].hi /\ sess'[g].on = sess[g].on
                           /\ sess'[g].settled = sess[g].settled /\ sess'[g].nudge = sess[g].nudge
      /\ \A g \in Epochs : ~sess[g].on => sess'[g].exited = sess[g].exited
      /\ sess' \in [Epochs -> Sessions]
      /\ \A u \in Panes : chan'[u] = IF ws[u].st = "attached" /\ sess[ws[u].id].on
                                THEN Append(chan[u], Frame("exit")) ELSE chan[u]
      /\ chan' \in [Panes -> Seq(Frames)]
      /\ UNCHANGED <<out, shell, wire, made, current, ws, pane, stored>>
  <2>1. \A g \in Epochs : sess[g] \in Sessions
    BY DEF Shaped
  <2>2. \A g \in Epochs : sess'[g] = IF sess[g].on THEN [sess[g] EXCEPT
        !.exited = TRUE] ELSE sess[g]
    BY DEF Shaped, DeliverExit, ExitInFlight
  <2>3. \A g \in Epochs : /\ sess'[g].base = sess[g].base /\ sess'[g].lo = sess[g].lo
                          /\ sess'[g].hi = sess[g].hi /\ sess'[g].on = sess[g].on
                          /\ sess'[g].settled = sess[g].settled /\ sess'[g].nudge = sess[g].nudge
    BY <2>1, <2>2 DEF Sessions
  <2>4. \A g \in Epochs : ~sess[g].on => sess'[g].exited = sess[g].exited
    BY <2>1, <2>2 DEF Sessions
  <2>5. \A g \in Epochs : sess'[g] \in Sessions
    BY <2>1, <2>2 DEF Sessions
  <2>6. sess' = [g \in Epochs |-> sess'[g]]
    BY DEF Shaped, DeliverExit, ExitInFlight
  <2>7. sess' \in [Epochs -> Sessions]
    BY <2>5, <2>6
  <2>8. \A u \in Panes : chan[u] \in Seq(Frames)
    BY DEF Shaped
  <2>9. \A u \in Panes : chan'[u] = IF ws[u].st = "attached" /\ sess[ws[u].id].on
            THEN Append(chan[u], Frame("exit")) ELSE chan[u]
    BY DEF Shaped, DeliverExit, ExitInFlight
  <2>10. \A u \in Panes : chan'[u] = IF ws[u].st = "attached" /\ sess[ws[u].id].on
                                THEN Append(chan[u], Frame("exit")) ELSE chan[u]
    BY <2>8, <2>9
  <2>11. \A u \in Panes : chan'[u] \in Seq(Frames)
    BY <2>8, <2>9, ExitFrame, FrameAdded
  <2>12. chan' = [u \in Panes |-> chan'[u]]
    BY DEF Shaped, DeliverExit, ExitInFlight
  <2>13. chan' \in [Panes -> Seq(Frames)]
    BY <2>11, <2>12
  <2>. QED BY <2>3, <2>4, <2>7, <2>10, <2>13 DEF Shaped, DeliverExit, ExitInFlight
<1>1. Shaped'
  <2>1. (sess \in [Epochs -> Sessions])'
    BY <1>0 DEF Shaped
  <2>2. (chan \in [Panes -> Seq(Frames)])'
    BY <1>0 DEF Shaped
  <2>. QED BY <1>0, <2>1, <2>2 DEF Shaped
<1>2. Wired'
  <2>1. Called'
    BY <1>0, Numbers DEF Wired, Called, Counted, Fed, End
  <2>2. Counted'
    BY <1>0, Numbers DEF Wired, Called, Counted, Fed, End
  <2>3. Fed'
    BY <1>0, Numbers DEF Wired, Counted, Fed, End
  <2>. QED BY <2>1, <2>2, <2>3 DEF Wired
<1>3. Placed'
  BY <1>0, Numbers, Typed, Placing DEF Wired, Called, Placed
<1>4. Bounded'
  <2>1. \A n \in Nat : Frontier(n)' => \E m \in Nat : m <= n /\ Frontier(m)
    BY <1>0, Numbers DEF Wired, Called, Counted, Fed, End, Frontier, Larger
  <2>2. ASSUME NEW n \in Nat, Frontier(n)' PROVE AllBelow(n)'
    <3>1. AllBelow(n)
      BY <2>1, <2>2, AllLater
    <3>2. Frame("exit") \in Frames /\ Below(Frame("exit").ps, n)
      BY ExitFrame DEF Below
    <3>3. \A u \in Panes : \A k \in 1 .. Len(chan'[u]) : Below(chan'[u][k].ps, n)
      BY <1>0, <3>1, <3>2, OneMore, Fields DEF AllBelow
    <3>4. \A g \in Epochs : ~sess'[g].on => End(g)' <= n
      BY <1>0, <3>1, Numbers DEF AllBelow, End
    <3>. QED BY <1>0, <3>1, <3>3, <3>4 DEF AllBelow
  <2>3. \A u \in Panes : ws'[u].st = "settling" /\ ~sess'[ws'[u].id].on =>
            Below(pane'[u].screen, End(ws[u].id)')
    <3>1. \A u \in Panes : /\ ws'[u] = ws[u] /\ pane'[u].screen = pane[u].screen
                           /\ ws[u].st = "settling" => ws[u].id \in Epochs
      BY <1>0, Placing
    <3>2. \A g \in Epochs : ~sess'[g].on => ~sess[g].on /\ End(g)' = End(g)
      BY <1>0, Numbers DEF End
    <3>. QED BY <3>1, <3>2 DEF Bounded
  <2>. QED BY <1>0, <2>2, <2>3 DEF Bounded
<1>5. Anchored'
  <2>1. \A g \in Epochs : g <= made /\ sess[g].settled =>
            sess'[g].settled /\ sess[g].base <= sess'[g].base
    BY <1>0, Numbers DEF Wired, Called, Counted, Fed, End
  <2>2. \A u \in Panes :
            /\ pane'[u].screen = pane[u].screen
            /\ pane'[u].anchor = pane[u].anchor \/ pane'[u].anchor = NoAnchor
            /\ pane'[u].had = pane[u].had /\ pane'[u].got = pane[u].got
    BY <1>0
  <2>3. \A u \in Panes : ws'[u].st \in {"adopting", "respawning", "settling"} =>
            \/ Asking(pane'[u], ws'[u])
            \/ /\ ws[u].st \in {"adopting", "respawning", "settling"}
               /\ ws'[u].ask = ws[u].ask /\ pane'[u].anchor = pane[u].anchor
    BY <1>0
  <2>4. stored' = stored /\ made <= made'
    BY <1>0, Numbers
  <2>. QED BY <1>1, <2>1, <2>2, <2>3, <2>4, AnchoredStays
<1>6. Threaded'
  <2>. SUFFICES ASSUME NEW u \in Panes, ws'[u].st = "attached"
                PROVE  OnThread(chan'[u], pane'[u], ws'[u].id, sess'[ws'[u].id])
    BY DEF Threaded
  <2>1. /\ ws[u].st = "attached" /\ ws'[u] = ws[u] /\ ws[u].id \in Epochs
        /\ sess[ws[u].id].settled /\ pane[u] \in Runtimes /\ chan[u] \in Seq(Frames)
        /\ OnThread(chan[u], pane[u], ws[u].id, sess[ws[u].id])
    BY <1>0, Placing, Fields DEF Placed, Threaded
  <2>2. CASE sess[ws[u].id].on
    <3>1. /\ sess[ws[u].id].base \in Nat /\ sess[ws[u].id].hi \in Nat /\ sess'[ws[u].id].hi \in Nat
          /\ sess'[ws[u].id].base = sess[ws[u].id].base /\ sess'[ws[u].id].hi = sess[ws[u].id].hi
      BY <2>1, <1>0, Numbers
    <3>0. sess[ws[u].id].base + sess[ws[u].id].hi \in Nat
      BY <3>1
    <3>2. Frame("exit").ps = Stretch(sess[ws[u].id].base + sess[ws[u].id].hi,
                                     sess'[ws[u].id].base + sess'[ws[u].id].hi)
      BY <3>0, <3>1, ExitFrame, StretchNone
    <3>3. OnThread(Append(chan[u], Frame("exit")), pane[u], ws[u].id, sess'[ws[u].id])
      BY <2>1, <3>1, <3>2, ExitFrame, ThreadExtends
    <3>. QED BY <2>1, <2>2, <1>0, <3>3
  <2>3. CASE ~sess[ws[u].id].on
    <3>1. /\ sess'[ws[u].id].base = sess[ws[u].id].base /\ sess'[ws[u].id].hi = sess[ws[u].id].hi
          /\ chan'[u] = chan[u] /\ pane'[u] = pane[u]
      BY <2>1, <2>3, <1>0
    <3>. QED BY <2>1, <3>1, ThreadStays
  <2>. QED BY <2>2, <2>3
<1>7. Steady'
  BY <1>0 DEF Steady, Rising
<1>. QED BY <1>1, <1>2, <1>3, <1>4, <1>5, <1>6, <1>7

\* Settle keeps the invariant.
LEMMA SettleStep ==
    ASSUME Invariant, NEW e \in Epochs, Settle(e)
    PROVE  Invariant'
<1>. USE DEF Invariant
<1>0. /\ e <= made /\ ~sess[e].settled
      /\ sess[e].on => wire.st = "void" \/ (wire.st = "on" /\ wire.at >=
            wire.ring)
      /\ \A g \in Epochs : /\ sess'[g].base = sess[g].base /\ sess'[g].lo = sess[g].lo
                           /\ sess'[g].hi = sess[g].hi /\ sess'[g].on = sess[g].on
                           /\ sess'[g].exited = sess[g].exited /\ sess'[g].nudge = sess[g].nudge
      /\ \A g \in Epochs : sess'[g].settled <=> sess[g].settled \/ g = e
      /\ sess' \in [Epochs -> Sessions]
      /\ UNCHANGED <<out, shell, wire, made, current, ws, chan, pane,
            stored>>
  <2>1. \A g \in Epochs : sess[g] \in Sessions
    BY DEF Shaped
  <2>2. \A g \in Epochs : sess'[g] = IF g = e THEN [sess[e] EXCEPT !.settled =
        TRUE] ELSE sess[g]
    BY DEF Shaped, Settle
  <2>3. \A g \in Epochs : /\ sess'[g].base = sess[g].base /\ sess'[g].lo = sess[g].lo
                          /\ sess'[g].hi = sess[g].hi /\ sess'[g].on = sess[g].on
                          /\ sess'[g].exited = sess[g].exited /\ sess'[g].nudge = sess[g].nudge
    BY <2>1, <2>2 DEF Sessions
  <2>4. \A g \in Epochs : sess'[g].settled <=> sess[g].settled \/ g = e
    BY <2>1, <2>2 DEF Sessions
  <2>5. \A g \in Epochs : sess'[g] \in Sessions
    BY <2>1, <2>2 DEF Sessions
  <2>6. sess' = [g \in Epochs |-> sess'[g]]
    BY DEF Shaped, Settle
  <2>7. sess' \in [Epochs -> Sessions]
    BY <2>5, <2>6
  <2>. QED BY <2>3, <2>4, <2>7 DEF Shaped, Settle
<1>1. Shaped'
  <2>1. (sess \in [Epochs -> Sessions])'
    BY <1>0 DEF Shaped
  <2>. QED BY <1>0, <2>1 DEF Shaped
<1>2. Wired'
  <2>1. Called'
    BY <1>0, Numbers DEF Wired, Called, Counted, Fed, End
  <2>2. Counted'
    BY <1>0, Numbers DEF Wired, Called, Counted, Fed, End
  <2>3. Fed'
    BY <1>0, Numbers DEF Wired, Called, Counted, Fed, End
  <2>. QED BY <2>1, <2>2, <2>3 DEF Wired
<1>3. Placed'
  BY <1>0, Numbers, Typed, Placing DEF Wired, Called, Placed
<1>4. Bounded'
  <2>1. \A n \in Nat : Frontier(n)' => \E m \in Nat : m <= n /\ Frontier(m)
    BY <1>0, Numbers DEF Wired, Called, Counted, Fed, End, Frontier,
       Larger
  <2>2. \A u \in Panes : /\ pane'[u].screen = pane[u].screen \/ pane'[u].screen = <<>>
                         /\ chan'[u] = chan[u] \/ chan'[u] = <<>>
    BY <1>0
  <2>3. \A g \in Epochs : ~sess'[g].on => ~sess[g].on /\ End(g)' <= End(g)
    BY <1>0, Numbers DEF End
  <2>4. \A u \in Panes : ws'[u].st = "settling" /\ ~sess'[ws'[u].id].on =>
            /\ ws[u].st = "settling" /\ ws'[u].id = ws[u].id
            /\ ~sess[ws[u].id].on /\ End(ws[u].id)' = End(ws[u].id)
            /\ pane'[u].screen = pane[u].screen
    BY <1>0, Numbers, Placing DEF End, Placed, Wired, Called
  <2>5. stored' = stored
    BY <1>0
  <2>. QED BY <1>1, <2>1, <2>2, <2>3, <2>4, <2>5, BoundedStays
<1>5. Anchored'
  <2>1. \A g \in Epochs : g <= made /\ sess[g].settled =>
            sess'[g].settled /\ sess[g].base <= sess'[g].base
    BY <1>0, Numbers DEF Wired, Called, Counted, Fed, End
  <2>2. \A u \in Panes :
            /\ pane'[u].screen = pane[u].screen
            /\ pane'[u].anchor = pane[u].anchor \/ pane'[u].anchor = NoAnchor
            /\ pane'[u].had = pane[u].had /\ pane'[u].got = pane[u].got
    BY <1>0
  <2>3. \A u \in Panes : ws'[u].st \in {"adopting", "respawning", "settling"} =>
            \/ Asking(pane'[u], ws'[u])
            \/ /\ ws[u].st \in {"adopting", "respawning", "settling"}
               /\ ws'[u].ask = ws[u].ask /\ pane'[u].anchor = pane[u].anchor
    BY <1>0
  <2>4. stored' = stored /\ made <= made'
    BY <1>0, Numbers
  <2>. QED BY <1>1, <2>1, <2>2, <2>3, <2>4, AnchoredStays
<1>6. Threaded'
  <2>1. \A u \in Panes : ws'[u].st = "attached" =>
            /\ ws[u].st = "attached" /\ ws'[u].id = ws[u].id /\ chan'[u] = chan[u]
            /\ pane'[u].screen = pane[u].screen /\ pane'[u].anchor = pane[u].anchor
            /\ pane'[u].counting = pane[u].counting
            /\ sess'[ws[u].id].base = sess[ws[u].id].base
            /\ sess'[ws[u].id].hi = sess[ws[u].id].hi
    BY <1>0, Placing DEF Placed
  <2>. QED BY <2>1, ThreadedStays
<1>7. Steady'
  BY <1>0 DEF Steady, Rising
<1>. QED BY <1>1, <1>2, <1>3, <1>4, <1>5, <1>6, <1>7

\* Nudge keeps the invariant.
LEMMA NudgeStep ==
    ASSUME Invariant, NEW e \in Epochs, Nudge(e)
    PROVE  Invariant'
<1>. USE DEF Invariant
<1>0. /\ \A g \in Epochs : /\ sess'[g].base = sess[g].base /\ sess'[g].lo = sess[g].lo
                           /\ sess'[g].hi = sess[g].hi /\ sess'[g].on = sess[g].on
                           /\ sess'[g].settled = sess[g].settled /\ sess'[g].exited = sess[g].exited
      /\ sess' \in [Epochs -> Sessions]
      /\ \A u \in Panes : /\ pane'[u].st = pane[u].st /\ pane'[u].screen = pane[u].screen
                          /\ pane'[u].anchor = pane[u].anchor /\ pane'[u].join = pane[u].join
                          /\ pane'[u].counting = pane[u].counting /\ pane'[u].ever = pane[u].ever
                          /\ pane'[u].since = pane[u].since /\ pane'[u].got = pane[u].got
            /\ pane'[u].had = pane[u].had /\ pane'[u].ended =
            pane[u].ended
      /\ pane' \in [Panes -> Runtimes]
      /\ UNCHANGED <<out, shell, wire, made, current, ws, chan, stored>>
  <2>1. \A g \in Epochs : sess[g] \in Sessions
    BY DEF Shaped
  <2>2. \A g \in Epochs : sess'[g] = IF g = e THEN [sess[e] EXCEPT !.nudge =
        FALSE] ELSE sess[g]
    BY DEF Shaped, Nudge, Sockets
  <2>3. \A g \in Epochs : /\ sess'[g].base = sess[g].base /\ sess'[g].lo = sess[g].lo
                          /\ sess'[g].hi = sess[g].hi /\ sess'[g].on = sess[g].on
                          /\ sess'[g].settled = sess[g].settled /\ sess'[g].exited = sess[g].exited
    BY <2>1, <2>2 DEF Sessions
  <2>4. \A g \in Epochs : sess'[g] \in Sessions
    BY <2>1, <2>2 DEF Sessions
  <2>5. sess' = [g \in Epochs |-> sess'[g]]
    BY DEF Shaped, Nudge, Sockets
  <2>6. sess' \in [Epochs -> Sessions]
    BY <2>4, <2>5
  <2>7. \A u \in Panes : pane[u] \in Runtimes
    BY DEF Shaped
  <2>8. \A u \in Panes : pane'[u] = IF u \in Sockets(e) /\ current = e /\ ~sess[e].exited
            THEN [pane[u] EXCEPT !.owed = FALSE] ELSE pane[u]
    BY DEF Shaped, Nudge, Sockets
  <2>9. \A u \in Panes : /\ pane'[u].st = pane[u].st /\ pane'[u].screen = pane[u].screen
                         /\ pane'[u].anchor = pane[u].anchor /\ pane'[u].join = pane[u].join
                         /\ pane'[u].counting = pane[u].counting /\ pane'[u].ever = pane[u].ever
                         /\ pane'[u].since = pane[u].since /\ pane'[u].got = pane[u].got
                         /\ pane'[u].had = pane[u].had /\ pane'[u].ended = pane[u].ended
    BY <2>7, <2>8 DEF Runtimes
  <2>10. \A u \in Panes : pane'[u] \in Runtimes
    BY <2>7, <2>8, Marked
  <2>11. pane' = [u \in Panes |-> pane'[u]]
    BY DEF Shaped, Nudge, Sockets
  <2>12. pane' \in [Panes -> Runtimes]
    BY <2>10, <2>11
  <2>. QED BY <2>3, <2>6, <2>9, <2>12 DEF Shaped, Nudge, Sockets
<1>1. Shaped'
  <2>1. (sess \in [Epochs -> Sessions])'
    BY <1>0 DEF Shaped
  <2>2. (pane \in [Panes -> Runtimes])'
    BY <1>0 DEF Shaped
  <2>. QED BY <1>0, <2>1, <2>2 DEF Shaped
<1>2. Wired'
  <2>1. Called'
    BY <1>0, Numbers DEF Wired, Called, Counted, Fed, End
  <2>2. Counted'
    BY <1>0, Numbers DEF Wired, Called, Counted, Fed, End
  <2>3. Fed'
    BY <1>0, Numbers DEF Wired, Called, Counted, Fed, End
  <2>. QED BY <2>1, <2>2, <2>3 DEF Wired
<1>3. Placed'
  BY <1>0, Numbers, Typed, Placing DEF Wired, Called, Placed
<1>4. Bounded'
  <2>1. \A n \in Nat : Frontier(n)' => \E m \in Nat : m <= n /\ Frontier(m)
    BY <1>0, Numbers DEF Wired, Called, Counted, Fed, End, Frontier,
       Larger
  <2>2. \A u \in Panes : /\ pane'[u].screen = pane[u].screen \/ pane'[u].screen = <<>>
                         /\ chan'[u] = chan[u] \/ chan'[u] = <<>>
    BY <1>0
  <2>3. \A g \in Epochs : ~sess'[g].on => ~sess[g].on /\ End(g)' <= End(g)
    BY <1>0, Numbers DEF End
  <2>4. \A u \in Panes : ws'[u].st = "settling" /\ ~sess'[ws'[u].id].on =>
            /\ ws[u].st = "settling" /\ ws'[u].id = ws[u].id
            /\ ~sess[ws[u].id].on /\ End(ws[u].id)' = End(ws[u].id)
            /\ pane'[u].screen = pane[u].screen
    BY <1>0, Numbers, Placing DEF End, Placed, Wired, Called
  <2>5. stored' = stored
    BY <1>0
  <2>. QED BY <1>1, <2>1, <2>2, <2>3, <2>4, <2>5, BoundedStays
<1>5. Anchored'
  <2>1. \A g \in Epochs : g <= made /\ sess[g].settled =>
            sess'[g].settled /\ sess[g].base <= sess'[g].base
    BY <1>0, Numbers DEF Wired, Called, Counted, Fed, End
  <2>2. \A u \in Panes :
            /\ pane'[u].screen = pane[u].screen
            /\ pane'[u].anchor = pane[u].anchor \/ pane'[u].anchor = NoAnchor
            /\ pane'[u].had = pane[u].had /\ pane'[u].got = pane[u].got
    BY <1>0
  <2>3. \A u \in Panes : ws'[u].st \in {"adopting", "respawning", "settling"} =>
            \/ Asking(pane'[u], ws'[u])
            \/ /\ ws[u].st \in {"adopting", "respawning", "settling"}
               /\ ws'[u].ask = ws[u].ask /\ pane'[u].anchor = pane[u].anchor
    BY <1>0
  <2>4. stored' = stored /\ made <= made'
    BY <1>0, Numbers
  <2>. QED BY <1>1, <2>1, <2>2, <2>3, <2>4, AnchoredStays
<1>6. Threaded'
  <2>1. \A u \in Panes : ws'[u].st = "attached" =>
            /\ ws[u].st = "attached" /\ ws'[u].id = ws[u].id /\ chan'[u] = chan[u]
            /\ pane'[u].screen = pane[u].screen /\ pane'[u].anchor = pane[u].anchor
            /\ pane'[u].counting = pane[u].counting
            /\ sess'[ws[u].id].base = sess[ws[u].id].base
            /\ sess'[ws[u].id].hi = sess[ws[u].id].hi
    BY <1>0, Placing DEF Placed
  <2>. QED BY <2>1, ThreadedStays
<1>7. Steady'
  BY <1>0 DEF Steady, Rising
<1>. QED BY <1>1, <1>2, <1>3, <1>4, <1>5, <1>6, <1>7

\* Dial keeps the invariant.
LEMMA DialStep ==
    ASSUME Invariant, NEW v \in Panes, Dial(v)
    PROVE  Invariant'
<1>. USE DEF Invariant
<1>0. /\ pane[v].st = "mounted" /\ ws[v].st = "none"
      /\ \/ ws' = ws
         \/ /\ ws'[v].st \in {"adopting", "settling"} /\ ws'[v].id = current
            /\ ws'[v].st = "settling" => current # 0
            /\ ws'[v].ask = Ask(pane[v])
      /\ \A u \in Panes : u # v => ws'[u] = ws[u]
      /\ ws' \in [Panes -> Ends]
      /\ \A u \in Panes : /\ pane'[u].st = pane[u].st /\ pane'[u].screen = pane[u].screen
                          /\ pane'[u].anchor = pane[u].anchor /\ pane'[u].join = pane[u].join
                          /\ pane'[u].counting = pane[u].counting /\ pane'[u].ever = pane[u].ever
                          /\ pane'[u].since = pane[u].since /\ pane'[u].got = pane[u].got
            /\ pane'[u].had = pane[u].had /\ pane'[u].owed = pane[u].owed
      /\ pane' \in [Panes -> Runtimes]
      /\ UNCHANGED <<out, shell, wire, sess, made, current, chan, stored>>
  <2>1. \A u \in Panes : ws[u] \in Ends
    BY DEF Shaped
  <2>2. \A u \in Panes : ws'[u] = IF u # v \/ (current = 0 /\ row = "exited") THEN ws[u]
            ELSE [st |-> IF current = 0 THEN "adopting" ELSE "settling", id |-> current, ask |-> Ask(pane[v])]
    BY DEF Shaped, Dial, Ask
  <2>3. \A u \in Panes : u # v => ws'[u] = ws[u]
    BY <2>1, <2>2 DEF Ends
  <2>4. \A u \in Panes : ws'[u] \in Ends
    <3> DEFINE ask == Ask(pane[v])
               end == [st |-> IF current = 0 THEN "adopting" ELSE "settling", id |-> current,
                       ask |-> ask]
    <3>1. pane[v] \in Runtimes /\ current \in Nat
      BY Numbers DEF Shaped
    <3>2. ask \in Asks
      BY <3>1, AskIs
    <3>. HIDE DEF ask
    <3>3. end \in Ends
      BY <3>1, <3>2 DEF Ends
    <3>4. \A u \in Panes : ws'[u] = ws[u] \/ ws'[u] = end
      BY <2>2 DEF ask
    <3>. HIDE DEF end
    <3>. QED BY <2>1, <3>3, <3>4
  <2>5. ws' = [u \in Panes |-> ws'[u]]
    BY DEF Shaped, Dial, Ask
  <2>6. ws' \in [Panes -> Ends]
    BY <2>4, <2>5
  <2>7. \A u \in Panes : pane[u] \in Runtimes
    BY DEF Shaped
  <2>8. \A u \in Panes : pane'[u] = IF u = v /\ current = 0 /\ row = "exited" THEN [pane[v] EXCEPT !.ended = TRUE]
            ELSE pane[u]
    BY DEF Shaped, Dial, Ask
  <2>9. \A u \in Panes : /\ pane'[u].st = pane[u].st /\ pane'[u].screen = pane[u].screen
                         /\ pane'[u].anchor = pane[u].anchor /\ pane'[u].join = pane[u].join
                         /\ pane'[u].counting = pane[u].counting /\ pane'[u].ever = pane[u].ever
                         /\ pane'[u].since = pane[u].since /\ pane'[u].got = pane[u].got
                         /\ pane'[u].had = pane[u].had /\ pane'[u].owed = pane[u].owed
    BY <2>7, <2>8 DEF Runtimes
  <2>10. \A u \in Panes : pane'[u] \in Runtimes
    BY <2>7, <2>8, Marked
  <2>11. pane' = [u \in Panes |-> pane'[u]]
    BY DEF Shaped, Dial, Ask
  <2>12. pane' \in [Panes -> Runtimes]
    BY <2>10, <2>11
  <2>. QED BY <2>3, <2>6, <2>9, <2>12 DEF Shaped, Dial, Ask
<1>1. Shaped'
  <2>1. (ws \in [Panes -> Ends])'
    BY <1>0 DEF Shaped
  <2>2. (pane \in [Panes -> Runtimes])'
    BY <1>0 DEF Shaped
  <2>. QED BY <1>0, <2>1, <2>2 DEF Shaped
<1>2. Wired'
  <2>1. Called'
    BY <1>0, Numbers DEF Wired, Called, Counted, Fed, End
  <2>2. Counted'
    BY <1>0, Numbers DEF Wired, Called, Counted, Fed, End
  <2>3. Fed'
    BY <1>0, Numbers DEF Wired, Called, Counted, Fed, End
  <2>. QED BY <2>1, <2>2, <2>3 DEF Wired
<1>3. Placed'
  <2>. SUFFICES ASSUME NEW u \in Panes
                PROVE  /\ ws'[u].id <= made'
                       /\ ws'[u].st \in {"settling", "attached"} => ws'[u].id # 0
                       /\ ws'[u].st = "attached" => sess'[ws'[u].id].settled
                       /\ ws'[u].st # "none" => pane'[u].st # "none"
                       /\ ws'[u].st # "attached" => ~pane'[u].counting
    BY DEF Placed
  <2>1. CASE u = v
    BY <2>1, <1>0, Numbers, Typed DEF Placed
  <2>2. CASE u # v
    BY <2>2, <1>0 DEF Placed
  <2>. QED BY <2>1, <2>2
<1>4. Bounded'
  <2>1. \A n \in Nat : Frontier(n)' => \E m \in Nat : m <= n /\ Frontier(m)
    BY <1>0, Numbers DEF Wired, Called, Counted, Fed, End, Frontier,
       Larger
  <2>2. \A u \in Panes : /\ pane'[u].screen = pane[u].screen \/ pane'[u].screen = <<>>
                         /\ chan'[u] = chan[u] \/ chan'[u] = <<>>
    BY <1>0
  <2>3. \A g \in Epochs : ~sess'[g].on => ~sess[g].on /\ End(g)' <= End(g)
    BY <1>0, Numbers DEF End
  <2>4. \A u \in Panes : ws'[u].st = "settling" /\ ~sess'[ws'[u].id].on =>
            /\ ws[u].st = "settling" /\ ws'[u].id = ws[u].id
            /\ ~sess[ws[u].id].on /\ End(ws[u].id)' = End(ws[u].id)
            /\ pane'[u].screen = pane[u].screen
    BY <1>0, Numbers, Placing DEF End, Placed, Wired, Called
  <2>5. stored' = stored
    BY <1>0
  <2>. QED BY <1>1, <2>1, <2>2, <2>3, <2>4, <2>5, BoundedStays
<1>5. Anchored'
  <2>1. \A g \in Epochs : g <= made /\ sess[g].settled =>
            sess'[g].settled /\ sess[g].base <= sess'[g].base
    BY <1>0, Numbers DEF Wired, Called, Counted, Fed, End
  <2>2. \A u \in Panes :
            /\ pane'[u].screen = pane[u].screen
            /\ pane'[u].anchor = pane[u].anchor \/ pane'[u].anchor = NoAnchor
            /\ pane'[u].had = pane[u].had /\ pane'[u].got = pane[u].got
    BY <1>0
  <2>3. \A u \in Panes : ws'[u].st \in {"adopting", "respawning", "settling"} =>
            \/ Asking(pane'[u], ws'[u])
            \/ /\ ws[u].st \in {"adopting", "respawning", "settling"}
               /\ ws'[u].ask = ws[u].ask /\ pane'[u].anchor = pane[u].anchor
    <3>1. \A u \in Panes : pane[u] \in Runtimes
      BY DEF Shaped
    <3>2. ws' # ws => Asking(pane'[v], ws'[v])
      BY <1>0, <3>1, AskIs DEF Asking, Anchored
    <3>. QED BY <1>0, <3>2
  <2>4. stored' = stored /\ made <= made'
    BY <1>0, Numbers
  <2>. QED BY <1>1, <2>1, <2>2, <2>3, <2>4, AnchoredStays
<1>6. Threaded'
  <2>1. \A u \in Panes : ws'[u].st = "attached" =>
            /\ ws[u].st = "attached" /\ ws'[u].id = ws[u].id /\ chan'[u] = chan[u]
            /\ pane'[u].screen = pane[u].screen /\ pane'[u].anchor = pane[u].anchor
            /\ pane'[u].counting = pane[u].counting
            /\ sess'[ws[u].id].base = sess[ws[u].id].base
            /\ sess'[ws[u].id].hi = sess[ws[u].id].hi
    BY <1>0, Placing DEF Placed
  <2>. QED BY <2>1, ThreadedStays
<1>7. Steady'
  BY <1>0 DEF Steady, Rising
<1>. QED BY <1>1, <1>2, <1>3, <1>4, <1>5, <1>6, <1>7

\* HeadlessCall keeps the invariant.
LEMMA HeadlessCallStep ==
    ASSUME Invariant, HeadlessCall
    PROVE  Invariant'
<1>. USE DEF Invariant
<1>0. /\ UNCHANGED <<out, shell, wire, sess, made, current, ws, chan,
            pane, stored>>
  BY Typed DEF Epochs, HeadlessCall
<1>1. Shaped'
  BY <1>0 DEF Shaped
<1>2. Wired'
  <2>1. Called'
    BY <1>0, Numbers DEF Wired, Called, Counted, Fed, End
  <2>2. Counted'
    BY <1>0, Numbers DEF Wired, Called, Counted, Fed, End
  <2>3. Fed'
    BY <1>0, Numbers DEF Wired, Called, Counted, Fed, End
  <2>. QED BY <2>1, <2>2, <2>3 DEF Wired
<1>3. Placed'
  BY <1>0, Numbers, Typed, Placing DEF Wired, Called, Placed
<1>4. Bounded'
  <2>1. \A n \in Nat : Frontier(n)' => \E m \in Nat : m <= n /\ Frontier(m)
    BY <1>0, Numbers DEF Wired, Called, Counted, Fed, End, Frontier,
       Larger
  <2>2. \A u \in Panes : /\ pane'[u].screen = pane[u].screen \/ pane'[u].screen = <<>>
                         /\ chan'[u] = chan[u] \/ chan'[u] = <<>>
    BY <1>0
  <2>3. \A g \in Epochs : ~sess'[g].on => ~sess[g].on /\ End(g)' <= End(g)
    BY <1>0, Numbers DEF End
  <2>4. \A u \in Panes : ws'[u].st = "settling" /\ ~sess'[ws'[u].id].on =>
            /\ ws[u].st = "settling" /\ ws'[u].id = ws[u].id
            /\ ~sess[ws[u].id].on /\ End(ws[u].id)' = End(ws[u].id)
            /\ pane'[u].screen = pane[u].screen
    BY <1>0, Numbers, Placing DEF End, Placed, Wired, Called
  <2>5. stored' = stored
    BY <1>0
  <2>. QED BY <1>1, <2>1, <2>2, <2>3, <2>4, <2>5, BoundedStays
<1>5. Anchored'
  <2>1. \A g \in Epochs : g <= made /\ sess[g].settled =>
            sess'[g].settled /\ sess[g].base <= sess'[g].base
    BY <1>0, Numbers DEF Wired, Called, Counted, Fed, End
  <2>2. \A u \in Panes :
            /\ pane'[u].screen = pane[u].screen
            /\ pane'[u].anchor = pane[u].anchor \/ pane'[u].anchor = NoAnchor
            /\ pane'[u].had = pane[u].had /\ pane'[u].got = pane[u].got
    BY <1>0
  <2>3. \A u \in Panes : ws'[u].st \in {"adopting", "respawning", "settling"} =>
            \/ Asking(pane'[u], ws'[u])
            \/ /\ ws[u].st \in {"adopting", "respawning", "settling"}
               /\ ws'[u].ask = ws[u].ask /\ pane'[u].anchor = pane[u].anchor
    BY <1>0
  <2>4. stored' = stored /\ made <= made'
    BY <1>0, Numbers
  <2>. QED BY <1>1, <2>1, <2>2, <2>3, <2>4, AnchoredStays
<1>6. Threaded'
  <2>1. \A u \in Panes : ws'[u].st = "attached" =>
            /\ ws[u].st = "attached" /\ ws'[u].id = ws[u].id /\ chan'[u] = chan[u]
            /\ pane'[u].screen = pane[u].screen /\ pane'[u].anchor = pane[u].anchor
            /\ pane'[u].counting = pane[u].counting
            /\ sess'[ws[u].id].base = sess[ws[u].id].base
            /\ sess'[ws[u].id].hi = sess[ws[u].id].hi
    BY <1>0, Placing DEF Placed
  <2>. QED BY <2>1, ThreadedStays
<1>7. Steady'
  BY <1>0 DEF Steady, Rising
<1>. QED BY <1>1, <1>2, <1>3, <1>4, <1>5, <1>6, <1>7

\* AdoptFails keeps the invariant.
LEMMA AdoptFailsStep ==
    ASSUME Invariant, NEW w \in Pursuers, AdoptFails(w)
    PROVE  Invariant'
<1>. USE DEF Invariant
<1>0. /\ w \in Panes => /\ ws[w].st = "adopting" /\ ws'[w].ask = ws[w].ask
                         /\ \/ ws'[w].st = "respawning" /\ ws'[w].id = 0
                            \/ current # 0 /\ ws'[w].st = "settling" /\ ws'[w].id = current
      /\ \A u \in Panes : u # w => ws'[u] = ws[u]
      /\ ws' \in [Panes -> Ends]
      /\ UNCHANGED <<out, shell, wire, sess, made, current, chan, pane,
            stored>>
  <2>1. \A u \in Panes : ws[u] \in Ends
    BY DEF Shaped
  <2>2. \A u \in Panes : ws'[u] = IF u # w THEN ws[u]
            ELSE [ws[u] EXCEPT !.st = IF current # 0 THEN "settling" ELSE "respawning", !.id = current]
    BY BoundsAssumption DEF Shaped, AdoptFails, ExitInFlight, MoveOn,
       Enter, Pursuit, Pursuers
  <2>3. \A u \in Panes : u # w => ws'[u] = ws[u]
    BY <2>1, <2>2 DEF Ends
  <2>4. \A u \in Panes : ws'[u] \in Ends
    BY <2>1, <2>2, Numbers DEF Ends
  <2>5. ws' = [u \in Panes |-> ws'[u]]
    BY DEF Shaped, AdoptFails, ExitInFlight, MoveOn, Enter, Pursuit,
       Pursuers
  <2>6. ws' \in [Panes -> Ends]
    BY <2>4, <2>5
  <2>7. w \in Panes => /\ ws[w].st = "adopting" /\ ws'[w].ask = ws[w].ask
                      /\ \/ ws'[w].st = "respawning" /\ ws'[w].id = 0
                         \/ current # 0 /\ ws'[w].st = "settling" /\ ws'[w].id = current
    BY <2>1, <2>2 DEF Ends, AdoptFails, Pursuit
  <2>. QED BY <2>3, <2>6, <2>7, BoundsAssumption DEF Shaped, AdoptFails, ExitInFlight, MoveOn,
   Enter, Pursuit, Pursuers
<1>1. Shaped'
  <2>1. (ws \in [Panes -> Ends])'
    BY <1>0 DEF Shaped
  <2>. QED BY <1>0, <2>1 DEF Shaped
<1>2. Wired'
  <2>1. Called'
    BY <1>0, Numbers DEF Wired, Called, Counted, Fed, End
  <2>2. Counted'
    BY <1>0, Numbers DEF Wired, Called, Counted, Fed, End
  <2>3. Fed'
    BY <1>0, Numbers DEF Wired, Called, Counted, Fed, End
  <2>. QED BY <2>1, <2>2, <2>3 DEF Wired
<1>3. Placed'
  <2>. SUFFICES ASSUME NEW u \in Panes
                PROVE  /\ ws'[u].id <= made'
                       /\ ws'[u].st \in {"settling", "attached"} => ws'[u].id # 0
                       /\ ws'[u].st = "attached" => sess'[ws'[u].id].settled
                       /\ ws'[u].st # "none" => pane'[u].st # "none"
                       /\ ws'[u].st # "attached" => ~pane'[u].counting
    BY DEF Placed
  <2>1. CASE u = w
    BY <2>1, <1>0, Numbers, Typed DEF Placed, Wired, Called
  <2>2. CASE u # w
    BY <2>2, <1>0 DEF Placed
  <2>. QED BY <2>1, <2>2
<1>4. Bounded'
  <2>1. \A n \in Nat : Frontier(n)' => \E m \in Nat : m <= n /\ Frontier(m)
    BY <1>0, Numbers DEF Wired, Called, Counted, Fed, End, Frontier,
       Larger
  <2>2. \A u \in Panes : /\ pane'[u].screen = pane[u].screen \/ pane'[u].screen = <<>>
                         /\ chan'[u] = chan[u] \/ chan'[u] = <<>>
    BY <1>0
  <2>3. \A g \in Epochs : ~sess'[g].on => ~sess[g].on /\ End(g)' <= End(g)
    BY <1>0, Numbers DEF End
  <2>4. \A u \in Panes : ws'[u].st = "settling" /\ ~sess'[ws'[u].id].on =>
            /\ ws[u].st = "settling" /\ ws'[u].id = ws[u].id
            /\ ~sess[ws[u].id].on /\ End(ws[u].id)' = End(ws[u].id)
            /\ pane'[u].screen = pane[u].screen
    BY <1>0, Numbers, Placing DEF End, Placed, Wired, Called
  <2>5. stored' = stored
    BY <1>0
  <2>. QED BY <1>1, <2>1, <2>2, <2>3, <2>4, <2>5, BoundedStays
<1>5. Anchored'
  <2>1. \A g \in Epochs : g <= made /\ sess[g].settled =>
            sess'[g].settled /\ sess[g].base <= sess'[g].base
    BY <1>0, Numbers DEF Wired, Called, Counted, Fed, End
  <2>2. \A u \in Panes :
            /\ pane'[u].screen = pane[u].screen
            /\ pane'[u].anchor = pane[u].anchor \/ pane'[u].anchor = NoAnchor
            /\ pane'[u].had = pane[u].had /\ pane'[u].got = pane[u].got
    BY <1>0
  <2>3. \A u \in Panes : ws'[u].st \in {"adopting", "respawning", "settling"} =>
            \/ Asking(pane'[u], ws'[u])
            \/ /\ ws[u].st \in {"adopting", "respawning", "settling"}
               /\ ws'[u].ask = ws[u].ask /\ pane'[u].anchor = pane[u].anchor
    BY <1>0
  <2>4. stored' = stored /\ made <= made'
    BY <1>0, Numbers
  <2>. QED BY <1>1, <2>1, <2>2, <2>3, <2>4, AnchoredStays
<1>6. Threaded'
  <2>1. \A u \in Panes : ws'[u].st = "attached" =>
            /\ ws[u].st = "attached" /\ ws'[u].id = ws[u].id /\ chan'[u] = chan[u]
            /\ pane'[u].screen = pane[u].screen /\ pane'[u].anchor = pane[u].anchor
            /\ pane'[u].counting = pane[u].counting
            /\ sess'[ws[u].id].base = sess[ws[u].id].base
            /\ sess'[ws[u].id].hi = sess[ws[u].id].hi
    BY <1>0, Placing DEF Placed
  <2>. QED BY <2>1, ThreadedStays
<1>7. Steady'
  BY <1>0 DEF Steady, Rising
<1>. QED BY <1>1, <1>2, <1>3, <1>4, <1>5, <1>6, <1>7

\* Reload keeps the invariant.
LEMMA ReloadStep ==
    ASSUME Invariant, Reload
    PROVE  Invariant'
<1>. USE DEF Invariant
<1>0. /\ \A u \in Panes : /\ pane'[u].screen = <<>> /\ pane'[u].anchor = NoAnchor
                          /\ ~pane'[u].counting
      /\ pane' \in [Panes -> Runtimes]
      /\ \A u \in Panes : ws'[u].st = "none" /\ ws'[u].id = 0
      /\ ws' \in [Panes -> Ends]
      /\ \A u \in Panes : chan'[u] = <<>>
      /\ chan' \in [Panes -> Seq(Frames)]
      /\ UNCHANGED <<out, shell, wire, sess, made, current, stored>>
  <2>1. \A u \in Panes : pane[u] \in Runtimes
    BY DEF Shaped
  <2>2. \A u \in Panes : pane'[u] = FreshPane
    BY DEF Shaped, Reload, CloseSockets
  <2>3. \A u \in Panes : pane'[u].screen = <<>> /\ pane'[u].anchor = NoAnchor
        /\ ~pane'[u].counting
    BY <2>1, <2>2, Blanks DEF Runtimes
  <2>4. \A u \in Panes : pane'[u] \in Runtimes
    BY <2>1, <2>2, Blanks
  <2>5. pane' = [u \in Panes |-> pane'[u]]
    BY DEF Shaped, Reload, CloseSockets
  <2>6. pane' \in [Panes -> Runtimes]
    BY <2>4, <2>5
  <2>7. \A u \in Panes : ws[u] \in Ends
    BY DEF Shaped
  <2>8. \A u \in Panes : ws'[u] = NoWs
    BY DEF Shaped, Reload, CloseSockets
  <2>9. \A u \in Panes : ws'[u].st = "none" /\ ws'[u].id = 0
    BY <2>7, <2>8, Blanks DEF Ends
  <2>10. \A u \in Panes : ws'[u] \in Ends
    BY <2>7, <2>8, Blanks
  <2>11. ws' = [u \in Panes |-> ws'[u]]
    BY DEF Shaped, Reload, CloseSockets
  <2>12. ws' \in [Panes -> Ends]
    BY <2>10, <2>11
  <2>13. \A u \in Panes : chan[u] \in Seq(Frames)
    BY DEF Shaped
  <2>14. \A u \in Panes : chan'[u] = <<>>
    BY DEF Shaped, Reload, CloseSockets
  <2>15. \A u \in Panes : chan'[u] = <<>>
    BY <2>13, <2>14
  <2>16. \A u \in Panes : chan'[u] \in Seq(Frames)
    BY <2>13, <2>14, Blanks
  <2>17. chan' = [u \in Panes |-> chan'[u]]
    BY DEF Shaped, Reload, CloseSockets
  <2>18. chan' \in [Panes -> Seq(Frames)]
    BY <2>16, <2>17
  <2>. QED BY <2>3, <2>6, <2>9, <2>12, <2>15, <2>18 DEF Shaped, Reload, CloseSockets
<1>1. Shaped'
  <2>1. (pane \in [Panes -> Runtimes])'
    BY <1>0 DEF Shaped
  <2>2. (ws \in [Panes -> Ends])'
    BY <1>0 DEF Shaped
  <2>3. (chan \in [Panes -> Seq(Frames)])'
    BY <1>0 DEF Shaped
  <2>. QED BY <1>0, <2>1, <2>2, <2>3 DEF Shaped
<1>2. Wired'
  <2>1. Called'
    BY <1>0, Numbers DEF Wired, Called, Counted, Fed, End
  <2>2. Counted'
    BY <1>0, Numbers DEF Wired, Called, Counted, Fed, End
  <2>3. Fed'
    BY <1>0, Numbers DEF Wired, Called, Counted, Fed, End
  <2>. QED BY <2>1, <2>2, <2>3 DEF Wired
<1>3. Placed'
  BY <1>0, Numbers, Typed, Placing DEF Wired, Called, Placed
<1>4. Bounded'
  <2>1. \A n \in Nat : Frontier(n)' => \E m \in Nat : m <= n /\ Frontier(m)
    BY <1>0, Numbers DEF Wired, Called, Counted, Fed, End, Frontier,
       Larger
  <2>2. \A u \in Panes : /\ pane'[u].screen = pane[u].screen \/ pane'[u].screen = <<>>
                         /\ chan'[u] = chan[u] \/ chan'[u] = <<>>
    BY <1>0
  <2>3. \A g \in Epochs : ~sess'[g].on => ~sess[g].on /\ End(g)' <= End(g)
    BY <1>0, Numbers DEF End
  <2>4. \A u \in Panes : ws'[u].st = "settling" /\ ~sess'[ws'[u].id].on =>
            /\ ws[u].st = "settling" /\ ws'[u].id = ws[u].id
            /\ ~sess[ws[u].id].on /\ End(ws[u].id)' = End(ws[u].id)
            /\ pane'[u].screen = pane[u].screen
    BY <1>0, Numbers, Placing DEF End, Placed, Wired, Called
  <2>5. stored' = stored
    BY <1>0
  <2>. QED BY <1>1, <2>1, <2>2, <2>3, <2>4, <2>5, BoundedStays
<1>5. Anchored'
  BY <1>0, Blanks DEF Anchored, Reached, Asking
<1>6. Threaded'
  <2>1. \A u \in Panes : ws'[u].st = "attached" =>
            /\ ws[u].st = "attached" /\ ws'[u].id = ws[u].id /\ chan'[u] = chan[u]
            /\ pane'[u].screen = pane[u].screen /\ pane'[u].anchor = pane[u].anchor
            /\ pane'[u].counting = pane[u].counting
            /\ sess'[ws[u].id].base = sess[ws[u].id].base
            /\ sess'[ws[u].id].hi = sess[ws[u].id].hi
    BY <1>0, Placing DEF Placed
  <2>. QED BY <2>1, ThreadedStays
<1>7. Steady'
  BY <1>0 DEF Steady, Rising
<1>. QED BY <1>1, <1>2, <1>3, <1>4, <1>5, <1>6, <1>7

\* Drop keeps the invariant.
LEMMA DropStep ==
    ASSUME Invariant, NEW v \in Panes, Drop(v)
    PROVE  Invariant'
<1>. USE DEF Invariant
<1>0. /\ \A u \in Panes : /\ pane'[u].st = pane[u].st /\ pane'[u].screen = pane[u].screen
                          /\ pane'[u].join = pane[u].join /\ pane'[u].ever = pane[u].ever
                          /\ pane'[u].got = pane[u].got /\ pane'[u].had = pane[u].had
                          /\ pane'[u].ended = pane[u].ended
            /\ pane'[u].owed = pane[u].owed
      /\ \A u \in Panes : u # v => pane'[u] = pane[u]
      /\ pane'[v].anchor = pane[v].anchor \/ pane'[v].anchor = NoAnchor
      /\ ~pane'[v].counting
      /\ pane' \in [Panes -> Runtimes]
      /\ ws'[v].st = "none" /\ ws'[v].id = 0
      /\ \A u \in Panes : u # v => ws'[u] = ws[u]
      /\ ws' \in [Panes -> Ends]
      /\ \A u \in Panes : u # v => chan'[u] = chan[u]
      /\ chan'[v] = <<>>
      /\ chan' \in [Panes -> Seq(Frames)]
      /\ UNCHANGED <<out, shell, wire, sess, made, current, stored>>
  <2>1. \A u \in Panes : pane[u] \in Runtimes
    BY DEF Shaped
  <2>2. \A u \in Panes : pane'[u] = IF u = v THEN Closed(pane[v]) ELSE pane[u]
    BY DEF Shaped, Drop, Closed, CloseSockets
  <2>3. \A u \in Panes : /\ pane'[u].st = pane[u].st /\ pane'[u].screen = pane[u].screen
                         /\ pane'[u].join = pane[u].join /\ pane'[u].ever = pane[u].ever
                         /\ pane'[u].got = pane[u].got /\ pane'[u].had = pane[u].had
                         /\ pane'[u].ended = pane[u].ended /\ pane'[u].owed = pane[u].owed
    BY <2>1, <2>2, ClosedIs DEF Runtimes
  <2>4. \A u \in Panes : u # v => pane'[u] = pane[u]
    BY <2>1, <2>2, ClosedIs DEF Runtimes
  <2>5. pane'[v].anchor = pane[v].anchor \/ pane'[v].anchor = NoAnchor
    BY <2>1, <2>2, ClosedIs DEF Runtimes
  <2>6. ~pane'[v].counting
    BY <2>1, <2>2, ClosedIs DEF Runtimes
  <2>7. \A u \in Panes : pane'[u] \in Runtimes
    BY <2>1, <2>2, ClosedIs
  <2>8. pane' = [u \in Panes |-> pane'[u]]
    BY DEF Shaped, Drop, Closed, CloseSockets
  <2>9. pane' \in [Panes -> Runtimes]
    BY <2>7, <2>8
  <2>10. \A u \in Panes : ws[u] \in Ends
    BY DEF Shaped
  <2>11. \A u \in Panes : ws'[u] = IF u = v THEN NoWs ELSE ws[u]
    BY DEF Shaped, Drop, Closed, CloseSockets
  <2>12. ws'[v].st = "none" /\ ws'[v].id = 0
    BY <2>10, <2>11, Blanks DEF Ends
  <2>13. \A u \in Panes : u # v => ws'[u] = ws[u]
    BY <2>10, <2>11, Blanks DEF Ends
  <2>14. \A u \in Panes : ws'[u] \in Ends
    BY <2>10, <2>11, Blanks
  <2>15. ws' = [u \in Panes |-> ws'[u]]
    BY DEF Shaped, Drop, Closed, CloseSockets
  <2>16. ws' \in [Panes -> Ends]
    BY <2>14, <2>15
  <2>17. \A u \in Panes : chan[u] \in Seq(Frames)
    BY DEF Shaped
  <2>18. \A u \in Panes : chan'[u] = IF u = v THEN <<>> ELSE chan[u]
    BY DEF Shaped, Drop, Closed, CloseSockets
  <2>19. \A u \in Panes : u # v => chan'[u] = chan[u]
    BY <2>17, <2>18
  <2>20. chan'[v] = <<>>
    BY <2>17, <2>18
  <2>21. \A u \in Panes : chan'[u] \in Seq(Frames)
    BY <2>17, <2>18, Blanks
  <2>22. chan' = [u \in Panes |-> chan'[u]]
    BY DEF Shaped, Drop, Closed, CloseSockets
  <2>23. chan' \in [Panes -> Seq(Frames)]
    BY <2>21, <2>22
  <2>. QED BY <2>3, <2>4, <2>5, <2>6, <2>9, <2>12, <2>13, <2>16, <2>19, <2>20, <2>23 DEF
   Shaped, Drop, Closed, CloseSockets
<1>1. Shaped'
  <2>1. (pane \in [Panes -> Runtimes])'
    BY <1>0 DEF Shaped
  <2>2. (ws \in [Panes -> Ends])'
    BY <1>0 DEF Shaped
  <2>3. (chan \in [Panes -> Seq(Frames)])'
    BY <1>0 DEF Shaped
  <2>. QED BY <1>0, <2>1, <2>2, <2>3 DEF Shaped
<1>2. Wired'
  <2>1. Called'
    BY <1>0, Numbers DEF Wired, Called, Counted, Fed, End
  <2>2. Counted'
    BY <1>0, Numbers DEF Wired, Called, Counted, Fed, End
  <2>3. Fed'
    BY <1>0, Numbers DEF Wired, Called, Counted, Fed, End
  <2>. QED BY <2>1, <2>2, <2>3 DEF Wired
<1>3. Placed'
  <2>. SUFFICES ASSUME NEW u \in Panes
                PROVE  /\ ws'[u].id <= made'
                       /\ ws'[u].st \in {"settling", "attached"} => ws'[u].id # 0
                       /\ ws'[u].st = "attached" => sess'[ws'[u].id].settled
                       /\ ws'[u].st # "none" => pane'[u].st # "none"
                       /\ ws'[u].st # "attached" => ~pane'[u].counting
    BY DEF Placed
  <2>1. CASE u = v
    BY <2>1, <1>0, Numbers, Typed DEF Placed
  <2>2. CASE u # v
    BY <2>2, <1>0 DEF Placed
  <2>. QED BY <2>1, <2>2
<1>4. Bounded'
  <2>1. \A n \in Nat : Frontier(n)' => \E m \in Nat : m <= n /\ Frontier(m)
    BY <1>0, Numbers DEF Wired, Called, Counted, Fed, End, Frontier,
       Larger
  <2>2. \A u \in Panes : /\ pane'[u].screen = pane[u].screen \/ pane'[u].screen = <<>>
                         /\ chan'[u] = chan[u] \/ chan'[u] = <<>>
    BY <1>0
  <2>3. \A g \in Epochs : ~sess'[g].on => ~sess[g].on /\ End(g)' <= End(g)
    BY <1>0, Numbers DEF End
  <2>4. \A u \in Panes : ws'[u].st = "settling" /\ ~sess'[ws'[u].id].on =>
            /\ ws[u].st = "settling" /\ ws'[u].id = ws[u].id
            /\ ~sess[ws[u].id].on /\ End(ws[u].id)' = End(ws[u].id)
            /\ pane'[u].screen = pane[u].screen
    BY <1>0, Numbers, Placing DEF End, Placed, Wired, Called
  <2>5. stored' = stored
    BY <1>0
  <2>. QED BY <1>1, <2>1, <2>2, <2>3, <2>4, <2>5, BoundedStays
<1>5. Anchored'
  <2>1. \A g \in Epochs : g <= made /\ sess[g].settled =>
            sess'[g].settled /\ sess[g].base <= sess'[g].base
    BY <1>0, Numbers DEF Wired, Called, Counted, Fed, End
  <2>2. \A u \in Panes :
            /\ pane'[u].screen = pane[u].screen
            /\ pane'[u].anchor = pane[u].anchor \/ pane'[u].anchor = NoAnchor
            /\ pane'[u].had = pane[u].had /\ pane'[u].got = pane[u].got
    BY <1>0
  <2>3. \A u \in Panes : ws'[u].st \in {"adopting", "respawning", "settling"} =>
            \/ Asking(pane'[u], ws'[u])
            \/ /\ ws[u].st \in {"adopting", "respawning", "settling"}
               /\ ws'[u].ask = ws[u].ask /\ pane'[u].anchor = pane[u].anchor
    BY <1>0
  <2>4. stored' = stored /\ made <= made'
    BY <1>0, Numbers
  <2>. QED BY <1>1, <2>1, <2>2, <2>3, <2>4, AnchoredStays
<1>6. Threaded'
  <2>1. \A u \in Panes : ws'[u].st = "attached" =>
            /\ ws[u].st = "attached" /\ ws'[u].id = ws[u].id /\ chan'[u] = chan[u]
            /\ pane'[u].screen = pane[u].screen /\ pane'[u].anchor = pane[u].anchor
            /\ pane'[u].counting = pane[u].counting
            /\ sess'[ws[u].id].base = sess[ws[u].id].base
            /\ sess'[ws[u].id].hi = sess[ws[u].id].hi
    BY <1>0, Placing DEF Placed
  <2>. QED BY <2>1, ThreadedStays
<1>7. Steady'
  BY <1>0 DEF Steady, Rising
<1>. QED BY <1>1, <1>2, <1>3, <1>4, <1>5, <1>6, <1>7

\* HostRestarts keeps the invariant.
LEMMA HostRestartsStep ==
    ASSUME Invariant, HostRestarts
    PROVE  Invariant'
<1>. USE DEF Invariant
<1>0. /\ wire' = NoWire /\ wire'.st = "none" /\ wire'.at = 0 /\ wire'.ring
            = 0
      /\ current' = 0
      /\ \A g \in Epochs : /\ sess'[g].base = sess[g].base /\ ~sess'[g].on /\ sess'[g].settled
      /\ \A g \in Epochs : /\ sess'[g].lo = 0 /\ sess'[g].hi = 0 /\ ~sess'[g].exited
      /\ sess' \in [Epochs -> Sessions]
      /\ \A u \in Panes : /\ pane'[u].st = pane[u].st /\ pane'[u].screen = pane[u].screen
                          /\ pane'[u].join = pane[u].join /\ pane'[u].ever = pane[u].ever
                          /\ pane'[u].got = pane[u].got /\ pane'[u].had = pane[u].had
                          /\ pane'[u].ended = pane[u].ended
            /\ pane'[u].owed = pane[u].owed
      /\ \A u \in Panes : ~pane'[u].counting /\ (pane'[u].anchor =
            pane[u].anchor \/ pane'[u].anchor = NoAnchor)
      /\ pane' \in [Panes -> Runtimes]
      /\ \A u \in Panes : ws'[u].st = "none" /\ ws'[u].id = 0
      /\ ws' \in [Panes -> Ends]
      /\ \A u \in Panes : chan'[u] = <<>>
      /\ chan' \in [Panes -> Seq(Frames)]
      /\ UNCHANGED <<out, shell, made, stored>>
  <2>1. \A g \in Epochs : sess[g] \in Sessions
    BY DEF Shaped
  <2>2. \A g \in Epochs : sess'[g] = Forgotten(sess[g])
    BY DEF Shaped, HostRestarts, NoWire, Forgotten, Closed
  <2>3. \A g \in Epochs : /\ sess'[g].base = sess[g].base /\ ~sess'[g].on /\ sess'[g].settled
    BY <2>1, <2>2, ForgottenIs DEF Sessions
  <2>4. \A g \in Epochs : /\ sess'[g].lo = 0 /\ sess'[g].hi = 0 /\ ~sess'[g].exited
    BY <2>1, <2>2, ForgottenIs DEF Sessions
  <2>5. \A g \in Epochs : sess'[g] \in Sessions
    BY <2>1, <2>2, ForgottenIs
  <2>6. sess' = [g \in Epochs |-> sess'[g]]
    BY DEF Shaped, HostRestarts, NoWire, Forgotten, Closed
  <2>7. sess' \in [Epochs -> Sessions]
    BY <2>5, <2>6
  <2>8. \A u \in Panes : pane[u] \in Runtimes
    BY DEF Shaped
  <2>9. \A u \in Panes : pane'[u] = Closed(pane[u])
    BY DEF Shaped, HostRestarts, NoWire, Forgotten, Closed
  <2>10. \A u \in Panes : /\ pane'[u].st = pane[u].st /\ pane'[u].screen = pane[u].screen
                          /\ pane'[u].join = pane[u].join /\ pane'[u].ever = pane[u].ever
                          /\ pane'[u].got = pane[u].got /\ pane'[u].had = pane[u].had
                          /\ pane'[u].ended = pane[u].ended /\ pane'[u].owed = pane[u].owed
    BY <2>8, <2>9, ClosedIs DEF Runtimes
  <2>11. \A u \in Panes : ~pane'[u].counting /\ (pane'[u].anchor =
        pane[u].anchor \/ pane'[u].anchor = NoAnchor)
    BY <2>8, <2>9, ClosedIs DEF Runtimes
  <2>12. \A u \in Panes : pane'[u] \in Runtimes
    BY <2>8, <2>9, ClosedIs
  <2>13. pane' = [u \in Panes |-> pane'[u]]
    BY DEF Shaped, HostRestarts, NoWire, Forgotten, Closed
  <2>14. pane' \in [Panes -> Runtimes]
    BY <2>12, <2>13
  <2>15. \A u \in Panes : ws[u] \in Ends
    BY DEF Shaped
  <2>16. \A u \in Panes : ws'[u] = NoWs
    BY DEF Shaped, HostRestarts, NoWire, Forgotten, Closed
  <2>17. \A u \in Panes : ws'[u].st = "none" /\ ws'[u].id = 0
    BY <2>15, <2>16, Blanks DEF Ends
  <2>18. \A u \in Panes : ws'[u] \in Ends
    BY <2>15, <2>16, Blanks
  <2>19. ws' = [u \in Panes |-> ws'[u]]
    BY DEF Shaped, HostRestarts, NoWire, Forgotten, Closed
  <2>20. ws' \in [Panes -> Ends]
    BY <2>18, <2>19
  <2>21. \A u \in Panes : chan[u] \in Seq(Frames)
    BY DEF Shaped
  <2>22. \A u \in Panes : chan'[u] = <<>>
    BY DEF Shaped, HostRestarts, NoWire, Forgotten, Closed
  <2>23. \A u \in Panes : chan'[u] = <<>>
    BY <2>21, <2>22
  <2>24. \A u \in Panes : chan'[u] \in Seq(Frames)
    BY <2>21, <2>22, Blanks
  <2>25. chan' = [u \in Panes |-> chan'[u]]
    BY DEF Shaped, HostRestarts, NoWire, Forgotten, Closed
  <2>26. chan' \in [Panes -> Seq(Frames)]
    BY <2>24, <2>25
  <2>. QED BY <2>3, <2>4, <2>7, <2>10, <2>11, <2>14, <2>17, <2>20, <2>23, <2>26 DEF
   Shaped, HostRestarts, NoWire, Forgotten, Closed
<1>1. Shaped'
  <2>1. (wire \in [st : {"none", "asked", "on", "void"}, at : Nat, ring : Nat])'
    BY <1>0 DEF NoWire
  <2>2. (sess \in [Epochs -> Sessions])'
    BY <1>0 DEF Shaped
  <2>3. (current \in 0 .. made)'
    BY <1>0, Numbers
  <2>4. (ws \in [Panes -> Ends])'
    BY <1>0 DEF Shaped
  <2>5. (chan \in [Panes -> Seq(Frames)])'
    BY <1>0 DEF Shaped
  <2>6. (pane \in [Panes -> Runtimes])'
    BY <1>0 DEF Shaped
  <2>. QED BY <1>0, <2>1, <2>2, <2>3, <2>4, <2>5, <2>6 DEF Shaped
<1>2. Wired'
  <2>1. Called'
    BY <1>0, Numbers DEF Wired, Called, Counted, Fed, End
  <2>2. Counted'
    BY <1>0, Numbers DEF Wired, Called, Counted, Fed, End
  <2>3. Fed'
    BY <1>0, Numbers DEF Wired, Called, Counted, Fed, End
  <2>. QED BY <2>1, <2>2, <2>3 DEF Wired
<1>3. Placed'
  BY <1>0, Numbers, Typed, Placing DEF Wired, Called, Placed
<1>4. Bounded'
  <2>1. AllBelow(out)
    BY Numbers DEF Bounded, Frontier
  <2>2. AllBelow(out)'
    <3>1. \A g \in Epochs : End(g)' <= out
      BY <1>0, Numbers DEF End, Wired, Counted
    <3>2. \A u \in Panes : pane'[u].screen = pane[u].screen /\ chan'[u] = <<>>
      BY <1>0
    <3>3. \A u \in Panes : \A k \in 1 .. Len(chan'[u]) : Below(chan'[u][k].ps, out)
      BY <3>2
    <3>. QED BY <1>0, <1>1, <2>1, <3>1, <3>2, <3>3, Numbers, StillBelow
  <2>3. \A n \in Nat : Frontier(n)' => n = out
    BY <1>0 DEF Frontier
  <2>. QED BY <1>0, <2>2, <2>3 DEF Bounded
<1>5. Anchored'
  <2>1. \A g \in Epochs : g <= made /\ sess[g].settled =>
            sess'[g].settled /\ sess[g].base <= sess'[g].base
    BY <1>0, Numbers DEF Wired, Called, Counted, Fed, End
  <2>2. \A u \in Panes :
            /\ pane'[u].screen = pane[u].screen
            /\ pane'[u].anchor = pane[u].anchor \/ pane'[u].anchor = NoAnchor
            /\ pane'[u].had = pane[u].had /\ pane'[u].got = pane[u].got
    BY <1>0
  <2>3. \A u \in Panes : ws'[u].st \in {"adopting", "respawning", "settling"} =>
            \/ Asking(pane'[u], ws'[u])
            \/ /\ ws[u].st \in {"adopting", "respawning", "settling"}
               /\ ws'[u].ask = ws[u].ask /\ pane'[u].anchor = pane[u].anchor
    BY <1>0
  <2>4. stored' = stored /\ made <= made'
    BY <1>0, Numbers
  <2>. QED BY <1>1, <2>1, <2>2, <2>3, <2>4, AnchoredStays
<1>6. Threaded'
  <2>1. \A u \in Panes : ws'[u].st = "attached" =>
            /\ ws[u].st = "attached" /\ ws'[u].id = ws[u].id /\ chan'[u] = chan[u]
            /\ pane'[u].screen = pane[u].screen /\ pane'[u].anchor = pane[u].anchor
            /\ pane'[u].counting = pane[u].counting
            /\ sess'[ws[u].id].base = sess[ws[u].id].base
            /\ sess'[ws[u].id].hi = sess[ws[u].id].hi
    BY <1>0, Placing DEF Placed
  <2>. QED BY <2>1, ThreadedStays
<1>7. Steady'
  BY <1>0 DEF Steady, Rising
<1>. QED BY <1>1, <1>2, <1>3, <1>4, <1>5, <1>6, <1>7

\* The repaint an attach may cause (a resize to come) changes nothing else.
LEMMA Nudged ==
    ASSUME NEW x \in Sessions, NEW b \in BOOLEAN
    PROVE  [x EXCEPT !.nudge = @ \/ b] \in Sessions
<1>1. [x EXCEPT !.nudge = TRUE] \in Sessions
  BY DEF Sessions
<1>2. CASE b
  BY <1>1, <1>2
<1>3. CASE ~b
  <2>1. x.nudge \in BOOLEAN
    BY DEF Sessions
  <2>2. [x EXCEPT !.nudge = x.nudge] \in Sessions
    BY <2>1 DEF Sessions
  <2>. QED BY <1>3, <2>1, <2>2
<1>. QED BY <1>2, <1>3

\* What attaching a socket changes.
LEMMA AttachDoes ==
    ASSUME Invariant, NEW v \in Panes, Attach(v)
    PROVE  /\ /\ ws[v].st = "settling" /\ ws[v].id \in Epochs /\ sess[ws[v].id].settled
              /\ ws'[v].st = "attached" /\ ws'[v].id = ws[v].id
           /\ \A u \in Panes : u # v => chan'[u] = chan[u]
           /\ chan'[v] \in Seq(Frames) /\ OnThread(chan'[v], pane[v], ws[v].id,
                 sess[ws[v].id])
           /\ \A m \in Nat : sess[ws[v].id].hi = 0 \/ End(ws[v].id) <= m =>
                 \A k \in 1 .. Len(chan'[v]) : Below(chan'[v][k].ps, m)
           /\ \A k \in 1 .. Len(chan'[v]) : chan'[v][k].k = "exact" =>
                 chan'[v][k].e = pane[v].anchor.e /\ chan'[v][k].n = pane[v].anchor.n
           /\ chan' = [u \in Panes |-> chan'[u]]
           /\ \A u \in Panes : u # v => ws'[u] = ws[u]
           /\ \A u \in Panes : u = v => ws'[u].st = "attached" /\ ws'[u].id =
                 ws[u].id
           /\ ws' \in [Panes -> Ends]
           /\ \A g \in Epochs : /\ sess'[g].base = sess[g].base /\ sess'[g].lo = sess[g].lo
                                /\ sess'[g].hi = sess[g].hi /\ sess'[g].on = sess[g].on
                                /\ sess'[g].settled = sess[g].settled
                                /\ sess'[g].exited = sess[g].exited
           /\ sess' \in [Epochs -> Sessions]
           /\ \A u \in Panes : /\ pane'[u].st = pane[u].st /\ pane'[u].screen = pane[u].screen
                               /\ pane'[u].anchor = pane[u].anchor /\ pane'[u].join = pane[u].join
                               /\ pane'[u].counting = pane[u].counting
                               /\ pane'[u].ever = pane[u].ever /\ pane'[u].since = pane[u].since
                               /\ pane'[u].got = pane[u].got
                 /\ pane'[u].had = pane[u].had /\ pane'[u].ended =
                 pane[u].ended
           /\ pane' \in [Panes -> Runtimes]
           /\ UNCHANGED <<out, shell, wire, made, current, stored>>
<1>. USE DEF Invariant
<1> DEFINE e    == ws[v].id
           s    == sess[e]
           ask  == ws[v].ask
           mode == IF Exact(s, e, ask) THEN "exact" ELSE IF ask.k = "new" THEN "tail" ELSE "reanchor"
           seq  == CASE mode = "exact" -> ask.n [] mode = "tail" -> s.lo [] mode = "reanchor" -> s.hi
           Repaint == mode = "reanchor" /\ ~s.exited
<1>01. /\ ws[v].st = "settling" /\ e \in Epochs /\ s.settled
       /\ sess' = [sess EXCEPT ![e].nudge = @ \/ Repaint]
       /\ pane' = [pane EXCEPT ![v].owed = Repaint]
       /\ chan' = [chan EXCEPT ![v] = Replay(mode, e, seq, s, s.exited)]
       /\ ws' = [ws EXCEPT ![v].st = "attached", ![v].ask = NoAsk]
  BY Placing DEF Attach, Replay
<1>02. Repaint \in BOOLEAN
  OBVIOUS
<1>. HIDE DEF Repaint
<1>1. \A u \in Panes : ws[u] \in Ends
  BY DEF Shaped
<1>2. \A u \in Panes : ws'[u] = IF u = v THEN [ws[u] EXCEPT !.st =
      "attached", !.ask = NoAsk] ELSE ws[u]
  BY DEF Shaped, Attach, Exact
<1>3. \A u \in Panes : u # v => ws'[u] = ws[u]
  BY <1>1, <1>2 DEF Ends
<1>4. \A u \in Panes : u = v => ws'[u].st = "attached" /\ ws'[u].id =
      ws[u].id
  BY <1>1, <1>2 DEF Ends
<1>5. \A u \in Panes : ws'[u] \in Ends
  <2>1. \A w \in Ends, a \in Asks : [w EXCEPT !.st = "attached", !.ask = a] \in Ends
    BY DEF Ends
  <2>. QED BY <1>1, <1>2, <2>1, Blanks
<1>6. ws' = [u \in Panes |-> ws'[u]]
  BY DEF Shaped, Attach, Exact
<1>7. ws' \in [Panes -> Ends]
  BY <1>5, <1>6
<1>8. \A g \in Epochs : sess[g] \in Sessions
  BY DEF Shaped
<1>9. \A g \in Epochs : sess'[g] = IF g = ws[v].id THEN [sess[g] EXCEPT
      !.nudge = @ \/ Repaint] ELSE sess[g]
  BY <1>01 DEF Shaped
<1>10. \A g \in Epochs : /\ sess'[g].base = sess[g].base /\ sess'[g].lo = sess[g].lo
                         /\ sess'[g].hi = sess[g].hi /\ sess'[g].on = sess[g].on
                         /\ sess'[g].settled = sess[g].settled /\ sess'[g].exited = sess[g].exited
  BY <1>8, <1>9 DEF Sessions
<1>11. \A g \in Epochs : sess'[g] \in Sessions
  BY <1>8, <1>9, <1>02, Nudged
<1>12. sess' = [g \in Epochs |-> sess'[g]]
  BY DEF Shaped, Attach, Exact
<1>13. sess' \in [Epochs -> Sessions]
  BY <1>11, <1>12
<1>14. \A u \in Panes : pane[u] \in Runtimes
  BY DEF Shaped
<1>15. \A u \in Panes : pane'[u] = IF u = v THEN [pane[u] EXCEPT !.owed =
      Repaint] ELSE pane[u]
  BY <1>01 DEF Shaped
<1>16. \A u \in Panes : /\ pane'[u].st = pane[u].st /\ pane'[u].screen = pane[u].screen
                        /\ pane'[u].anchor = pane[u].anchor /\ pane'[u].join = pane[u].join
                        /\ pane'[u].counting = pane[u].counting /\ pane'[u].ever = pane[u].ever
                        /\ pane'[u].since = pane[u].since /\ pane'[u].got = pane[u].got
                        /\ pane'[u].had = pane[u].had /\ pane'[u].ended = pane[u].ended
  BY <1>14, <1>15 DEF Runtimes
<1>17. \A u \in Panes : pane'[u] \in Runtimes
  <2>1. \A p \in Runtimes : [p EXCEPT !.owed = Repaint] \in Runtimes
    BY <1>02, Marked
  <2>. QED BY <1>14, <1>15, <2>1
<1>18. pane' = [u \in Panes |-> pane'[u]]
  BY DEF Shaped, Attach, Exact
<1>19. pane' \in [Panes -> Runtimes]
  BY <1>17, <1>18
<1>20. /\ seq \in Nat /\ seq <= s.hi /\ Below(pane[v].screen, s.base + seq) /\ mode \in Joins
       /\ mode = "exact" => e = pane[v].anchor.e /\ seq = pane[v].anchor.n
  <2>0. s.lo \in Nat /\ s.hi \in Nat /\ s.lo <= s.hi /\ s.base \in Nat /\ End(e) = s.base + s.hi
    BY <1>01, Numbers DEF Wired, Counted, End
  <2>1. CASE Exact(s, e, ask)
    <3>1. mode = "exact" /\ seq = ask.n
      BY <2>1
    <3>2. ask.k = "anchor" /\ ask.e = e /\ ask.n \in s.lo .. s.hi
      BY <2>1 DEF Exact
    <3>3. e = pane[v].anchor.e /\ ask.n = pane[v].anchor.n /\ e # 0
      BY <1>01, <3>2 DEF Anchored, Asking
    <3>4. Below(pane[v].screen, s.base + ask.n)
      BY <3>3 DEF Anchored, Reached
    <3>. QED BY <2>0, <3>1, <3>2, <3>3, <3>4 DEF Joins
  <2>2. CASE ~Exact(s, e, ask) /\ ask.k = "new"
    <3>1. mode = "tail" /\ seq = s.lo
      BY <2>2
    <3>2. pane[v].screen = <<>>
      BY <1>01, <2>2 DEF Anchored, Asking
    <3>. QED BY <2>0, <3>1, <3>2 DEF Joins, Below
  <2>3. CASE ~Exact(s, e, ask) /\ ask.k # "new"
    <3>1. mode = "reanchor" /\ seq = s.hi
      BY <2>3
    <3>2. CASE s.on
      <4>1. Frontier(End(e))
        BY <1>01, <3>2 DEF Frontier
      <4>2. s.base + s.hi \in Nat /\ Frontier(s.base + s.hi)
        BY <2>0, <4>1
      <4>3. Below(pane[v].screen, s.base + s.hi)
        BY <4>2 DEF Bounded, AllBelow
      <4>. QED BY <2>0, <3>1, <4>3 DEF Joins
    <3>3. CASE ~s.on
      BY <1>01, <2>0, <3>1, <3>3 DEF Bounded, Joins
    <3>. QED BY <3>2, <3>3
  <2>. QED BY <2>1, <2>2, <2>3
<1>. HIDE DEF mode, seq
<1>21. /\ chan'[v] \in Seq(Frames) /\ OnThread(chan'[v], pane[v], e, s)
       /\ \A m \in Nat : s.hi = 0 \/ End(e) <= m => \A k \in 1 .. Len(chan'[v]) : Below(chan'[v][k].ps, m)
       /\ \A k \in 1 .. Len(chan'[v]) : chan'[v][k].k = "exact" =>
              chan'[v][k].e = pane[v].anchor.e /\ chan'[v][k].n = pane[v].anchor.n
  <2>1. chan'[v] = Replay(mode, e, seq, s, s.exited)
    BY <1>01 DEF Shaped
  <2>2. ~pane[v].counting /\ e \in Nat /\ s.base \in Nat /\ s.hi \in Nat /\ s.exited \in BOOLEAN
    BY <1>01, Numbers, Typed DEF Placed
  <2> DEFINE q == Replay(mode, e, seq, s, s.exited)
  <2>3. /\ q \in Seq(Frames) /\ OnThread(q, pane[v], e, s)
        /\ \A m \in Nat : s.hi = 0 \/ s.base + s.hi <= m => \A k \in 1 .. Len(q) : Below(q[k].ps, m)
        /\ \A k \in 1 .. Len(q) : q[k].k \in Joins => q[k].k = mode /\ q[k].e = e /\ q[k].n = seq
    <3> HIDE DEF s
    <3>1. s.exited \in BOOLEAN /\ ~pane[v].counting /\ e \in Nat /\ s.base \in Nat /\ s.hi \in Nat
      BY <2>2
    <3>2. seq \in Nat /\ seq <= s.hi /\ Below(pane[v].screen, s.base + seq) /\ mode \in Joins
      BY <1>20
    <3>. HIDE DEF e, ask
    <3>3. q \in Seq(Frames) /\ OnThread(q, pane[v], e, s)
      BY <3>1, <3>2, ThreadJoins, SMTT(60)
    <3>4. \A m \in Nat : s.hi = 0 \/ s.base + s.hi <= m => \A k \in 1 .. Len(q) : Below(q[k].ps, m)
      BY <3>1, <3>2, ThreadJoins, SMTT(60)
    <3>5. \A k \in 1 .. Len(q) : q[k].k \in Joins => q[k].k = mode /\ q[k].e = e /\ q[k].n = seq
      BY <3>1, <3>2, ThreadJoins, SMTT(60)
    <3>. QED BY <3>3, <3>4, <3>5
  <2>. HIDE DEF q
  <2>4. \A k \in 1 .. Len(q) : q[k].k = "exact" =>
            q[k].e = pane[v].anchor.e /\ q[k].n = pane[v].anchor.n
    BY <1>20, <2>3 DEF Joins
  <2>. QED BY <2>1, <2>3, <2>4 DEF q, End
<1>22. /\ \A u \in Panes : u # v => chan'[u] = chan[u]
       /\ chan' = [u \in Panes |-> chan'[u]]
  BY <1>01 DEF Shaped
<1>. QED BY <1>01, <1>21, <1>22, <1>3, <1>4, <1>7, <1>10, <1>13, <1>16, <1>19 DEF Shaped, Attach, Exact

\* Attach keeps the invariant.
LEMMA AttachStep ==
    ASSUME Invariant, NEW v \in Panes, Attach(v)
    PROVE  Invariant'
<1>. USE DEF Invariant
<1>0. /\ /\ ws[v].st = "settling" /\ ws[v].id \in Epochs /\ sess[ws[v].id].settled
         /\ ws'[v].st = "attached" /\ ws'[v].id = ws[v].id
      /\ \A u \in Panes : u # v => chan'[u] = chan[u]
      /\ chan'[v] \in Seq(Frames) /\ OnThread(chan'[v], pane[v], ws[v].id,
            sess[ws[v].id])
      /\ \A m \in Nat : sess[ws[v].id].hi = 0 \/ End(ws[v].id) <= m =>
            \A k \in 1 .. Len(chan'[v]) : Below(chan'[v][k].ps, m)
      /\ \A k \in 1 .. Len(chan'[v]) : chan'[v][k].k = "exact" =>
            chan'[v][k].e = pane[v].anchor.e /\ chan'[v][k].n = pane[v].anchor.n
      /\ chan' = [u \in Panes |-> chan'[u]]
      /\ \A u \in Panes : u # v => ws'[u] = ws[u]
      /\ \A u \in Panes : u = v => ws'[u].st = "attached" /\ ws'[u].id =
            ws[u].id
      /\ ws' \in [Panes -> Ends]
      /\ \A g \in Epochs : /\ sess'[g].base = sess[g].base /\ sess'[g].lo = sess[g].lo
                           /\ sess'[g].hi = sess[g].hi /\ sess'[g].on = sess[g].on
                           /\ sess'[g].settled = sess[g].settled /\ sess'[g].exited = sess[g].exited
      /\ sess' \in [Epochs -> Sessions]
      /\ \A u \in Panes : /\ pane'[u].st = pane[u].st /\ pane'[u].screen = pane[u].screen
                          /\ pane'[u].anchor = pane[u].anchor /\ pane'[u].join = pane[u].join
                          /\ pane'[u].counting = pane[u].counting /\ pane'[u].ever = pane[u].ever
                          /\ pane'[u].since = pane[u].since /\ pane'[u].got = pane[u].got
            /\ pane'[u].had = pane[u].had /\ pane'[u].ended =
            pane[u].ended
      /\ pane' \in [Panes -> Runtimes]
      /\ UNCHANGED <<out, shell, wire, made, current, stored>>
  BY AttachDoes
<1>1. Shaped'
  <2>1. (ws \in [Panes -> Ends])'
    BY <1>0 DEF Shaped
  <2>2. (chan \in [Panes -> Seq(Frames)])'
    <3>1. \A u \in Panes : chan'[u] \in Seq(Frames)
      BY <1>0, Fields
    <3>. QED BY <1>0, <3>1
  <2>3. (sess \in [Epochs -> Sessions])'
    BY <1>0 DEF Shaped
  <2>4. (pane \in [Panes -> Runtimes])'
    BY <1>0 DEF Shaped
  <2>. QED BY <1>0, <2>1, <2>2, <2>3, <2>4 DEF Shaped
<1>2. Wired'
  <2>1. Called'
    BY <1>0, Numbers DEF Wired, Called, Counted, Fed, End
  <2>2. Counted'
    BY <1>0, Numbers DEF Wired, Called, Counted, Fed, End
  <2>3. Fed'
    <3>1. \A g \in Epochs : /\ sess'[g].base = sess[g].base /\ sess'[g].hi = sess[g].hi
                            /\ sess'[g].on = sess[g].on /\ sess'[g].settled = sess[g].settled
                            /\ sess'[g].exited = sess[g].exited
      BY <1>0
    <3>2. shell' = shell /\ wire' = wire
      BY <1>0
    <3>. QED BY <3>1, <3>2 DEF Wired, Fed, End
  <2>. QED BY <2>1, <2>2, <2>3 DEF Wired
<1>3. Placed'
  <2>. SUFFICES ASSUME NEW u \in Panes
                PROVE  /\ ws'[u].id <= made'
                       /\ ws'[u].st \in {"settling", "attached"} => ws'[u].id # 0
                       /\ ws'[u].st = "attached" => sess'[ws'[u].id].settled
                       /\ ws'[u].st # "none" => pane'[u].st # "none"
                       /\ ws'[u].st # "attached" => ~pane'[u].counting
    BY DEF Placed
  <2>1. CASE u = v
    <3>1. /\ ws[v].id <= made /\ ws[v].id \in Epochs /\ sess[ws[v].id].settled
          /\ pane[v].st # "none"
      BY <1>0 DEF Placed
    <3>2. ws'[v].st = "attached" /\ ws'[v].id = ws[v].id /\ made' = made
          /\ sess'[ws[v].id].settled = sess[ws[v].id].settled /\ pane'[v].st = pane[v].st
      BY <1>0, <3>1
    <3>3. 0 \notin Epochs
      BY DEF Epochs
    <3>. QED BY <2>1, <3>1, <3>2, <3>3
  <2>2. CASE u # v
    BY <2>2, <1>0, Placing DEF Placed
  <2>. QED BY <2>1, <2>2
<1>4. Bounded'
  <2>1. \A n \in Nat : Frontier(n)' => Frontier(n)
    <3>1. \A g \in Epochs : End(g)' = End(g) /\ sess'[g].on = sess[g].on
                            /\ sess'[g].settled = sess[g].settled
      BY <1>0 DEF End
    <3>2. out' = out /\ wire' = wire
      BY <1>0
    <3>. QED BY <3>1, <3>2 DEF Frontier
  <2>2. ASSUME NEW n \in Nat, Frontier(n)' PROVE AllBelow(n)'
    <3>1. AllBelow(n) /\ Frontier(n)
      BY <2>1, <2>2 DEF Bounded
    <3>2. sess[ws[v].id].hi = 0 \/ End(ws[v].id) <= n
      <4>1. CASE sess[ws[v].id].on /\ wire.st = "on"
        BY <1>0, <3>1, <4>1, Numbers DEF Frontier, Larger, Wired, Counted, Fed
      <4>2. CASE sess[ws[v].id].on /\ wire.st # "on"
        BY <1>0, <4>2, Numbers DEF Wired, Called, Fed
      <4>3. CASE ~sess[ws[v].id].on
        BY <1>0, <3>1, <4>3 DEF AllBelow
      <4>. QED BY <4>1, <4>2, <4>3
    <3>3. \A u \in Panes : \A k \in 1 .. Len(chan'[u]) : Below(chan'[u][k].ps, n)
      BY <1>0, <3>1, <3>2 DEF AllBelow
    <3>4. \A g \in Epochs : ~sess'[g].on => End(g)' <= n
      BY <1>0, <3>1, Numbers DEF AllBelow, End
    <3>. QED BY <1>0, <3>1, <3>3, <3>4 DEF AllBelow
  <2>3. \A u \in Panes : ws'[u].st = "settling" /\ ~sess'[ws'[u].id].on =>
            Below(pane'[u].screen, End(ws[u].id)')
    <3>1. \A u \in Panes : ws'[u].st = "settling" =>
             ws'[u] = ws[u] /\ pane'[u].screen = pane[u].screen /\ ws[u].id \in Epochs
      BY <1>0, Placing
    <3>2. \A g \in Epochs : ~sess'[g].on => ~sess[g].on /\ End(g)' = End(g)
      BY <1>0, Numbers DEF End
    <3>. QED BY <3>1, <3>2 DEF Bounded
  <2>4. \A u \in Panes : ws'[u].id = ws[u].id
    BY <1>0
  <2>. QED BY <1>0, <2>2, <2>3, <2>4 DEF Bounded
<1>5. Anchored'
  <2>1. \A g \in Epochs : g <= made /\ sess[g].settled =>
            sess'[g].settled /\ sess[g].base <= sess'[g].base
    BY <1>0, Numbers DEF Wired, Called, Counted, Fed, End
  <2>2. \A u \in Panes :
            /\ pane'[u].screen = pane[u].screen
            /\ pane'[u].anchor = pane[u].anchor \/ pane'[u].anchor = NoAnchor
            /\ pane'[u].had = pane[u].had /\ pane'[u].got = pane[u].got
    BY <1>0
  <2>3. \A u \in Panes : ws'[u].st \in {"adopting", "respawning", "settling"} =>
            \/ Asking(pane'[u], ws'[u])
            \/ /\ ws[u].st \in {"adopting", "respawning", "settling"}
               /\ ws'[u].ask = ws[u].ask /\ pane'[u].anchor = pane[u].anchor
    BY <1>0
  <2>4. stored' = stored /\ made <= made'
    BY <1>0, Numbers
  <2>. QED BY <1>1, <2>1, <2>2, <2>3, <2>4, AnchoredStays
<1>6. Threaded'
  <2>. SUFFICES ASSUME NEW u \in Panes, ws'[u].st = "attached"
                PROVE  OnThread(chan'[u], pane'[u], ws'[u].id, sess'[ws'[u].id])
    BY DEF Threaded
  <2>1. CASE u = v
    <3>1. OnThread(chan'[v], pane'[v], ws[v].id, sess'[ws[v].id])
      BY <1>0, ThreadStays
    <3>. QED BY <1>0, <2>1, <3>1
  <2>2. CASE u # v
    <3>1. /\ ws[u].st = "attached" /\ ws'[u] = ws[u] /\ ws[u].id \in Epochs
          /\ chan[u] \in Seq(Frames) /\ OnThread(chan[u], pane[u], ws[u].id, sess[ws[u].id])
      BY <1>0, <2>2, Placing, Fields DEF Threaded
    <3>2. /\ chan'[u] = chan[u] /\ pane'[u].screen = pane[u].screen
          /\ pane'[u].anchor = pane[u].anchor /\ pane'[u].counting = pane[u].counting
          /\ sess'[ws[u].id].base = sess[ws[u].id].base /\ sess'[ws[u].id].hi = sess[ws[u].id].hi
      BY <1>0, <2>2, <3>1
    <3>. QED BY <3>1, <3>2, ThreadStays
  <2>. QED BY <2>1, <2>2
<1>7. Steady'
  BY <1>0 DEF Steady, Rising
<1>. QED BY <1>1, <1>2, <1>3, <1>4, <1>5, <1>6, <1>7

\* Adopt keeps the invariant.
LEMMA AdoptStep ==
    ASSUME Invariant, NEW w \in Pursuers, Adopt(w)
    PROVE  Invariant'
<1>1. Install(w, FALSE) /\ shell.st = "alive" /\ shell' = shell
  BY DEF Adopt
<1>2. w \in Panes => ws[w].st = "adopting"
  BY DEF Adopt, Pursuit
<1>. QED BY <1>1, <1>2, InstallStep

\* Respawn keeps the invariant.
LEMMA RespawnStep ==
    ASSUME Invariant, NEW w \in Pursuers, Respawn(w)
    PROVE  Invariant'
<1>1. w \in Panes => ws[w].st = "respawning"
  BY DEF Respawn, Pursuit
<1>2. CASE shell.st = "alive"
  <2>1. Install(w, FALSE) /\ shell' = shell
    BY <1>2 DEF Respawn
  <2>. QED BY <1>1, <1>2, <2>1, InstallStep
<1>3. CASE shell.st # "alive"
  <2>1. Install(w, TRUE) /\ ~ExitInFlight /\ shell' = [st |-> "alive", from |-> out]
    BY <1>3 DEF Respawn
  <2>. QED BY <1>1, <1>3, <2>1, InstallStep
<1>. QED BY <1>2, <1>3

\* What painting a frame makes of a runtime.
LEMMA PaintIs ==
    ASSUME NEW p \in Runtimes, NEW f \in Frames
    PROVE  LET r == Paint(p, f) IN
           /\ r \in Runtimes /\ r.st = p.st /\ r.screen = p.screen \o f.ps /\ r.got
           /\ r.pend = p.pend + Len(f.ps) /\ r.join = p.join
           /\ r.had = p.had /\ r.counting = p.counting
           /\ r.anchor.e = p.anchor.e
           /\ p.counting /\ p.anchor.e # 0 => r.anchor.n = p.anchor.n + Len(f.ps)
<1> DEFINE n == IF p.counting /\ p.anchor.e # 0 THEN p.anchor.n + Len(f.ps) ELSE p.anchor.n
           a == [p.anchor EXCEPT !.n = n]
           t == p.screen \o f.ps
           k == p.pend + Len(f.ps)
<1>1. p.screen \in Seq(Nat) /\ f.ps \in Seq(Nat) /\ p.anchor \in Anchors
  BY DEF Runtimes, Frames
<1>2. t \in Seq(Nat) /\ n \in Nat /\ k \in Nat
  BY <1>1, ConcatProperties, LenProperties DEF Anchors, Runtimes
<1>3. a \in Anchors /\ a.e = p.anchor.e /\ a.n = n
  <2>. HIDE DEF n
  <2>. QED BY <1>1, <1>2 DEF Anchors
<1>4. Paint(p, f) = [p EXCEPT !.screen = t, !.pend = k, !.got = TRUE, !.since = TRUE,
                              !.anchor = a]
  BY <1>1 DEF Paint, Anchors, Runtimes
<1>. HIDE DEF a, t, k
<1>5. LET r == [p EXCEPT !.screen = t, !.pend = k, !.got = TRUE, !.since = TRUE, !.anchor = a] IN
      /\ r \in Runtimes /\ r.st = p.st /\ r.screen = t /\ r.pend = k /\ r.got
      /\ r.had = p.had /\ r.counting = p.counting /\ r.anchor = a /\ r.join = p.join
  BY <1>2, <1>3 DEF Runtimes
<1>. QED BY <1>3, <1>4, <1>5 DEF t, k

\* What any frame makes of a runtime.
LEMMA TakenIs ==
    ASSUME NEW p \in Runtimes, NEW f \in Frames
    PROVE  LET r == Taken(p, f) IN
           /\ r \in Runtimes /\ r.st = p.st /\ r.had = p.had
           /\ f.k # "bytes" => r.screen = p.screen /\ (p.got => r.got)
           /\ f.k = "bytes" => r = Paint(p, f)
           /\ f.k = "attached" => r.pend = p.pend
           /\ f.k \in Joins \cup {"exit"} => r.pend = 0
           /\ f.k = "attached" => r.anchor = p.anchor /\ ~r.counting
           /\ f.k \in Joins => r.anchor.e = f.e /\ r.anchor.n = f.n /\ r.counting
           /\ f.k = "exit" => ~r.counting /\ (r.anchor = p.anchor \/ r.anchor = NoAnchor)
<1>1. CASE f.k = "attached"
  BY <1>1, BoundsAssumption DEF Taken, Runtimes, Joins
<1>2. CASE f.k = "exact"
  BY <1>2 DEF Taken, Runtimes, Joins, Anchors, Frames
<1>3. CASE f.k \in {"tail", "reanchor"}
  BY <1>3 DEF Taken, Runtimes, Joins, Joined, Anchors, Frames
<1>4. CASE f.k = "bytes"
  <2>1. Taken(p, f) = Paint(p, f)
    BY <1>4 DEF Taken
  <2>. QED BY <1>4, <2>1, PaintIs DEF Joins
<1>5. CASE f.k = "exit"
  <2>1. Taken(p, f) = [Closed(p) EXCEPT !.ended = TRUE]
    BY <1>5 DEF Taken
  <2>2. Closed(p) \in Runtimes
    BY ClosedIs
  <2>3. \A r \in Runtimes : LET t == [r EXCEPT !.ended = TRUE] IN
           /\ t \in Runtimes /\ t.st = r.st /\ t.had = r.had /\ t.got = r.got
           /\ t.screen = r.screen /\ t.anchor = r.anchor /\ t.counting = r.counting
           /\ t.pend = r.pend
    BY DEF Runtimes
  <2>. QED BY <1>5, <2>1, <2>2, <2>3, ClosedIs DEF Joins
<1>. QED BY <1>1, <1>2, <1>3, <1>4, <1>5 DEF Frames, Joins

\* Taking the first frame of a thread keeps the pane on it.
LEMMA TakenThread ==
    ASSUME NEW p \in Runtimes, NEW q \in Seq(Frames), q # <<>>, NEW e \in Nat \ {0},
           NEW s \in Sessions, NEW c \in [0 .. Len(q) -> Nat], Thread(q, c, p, e, s),
           Head(q).k # "exit"
    PROVE  LET r == Taken(p, Head(q)) IN
           /\ Below(r.screen, c[1]) /\ (Rising(p.screen) => Rising(r.screen))
           /\ \/ r.anchor = p.anchor /\ r.screen = p.screen
              \/ r.anchor.e = e /\ c[1] = s.base + r.anchor.n
           /\ OnThread(Tail(q), r, e, s)
<1> DEFINE f == Head(q)
           r == Taken(p, f)
<1>1. Len(q) \in Nat \ {0} /\ f = q[1] /\ f \in Frames
  BY LenProperties, EmptySeq, HeadTailProperties
<1>2. /\ c[0] \in Nat /\ c[1] \in Nat /\ c[0] <= c[1] /\ Below(p.screen, c[0])
      /\ Carries(f, c[0], c[1], e, s) /\ Ordered(q) /\ Knows(q, c[0], p, e, s)
  <2>1. 1 \in 1 .. Len(q) /\ 0 \in 0 .. Len(q) /\ 1 \in 0 .. Len(q) /\ 1 - 1 = 0
    BY <1>1
  <2>. QED BY <1>1, <2>1 DEF Thread, Climbs
<1>3. p.screen \in Seq(Nat) /\ s.base \in Nat /\ f.ps \in Seq(Nat) /\ p.anchor \in Anchors
  BY <1>1 DEF Runtimes, Sessions, Frames
<1>4. r \in Runtimes
  BY <1>1, TakenIs
<1>5. CASE f.k = "attached"
  <2>1. r.screen = p.screen /\ r.anchor = p.anchor /\ ~r.counting
    BY <1>1, <1>5, TakenIs
  <2>2. Below(r.screen, c[1])
    BY <1>2, <1>3, <2>1, BelowLater
  <2>3. Len(q) > 1 /\ q[2].k \in Joins
    BY <1>1, <1>2, <1>5 DEF Ordered
  <2>4. OnThread(Tail(q), r, e, s)
    BY <2>1, <2>2, <2>3, ThreadShifts
  <2>. QED BY <2>1, <2>2, <2>4
<1>6. CASE f.k \in Joins
  <2>1. r.screen = p.screen /\ r.anchor.e = f.e /\ r.anchor.n = f.n /\ r.counting
    BY <1>1, <1>6, TakenIs DEF Joins
  <2>2. f.e = e /\ c[1] = s.base + f.n /\ c[1] = c[0]
    BY <1>2, <1>6 DEF Carries, Joins
  <2>3. ASSUME NEW k \in 2 .. Len(q) PROVE q[k].k \in {"bytes", "exit"}
    <3>1. k \in 1 .. Len(q) /\ k # 1 /\ 1 \in 1 .. k - 1
      BY <1>1
    <3>2. q[k] \in Frames
      BY <3>1, ElementOfSeq
    <3>3. q[k].k \notin Joins /\ q[k].k # "attached"
      BY <1>1, <1>2, <1>6, <3>1 DEF Ordered, Joins
    <3>. QED BY <3>2, <3>3 DEF Frames
  <2>4. OnThread(Tail(q), r, e, s)
    BY <1>2, <2>1, <2>2, <2>3, ThreadShifts
  <2>. QED BY <1>2, <2>1, <2>2, <2>4
<1>7. CASE f.k = "bytes"
  <2>1. p.counting /\ p.anchor.e = e /\ c[0] = s.base + p.anchor.n
        /\ \A k \in 1 .. Len(q) : q[k].k \in {"bytes", "exit"}
    BY <1>1, <1>2, <1>7 DEF Knows, Joins
  <2>2. f.ps = Stretch(c[0], c[1])
    BY <1>2 DEF Carries
  <2>3. /\ r.screen = p.screen \o f.ps /\ r.counting /\ r.anchor.e = e
        /\ r.anchor.n = p.anchor.n + Len(f.ps)
    <3>1. r = Paint(p, f)
      BY <1>1, <1>7, TakenIs
    <3> DEFINE x == Paint(p, f)
    <3>2. /\ x.screen = p.screen \o f.ps /\ x.counting = p.counting
          /\ x.anchor.e = p.anchor.e
          /\ p.counting /\ p.anchor.e # 0 => x.anchor.n = p.anchor.n + Len(f.ps)
      BY <1>1, PaintIs
    <3>3. r = x
      BY <3>1
    <3>. HIDE DEF r, x
    <3>. QED BY <2>1, <3>2, <3>3
  <2>4. Len(f.ps) = c[1] - c[0]
    BY <1>2, <2>2, StretchIs
  <2>5. Below(r.screen, c[1]) /\ (Rising(p.screen) => Rising(r.screen))
    BY <1>2, <1>3, <2>2, <2>3, PaintOn
  <2>6. c[1] = s.base + r.anchor.n
    BY <1>2, <1>3, <2>1, <2>3, <2>4 DEF Anchors
  <2>7. OnThread(Tail(q), r, e, s)
    <3>1. \A k \in 2 .. Len(q) : q[k].k \in {"bytes", "exit"}
      BY <2>1
    <3>. QED BY <2>3, <2>5, <2>6, <3>1, ThreadShifts
  <2>. QED BY <2>3, <2>5, <2>6, <2>7
<1>. QED BY <1>1, <1>5, <1>6, <1>7 DEF Frames

\* What the transport makes of a frame, but for what then leaves the queue.
LEMMA Received ==
    ASSUME Shaped, Queued, NEW v \in Panes, Receive(v)
    PROVE  LET f == Head(chan[v])  t == Taken(pane[v], f) IN
           /\ pane' = [pane EXCEPT ![v] = pane'[v]] /\ t \in Runtimes
           /\ Trimmed(t, pane'[v]) /\ pane'[v].pend <= Len(pane'[v].screen)
           /\ f.k \notin {"attached", "bytes"} => pane'[v] = t
<1> DEFINE p == pane[v]
           f == Head(chan[v])
           t == Taken(p, f)
<1>1. p \in Runtimes /\ f \in Frames
  <2>1. p \in Runtimes /\ chan[v] \in Seq(Frames) /\ chan[v] # <<>>
    BY DEF Shaped, Receive
  <2>. QED BY <2>1, HeadTailProperties
<1>2. t \in Runtimes
  BY <1>1, TakenIs
<1>3. /\ p.pend \in Nat /\ p.screen \in Seq(Nat) /\ p.pend <= Len(p.screen)
      /\ f.ps \in Seq(Nat) /\ Len(p.screen) \in Nat /\ Len(f.ps) \in Nat
  BY <1>1, LenProperties DEF Runtimes, Frames, Queued
<1>4. t.pend \in Nat /\ t.pend <= Len(t.screen)
  <2>1. CASE f.k = "bytes"
    <3>1. t = Paint(p, f)
      BY <1>1, <2>1, TakenIs
    <3>2. Paint(p, f).pend = p.pend + Len(f.ps) /\ Paint(p, f).screen = p.screen \o f.ps
      BY <1>1, PaintIs
    <3>3. Len(p.screen \o f.ps) = Len(p.screen) + Len(f.ps)
      BY <1>3, ConcatProperties
    <3>4. \A a, b, c \in Nat : a <= b => a + c \in Nat /\ a + c <= b + c
      OBVIOUS
    <3>5. p.pend + Len(f.ps) \in Nat /\ p.pend + Len(f.ps) <= Len(p.screen) + Len(f.ps)
      BY <1>3, <3>4
    <3>. HIDE DEF t, p, f
    <3>. QED BY <3>1, <3>2, <3>3, <3>5
  <2>2. CASE f.k = "attached"
    <3>1. t.pend = p.pend /\ t.screen = p.screen
      BY <1>1, <2>2, TakenIs
    <3>. HIDE DEF t
    <3>. QED BY <1>3, <3>1
  <2>3. CASE f.k \in Joins \cup {"exit"}
    <3>1. t.pend = 0
      BY <1>1, <2>3, TakenIs
    <3>2. t.screen \in Seq(Nat)
      BY <1>2 DEF Runtimes
    <3>. HIDE DEF t
    <3>. QED BY <3>1, <3>2, LenProperties
  <2>. QED BY <1>1, <2>1, <2>2, <2>3 DEF Frames
<1>5. ASSUME NEW n \in Overflows(p, f)
      PROVE  n \in 0 .. t.pend /\ (f.k \notin {"attached", "bytes"} => n = 0)
  <2>1. CASE f.k = "bytes"
    <3>1. t = Paint(p, f)
      BY <1>1, <2>1, TakenIs
    <3>2. Paint(p, f).pend = p.pend + Len(f.ps)
      BY <1>1, PaintIs
    <3>3. n \in 0 .. p.pend
      BY <2>1 DEF Overflows
    <3>4. n \in 0 .. p.pend + Len(f.ps)
      BY <1>3, <3>3
    <3>. HIDE DEF t, p, f
    <3>. QED BY <2>1, <3>1, <3>2, <3>4
  <2>2. CASE f.k = "attached"
    <3>1. t.pend = p.pend
      BY <1>1, <2>2, TakenIs
    <3>2. n \in 0 .. p.pend
      BY <1>3, <2>2 DEF Overflows
    <3>. HIDE DEF t, p
    <3>. QED BY <2>2, <3>1, <3>2
  <2>3. CASE f.k \notin {"attached", "bytes"}
    <3>1. n = 0
      BY <2>3 DEF Overflows
    <3>. HIDE DEF t
    <3>. QED BY <1>4, <3>1
  <2>. QED BY <2>1, <2>2, <2>3
<1>6. PICK n \in Overflows(p, f) : \/ n = 0 /\ pane' = [pane EXCEPT ![v] = t]
                                   \/ n > 0 /\ pane' = [pane EXCEPT ![v] = Shed(t, n)]
  BY DEF Receive
<1>7. pane \in [Panes -> Runtimes]
  BY DEF Shaped
<1>8. n \in 0 .. t.pend /\ (f.k \notin {"attached", "bytes"} => n = 0)
  BY <1>5
<1>. HIDE DEF t
<1>9. CASE n = 0 /\ pane' = [pane EXCEPT ![v] = t]
  <2>1. pane'[v] = t
    BY <1>7, <1>9
  <2>. QED BY <1>2, <1>4, <1>9, <2>1, TrimmedSelf DEF t
<1>10. CASE n > 0 /\ pane' = [pane EXCEPT ![v] = Shed(t, n)]
  <2>1. pane'[v] = Shed(t, n)
    BY <1>7, <1>10
  <2>2. Trimmed(t, Shed(t, n)) /\ Shed(t, n).pend <= Len(Shed(t, n).screen)
    BY <1>2, <1>4, <1>8, ShedIs
  <2>3. f.k \in {"attached", "bytes"}
    BY <1>8, <1>10
  <2>. QED BY <1>2, <1>10, <2>1, <2>2, <2>3 DEF t
<1>. QED BY <1>6, <1>9, <1>10

\* Receive keeps the invariant.
LEMMA ReceiveStep ==
    ASSUME Invariant, Queued, NEW v \in Panes, Receive(v)
    PROVE  Invariant'
<1>. USE DEF Invariant
<1> DEFINE p == pane[v]
           q == chan[v]
           f == Head(q)
           e == ws[v].id
           t == Taken(p, f)
           r == pane'[v]
<1>0. /\ ws[v].st = "attached" /\ e \in Epochs /\ e <= made /\ sess[e].settled
      /\ p \in Runtimes /\ q \in Seq(Frames) /\ q # <<>> /\ f \in Frames /\ f = q[1]
      /\ 1 \in 1 .. Len(q) /\ sess[e] \in Sessions
      /\ UNCHANGED <<out, shell, wire, sess, made, current, stored>>
  <2>1. ws[v].st = "attached" /\ q # <<>> /\ UNCHANGED <<out, shell, wire, sess, made, current, stored>>
    BY DEF Receive
  <2>2. p \in Runtimes /\ q \in Seq(Frames)
    BY DEF Shaped
  <2>3. 1 \in 1 .. Len(q) /\ f \in Frames /\ f = q[1]
    BY <2>1, <2>2, LenProperties, EmptySeq, HeadTailProperties
  <2>4. e \in Epochs /\ e <= made /\ sess[e].settled
    BY <2>1, Placing DEF Placed
  <2>. QED BY <2>1, <2>2, <2>3, <2>4 DEF Shaped
<1>a. /\ pane' = [pane EXCEPT ![v] = r] /\ t \in Runtimes /\ Trimmed(t, r)
      /\ f.k \notin {"attached", "bytes"} => r = t
      /\ f.k = "exit" => ws' = [ws EXCEPT ![v] = NoWs] /\ chan' = [chan EXCEPT ![v] = <<>>]
      /\ f.k # "exit" => ws' = ws /\ chan' = [chan EXCEPT ![v] = Tail(q)]
  <2>1. /\ pane' = [pane EXCEPT ![v] = r] /\ t \in Runtimes /\ Trimmed(t, r)
        /\ f.k \notin {"attached", "bytes"} => r = t
    BY Received
  <2>2. /\ f.k = "exit" => ws' = [ws EXCEPT ![v] = NoWs] /\ chan' = [chan EXCEPT ![v] = <<>>]
        /\ f.k # "exit" => ws' = ws /\ chan' = [chan EXCEPT ![v] = Tail(q)]
    BY DEF Receive
  <2>. QED BY <2>1, <2>2
<1>b. /\ \A u \in Panes : u # v => pane'[u] = pane[u] /\ chan'[u] = chan[u] /\ ws'[u] = ws[u]
      /\ f.k = "exit" => ws'[v] = NoWs /\ chan'[v] = <<>>
      /\ f.k # "exit" => ws'[v] = ws[v] /\ chan'[v] = Tail(q)
  <2>. HIDE DEF t, r
  <2>. QED BY <1>a DEF Shaped
<1>f. /\ t.st = p.st /\ t.had = p.had
      /\ f.k # "bytes" => t.screen = p.screen /\ (p.got => t.got)
      /\ f.k = "bytes" => t.screen = p.screen \o f.ps /\ t.got
      /\ f.k = "exit" => ~t.counting /\ (t.anchor = p.anchor \/ t.anchor = NoAnchor)
  <2>1. /\ t.st = p.st /\ t.had = p.had
        /\ f.k # "bytes" => t.screen = p.screen /\ (p.got => t.got)
        /\ f.k = "bytes" => t = Paint(p, f)
        /\ f.k = "exit" => ~t.counting /\ (t.anchor = p.anchor \/ t.anchor = NoAnchor)
    BY <1>0, TakenIs
  <2>2. Paint(p, f).screen = p.screen \o f.ps /\ Paint(p, f).got
    BY <1>0, PaintIs
  <2>. HIDE DEF p, f, t
  <2>. QED BY <2>1, <2>2
<1>g. f.k # "exit" =>
         /\ Rising(p.screen) => Rising(t.screen)
         /\ \/ t.anchor = p.anchor /\ t.screen = p.screen
            \/ t.anchor.e = e /\ Below(t.screen, sess[e].base + t.anchor.n)
         /\ OnThread(Tail(q), t, e, sess[e])
  <2>. SUFFICES ASSUME f.k # "exit"
                PROVE  /\ Rising(p.screen) => Rising(t.screen)
                       /\ \/ t.anchor = p.anchor /\ t.screen = p.screen
                          \/ t.anchor.e = e /\ Below(t.screen, sess[e].base + t.anchor.n)
                       /\ OnThread(Tail(q), t, e, sess[e])
    OBVIOUS
  <2>1. OnThread(q, p, e, sess[e])
    BY <1>0 DEF Threaded
  <2>2. PICK c \in [0 .. Len(q) -> Nat] : Thread(q, c, p, e, sess[e])
    BY <2>1 DEF OnThread
  <2>3. e \in Nat \ {0}
    BY <1>0 DEF Epochs
  <2>. QED BY <1>0, <2>2, <2>3, TakenThread
<1>h. Reached(t.screen, t.anchor, made, sess)
  <2>1. Reached(p.screen, p.anchor, made, sess)
    BY DEF Anchored
  <2>. HIDE DEF p, t, f, e
  <2>2. CASE t.anchor = NoAnchor
    BY <2>2, Blanks DEF Reached
  <2>3. CASE t.anchor = p.anchor /\ t.screen = p.screen
    BY <2>1, <2>3
  <2>4. CASE t.anchor.e = e /\ Below(t.screen, sess[e].base + t.anchor.n)
    BY <1>0, <2>4 DEF Reached
  <2>. QED BY <1>f, <1>g, <2>2, <2>3, <2>4
<1>. HIDE DEF t, r
<1>i. Tail(q) \in Seq(Frames)
  BY <1>0, HeadTailProperties
<1>c. /\ r \in Runtimes /\ r.st = p.st /\ r.had = p.had
      /\ \A n \in Nat : Below(t.screen, n) => Below(r.screen, n)
      /\ t.screen = <<>> => r.screen = <<>>
      /\ r.got = t.got /\ (f.k = "exit" => ~r.counting)
  BY <1>a, <1>f DEF Trimmed
<1>d. f.k # "exit" => (Rising(p.screen) => Rising(r.screen)) /\ OnThread(Tail(q), r, e, sess[e])
  <2>1. f.k # "exit" => (Rising(p.screen) => Rising(r.screen))
    BY <1>a, <1>g DEF Trimmed
  <2>. HIDE DEF p, q, f, e
  <2>2. f.k # "exit" => OnThread(Tail(q), r, e, sess[e])
    BY <1>a, <1>g, <1>i, ThreadTrims
  <2>. QED BY <2>1, <2>2
<1>j. Reached(r.screen, r.anchor, made, sess)
  <2>1. made \in Epochs /\ sess \in [Epochs -> Sessions]
    BY DEF Shaped
  <2>. QED BY <1>a, <1>h, <2>1, ReachedTrims
<1>k. /\ pane'[v] = r
      /\ p = pane[v] /\ q = chan[v] /\ e = ws[v].id
  BY DEF r
<1>. HIDE DEF p, q, f, e
<1>e. Tail(q) \in Seq(Frames) /\ \A k \in 1 .. Len(Tail(q)) : k + 1 \in 1 .. Len(q) /\ Tail(q)[k] = q[k + 1]
  BY <1>0, LenProperties, HeadTailProperties
<1>1. Shaped'
  <2>1. pane' \in [Panes -> Runtimes]
    BY <1>a, <1>c DEF Shaped
  <2>2. ws' \in [Panes -> Ends]
    BY <1>a, <1>b, Blanks DEF Shaped
  <2>3. chan' \in [Panes -> Seq(Frames)]
    BY <1>a, <1>b, <1>e, Blanks DEF Shaped
  <2>. QED BY <1>0, <2>1, <2>2, <2>3 DEF Shaped
<1>2. Wired'
  BY <1>0 DEF Wired, Called, Counted, Fed, End
<1>3. Placed'
  <2>. SUFFICES ASSUME NEW u \in Panes
                PROVE  /\ ws'[u].id <= made'
                       /\ ws'[u].st \in {"settling", "attached"} => ws'[u].id # 0
                       /\ ws'[u].st = "attached" => sess'[ws'[u].id].settled
                       /\ ws'[u].st # "none" => pane'[u].st # "none"
                       /\ ws'[u].st # "attached" => ~pane'[u].counting
    BY DEF Placed
  <2>1. CASE u = v /\ f.k = "exit"
    BY <1>0, <1>b, <1>c, <1>k, <2>1, Blanks, Numbers DEF Placed
  <2>2. CASE u = v /\ f.k # "exit"
    BY <1>0, <1>b, <1>c, <1>k, <2>2 DEF Placed
  <2>3. CASE u # v
    BY <1>0, <1>b, <2>3 DEF Placed
  <2>. QED BY <2>1, <2>2, <2>3
<1>4. Bounded'
  <2>1. ASSUME NEW n \in Nat, Frontier(n)' PROVE AllBelow(n)'
    <3>1. Frontier(n)
      BY <1>0, <2>1 DEF Frontier, End
    <3>2. AllBelow(n)
      BY <3>1 DEF Bounded
    <3>3. Below(p.screen, n) /\ \A k \in 1 .. Len(q) : Below(q[k].ps, n)
      BY <3>2 DEF AllBelow, p, q
    <3>4. Below(pane'[v].screen, n)
      <4>1. p.screen \in Seq(Nat) /\ f.ps \in Seq(Nat) /\ Below(f.ps, n)
        BY <1>0, <3>3 DEF Runtimes, Frames
      <4>2. Below(p.screen \o f.ps, n)
        BY <3>3, <4>1, BelowConcat
      <4>3. Below(t.screen, n)
        BY <1>f, <3>3, <4>2
      <4>. QED BY <1>c, <1>k, <4>3
    <3>5. \A k \in 1 .. Len(chan'[v]) : Below(chan'[v][k].ps, n)
      <4>1. CASE f.k = "exit"
        BY <1>b, <4>1
      <4>2. CASE f.k # "exit"
        BY <1>b, <1>e, <3>3, <4>2
      <4>. QED BY <4>1, <4>2
    <3>6. \A u \in Panes : \/ chan'[u] = chan[u]
                           \/ \A k \in 1 .. Len(chan'[u]) : Below(chan'[u][k].ps, n)
      BY <1>b, <3>5
    <3>7. \A u \in Panes : Below(pane'[u].screen, n) \/ pane'[u].screen = pane[u].screen
      BY <1>b, <3>4
    <3>8. \A g \in Epochs : ~sess'[g].on => ~sess[g].on /\ End(g)' <= End(g)
      BY <1>0, Numbers DEF End
    <3>. QED BY <1>0, <1>1, <3>2, <3>6, <3>7, <3>8, StillBelow
  <2>2. \A u \in Panes : ws'[u].st = "settling" =>
           ws'[u] = ws[u] /\ pane'[u].screen = pane[u].screen
    BY <1>0, <1>b, Blanks
  <2>. QED BY <1>0, <2>1, <2>2 DEF Bounded, End
<1>5. Anchored'
  <2>1. Reached(pane'[v].screen, pane'[v].anchor, made, sess)
    BY <1>j, <1>k
  <2>2. pane'[v].screen # <<>> => pane'[v].had \/ pane'[v].got
    <3>1. p.screen # <<>> => p.had \/ p.got
      BY <1>k DEF Anchored
    <3>. QED BY <1>c, <1>f, <1>k, <3>1
  <2>3. Asking(pane'[v], ws'[v])
    BY <1>0, <1>b, Blanks DEF Asking
  <2>. QED BY <1>0, <1>b, <2>1, <2>2, <2>3 DEF Anchored
<1>6. Threaded'
  <2>. SUFFICES ASSUME NEW u \in Panes, ws'[u].st = "attached"
                PROVE  OnThread(chan'[u], pane'[u], ws'[u].id, sess'[ws'[u].id])
    BY DEF Threaded
  <2>1. CASE u = v
    <3>1. f.k # "exit"
      BY <1>b, <2>1, Blanks
    <3>. QED BY <1>0, <1>b, <1>d, <1>k, <2>1, <3>1
  <2>2. CASE u # v
    BY <1>0, <1>b, <2>2 DEF Threaded
  <2>. QED BY <2>1, <2>2
<1>7. Steady'
  <2>1. Rising(pane'[v].screen)
    <3>1. Rising(p.screen)
      BY <1>k DEF Steady
    <3>2. CASE f.k = "exit"
      BY <1>a, <1>f, <1>k, <3>1, <3>2
    <3>. QED BY <1>d, <1>k, <3>1, <3>2
  <2>. QED BY <1>0, <1>b, <2>1 DEF Steady
<1>. QED BY <1>1, <1>2, <1>3, <1>4, <1>5, <1>6, <1>7

\* Some of a pane's queue leaves it, for xterm or for nothing.
LEMMA TrimStep ==
    ASSUME Invariant, NEW v \in Panes, NEW r, Trimmed(pane[v], r),
           pane' = [pane EXCEPT ![v] = r],
           UNCHANGED <<out, shell, wire, sess, made, current, ws, chan, stored>>
    PROVE  Invariant'
<1>. USE DEF Invariant
<1>a. /\ pane'[v] = r /\ \A u \in Panes : u # v => pane'[u] = pane[u]
      /\ pane[v] \in Runtimes /\ r \in Runtimes
  BY DEF Shaped, Trimmed
<1>1. Shaped'
  <2>1. pane' \in [Panes -> Runtimes]
    BY <1>a DEF Shaped
  <2>. QED BY <2>1 DEF Shaped
<1>2. Wired'
  BY DEF Wired, Called, Counted, Fed, End
<1>3. Placed'
  BY <1>a DEF Placed, Trimmed
<1>4. Bounded'
  <2>1. ASSUME NEW n \in Nat, Frontier(n)' PROVE AllBelow(n)'
    <3>1. Frontier(n)
      BY <2>1 DEF Frontier, End
    <3>2. AllBelow(n)
      BY <3>1 DEF Bounded
    <3>3. \A u \in Panes : Below(pane'[u].screen, n)
      BY <1>a, <3>2 DEF AllBelow, Trimmed
    <3>. QED BY <3>2, <3>3 DEF AllBelow, End
  <2>2. ASSUME NEW u \in Panes, ws[u].st = "settling", ~sess[ws[u].id].on
        PROVE  Below(pane'[u].screen, sess[ws[u].id].base + sess[ws[u].id].hi)
    <3>1. Below(pane[u].screen, sess[ws[u].id].base + sess[ws[u].id].hi)
      BY <2>2 DEF Bounded, End
    <3>2. sess[ws[u].id].base + sess[ws[u].id].hi \in Nat
      BY <2>2, Placing, Numbers
    <3>. QED BY <1>a, <3>1, <3>2 DEF Trimmed
  <2>. QED BY <2>1, <2>2 DEF Bounded, End
<1>5. Anchored'
  <2>1. Reached(r.screen, r.anchor, made, sess)
    <3>1. /\ made \in Epochs /\ sess \in [Epochs -> Sessions]
          /\ Reached(pane[v].screen, pane[v].anchor, made, sess)
      BY DEF Shaped, Anchored
    <3>. QED BY <1>a, <3>1, ReachedTrims
  <2>2. r.screen # <<>> => r.had \/ r.got
    BY DEF Anchored, Trimmed
  <2>3. Asking(r, ws[v])
    BY DEF Anchored, Asking, Trimmed
  <2>. QED BY <1>a, <2>1, <2>2, <2>3 DEF Anchored
<1>6. Threaded'
  <2>1. ASSUME NEW u \in Panes, ws[u].st = "attached"
        PROVE  OnThread(chan[u], pane'[u], ws[u].id, sess[ws[u].id])
    <3>1. OnThread(chan[u], pane[u], ws[u].id, sess[ws[u].id]) /\ chan[u] \in Seq(Frames)
      BY <2>1 DEF Threaded, Shaped
    <3>2. CASE u = v
      BY <1>a, <3>1, <3>2, ThreadTrims
    <3>3. CASE u # v
      BY <1>a, <3>1, <3>3
    <3>. QED BY <3>2, <3>3
  <2>. QED BY <2>1 DEF Threaded
<1>7. Steady'
  BY <1>a DEF Steady, Trimmed
<1>. QED BY <1>1, <1>2, <1>3, <1>4, <1>5, <1>6, <1>7

\* The queue is flushed, or its batch lost.
LEMMA FlushTrims ==
    ASSUME Shaped, Queued, NEW v \in Panes, Flush(v) \/ BatchLost(v)
    PROVE  \E r : /\ Trimmed(pane[v], r) /\ pane' = [pane EXCEPT ![v] = r]
                  /\ r.pend <= Len(r.screen)
                  /\ UNCHANGED <<out, shell, wire, sess, made, current, ws, chan, stored>>
<1>1. /\ pane[v] \in Runtimes /\ pane[v].pend \in Nat /\ pane[v].pend <= Len(pane[v].screen)
      /\ pane \in [Panes -> Runtimes]
  BY DEF Shaped, Runtimes, Queued
<1>2. CASE Flush(v)
  <2> DEFINE r == [pane[v] EXCEPT !.pend = 0]
  <2>1. Trimmed(pane[v], r) /\ r.pend = 0
    BY <1>1, FlushedIs
  <2>2. pane' = [pane EXCEPT ![v] = r]
    BY <1>1, <1>2 DEF Flush
  <2>3. r \in Runtimes
    BY <2>1 DEF Trimmed
  <2>. HIDE DEF r
  <2>4. r.pend <= Len(r.screen)
    BY <2>1, <2>3, LenProperties DEF Runtimes
  <2>. QED BY <1>2, <2>1, <2>2, <2>4 DEF Flush
<1>3. CASE BatchLost(v)
  <2> DEFINE r == Shed(pane[v], pane[v].pend)
  <2>0. pane[v].pend \in 0 .. pane[v].pend
    BY <1>1
  <2>1. Trimmed(pane[v], r) /\ r.pend <= Len(r.screen)
    BY <1>1, <2>0, ShedIs
  <2>2. pane' = [pane EXCEPT ![v] = r]
    BY <1>3 DEF BatchLost
  <2>. HIDE DEF r
  <2>. QED BY <1>3, <2>1, <2>2 DEF BatchLost
<1>. QED BY <1>2, <1>3

\* Flush and BatchLost keep the invariant.
LEMMA FlushStep ==
    ASSUME Invariant, Queued, NEW v \in Panes, Flush(v) \/ BatchLost(v)
    PROVE  Invariant'
<1>1. PICK r : /\ Trimmed(pane[v], r) /\ pane' = [pane EXCEPT ![v] = r]
               /\ UNCHANGED <<out, shell, wire, sess, made, current, ws, chan, stored>>
  BY FlushTrims DEF Invariant
<1>. QED BY <1>1, TrimStep

\* The runtime a pane is mounted with.
LEMMA SeedIs ==
    ASSUME Invariant, NEW v \in Panes, pane[v].st # "mounted", NEW seed \in Seeds(v)
    PROVE  /\ seed \in Runtimes /\ seed.st = "mounted"
           /\ \A n \in Nat : AllBelow(n) => Below(seed.screen, n)
           /\ Rising(seed.screen)
           /\ Reached(seed.screen, seed.anchor, made, sess)
           /\ seed.screen # <<>> => seed.had \/ seed.got
           /\ ws[v].st # "none" => /\ seed.screen = pane[v].screen /\ seed.anchor = pane[v].anchor
                                   /\ seed.counting = pane[v].counting
           /\ ws[v].st = "none" => ~seed.counting
<1>. USE DEF Invariant
<1> DEFINE siblings == {u \in Panes \ {v} : pane[u].st # "none"}
           With(buf, anchor, join) ==
               [FreshPane EXCEPT !.st = "mounted", !.screen = buf, !.anchor = anchor,
                                 !.join = join, !.had = buf # <<>>]
<1>1. pane[v] \in Runtimes /\ pane[v].st \in {"none", "parked"}
  <2>1. pane[v] \in Runtimes
    BY DEF Shaped
  <2>. QED BY <2>1 DEF Runtimes
<1>2. ASSUME NEW buf \in Seq(Nat), NEW anchor \in Anchors, NEW join \in Joined
      PROVE  LET r == With(buf, anchor, join) IN
             /\ r \in Runtimes /\ r.st = "mounted" /\ r.screen = buf /\ r.anchor = anchor
             /\ r.had = (buf # <<>>) /\ ~r.counting
  <2>1. (buf # <<>>) \in BOOLEAN
    OBVIOUS
  <2> DEFINE h == buf # <<>>
  <2>. HIDE DEF h
  <2>2. LET r == [FreshPane EXCEPT !.st = "mounted", !.screen = buf, !.anchor = anchor,
                                   !.join = join, !.had = h] IN
        /\ r \in Runtimes /\ r.st = "mounted" /\ r.screen = buf /\ r.anchor = anchor
        /\ r.had = h /\ ~r.counting
    BY <2>1, Blanks DEF FreshPane, Runtimes, h
  <2>. QED BY <2>2 DEF h
<1>3. CASE pane[v].st = "parked"
  <2>1. seed = [pane[v] EXCEPT !.st = "mounted"]
    BY <1>3 DEF Seeds
  <2>2. /\ seed \in Runtimes /\ seed.st = "mounted" /\ seed.screen = pane[v].screen
        /\ seed.anchor = pane[v].anchor /\ seed.counting = pane[v].counting
        /\ seed.had = pane[v].had /\ seed.got = pane[v].got
    BY <1>1, <2>1 DEF Runtimes
  <2>. QED BY <2>2 DEF AllBelow, Steady, Anchored, Placed
<1>4. CASE pane[v].st = "none"
  <2>1. ws[v].st = "none"
    BY <1>4 DEF Placed
  <2>2. ASSUME NEW buf \in Seq(Nat), NEW anchor \in Anchors, NEW join \in Joined,
               seed = With(buf, anchor, join),
               \A n \in Nat : AllBelow(n) => Below(buf, n),
               Rising(buf), Reached(buf, anchor, made, sess)
        PROVE  /\ seed \in Runtimes /\ seed.st = "mounted"
               /\ \A n \in Nat : AllBelow(n) => Below(seed.screen, n)
               /\ Rising(seed.screen)
               /\ Reached(seed.screen, seed.anchor, made, sess)
               /\ seed.screen # <<>> => seed.had \/ seed.got
               /\ ~seed.counting
    <3>. HIDE DEF With
    <3>1. /\ seed \in Runtimes /\ seed.st = "mounted" /\ seed.screen = buf
          /\ seed.anchor = anchor /\ seed.had = (buf # <<>>) /\ ~seed.counting
      BY <1>2, <2>2
    <3>. QED BY <2>2, <3>1
  <2>3. CASE siblings # {}
    <3>1. seed \in UNION {{With(Parsed(pane[u], k), NoAnchor, NoJoin) : k \in pane[u].pend .. Len(pane[u].screen)}
                            : u \in siblings}
      BY <1>4, <2>3 DEF Seeds
    <3>0. PICK u \in siblings : \E k \in 0 .. Len(pane[u].screen) :
             seed = With(Parsed(pane[u], k), NoAnchor, NoJoin)
      <4>1. PICK u \in siblings : \E k \in pane[u].pend .. Len(pane[u].screen) :
               seed = With(Parsed(pane[u], k), NoAnchor, NoJoin)
        BY <3>1
      <4>. HIDE DEF With
      <4>2. PICK k \in pane[u].pend .. Len(pane[u].screen) :
               seed = With(Parsed(pane[u], k), NoAnchor, NoJoin)
        BY <4>1
      <4>3. u \in Panes /\ pane[u].pend \in Nat /\ pane[u].screen \in Seq(Nat)
        BY <4>1, Typed DEF Shaped, Runtimes
      <4>4. Len(pane[u].screen) \in Nat
        BY <4>3, LenProperties
      <4>5. k \in 0 .. Len(pane[u].screen)
        BY <4>2, <4>3, <4>4
      <4>. QED BY <4>2, <4>5
    <3>2. PICK k \in 0 .. Len(pane[u].screen) : seed = With(Parsed(pane[u], k), NoAnchor, NoJoin)
      BY <3>0
    <3>3. u \in Panes /\ pane[u].screen \in Seq(Nat)
      BY <3>2, Typed
    <3>4. /\ Parsed(pane[u], k) \in Seq(Nat)
          /\ \A n \in Nat : Below(pane[u].screen, n) => Below(Parsed(pane[u], k), n)
          /\ Rising(pane[u].screen) => Rising(Parsed(pane[u], k))
      BY <3>2, <3>3, ParsedIs
    <3>5. Rising(pane[u].screen) /\ \A n \in Nat : AllBelow(n) => Below(pane[u].screen, n)
      BY <3>3 DEF AllBelow, Steady
    <3>6. Reached(Parsed(pane[u], k), NoAnchor, made, sess)
      BY Blanks DEF Reached
    <3>. QED BY <2>1, <2>2, <3>2, <3>4, <3>5, <3>6, Blanks
  <2>4. CASE siblings = {} /\ stored.buf = <<>>
    <3>1. seed = With(<<>>, NoAnchor, NoJoin)
      BY <1>4, <2>4 DEF Seeds
    <3>2. <<>> \in Seq(Nat) /\ Rising(<<>>) /\ \A n \in Nat : Below(<<>>, n)
      BY DEF Rising, Below
    <3>3. Reached(<<>>, NoAnchor, made, sess)
      BY Blanks DEF Reached
    <3>. QED BY <2>1, <2>2, <3>1, <3>2, <3>3, Blanks
  <2>5. CASE siblings = {} /\ stored.buf # <<>>
    <3>1. seed = With(stored.buf, stored.anchor, stored.join)
      BY <1>4, <2>5 DEF Seeds
    <3>2. stored.buf \in Seq(Nat) /\ stored.anchor \in Anchors /\ stored.join \in Joined
      BY Typed
    <3>3. /\ Rising(stored.buf) /\ Reached(stored.buf, stored.anchor, made, sess)
          /\ \A n \in Nat : AllBelow(n) => Below(stored.buf, n)
      BY DEF Steady, Anchored, AllBelow
    <3>. QED BY <2>1, <2>2, <3>1, <3>2, <3>3
  <2>. QED BY <2>3, <2>4, <2>5
<1>. QED BY <1>1, <1>3, <1>4

\* Mount keeps the invariant.
LEMMA MountStep ==
    ASSUME Invariant, NEW v \in Panes, Mount(v)
    PROVE  Invariant'
<1>. USE DEF Invariant
<1>0. /\ UNCHANGED <<out, shell, wire, sess, made, current, ws, chan, stored>>
      /\ pane[v].st # "mounted"
      /\ \E seed \in Seeds(v) : pane' = [pane EXCEPT ![v] = seed]
  BY DEF Mount
<1> DEFINE r == pane'[v]
<1>a. r \in Seeds(v) /\ pane' = [pane EXCEPT ![v] = r]
      /\ \A u \in Panes : u # v => pane'[u] = pane[u]
  BY <1>0 DEF Shaped
<1>b. /\ r \in Runtimes /\ r.st = "mounted"
      /\ \A n \in Nat : AllBelow(n) => Below(r.screen, n)
      /\ Rising(r.screen)
      /\ Reached(r.screen, r.anchor, made, sess)
      /\ r.screen # <<>> => r.had \/ r.got
      /\ ws[v].st # "none" => /\ r.screen = pane[v].screen /\ r.anchor = pane[v].anchor
                              /\ r.counting = pane[v].counting
      /\ ws[v].st = "none" => ~r.counting
  BY <1>0, <1>a, SeedIs
<1>1. Shaped'
  <2>1. pane' \in [Panes -> Runtimes]
    BY <1>a, <1>b DEF Shaped
  <2>. QED BY <1>0, <2>1 DEF Shaped
<1>2. Wired'
  BY <1>0 DEF Wired, Called, Counted, Fed, End
<1>3. Placed'
  BY <1>0, <1>a, <1>b DEF Placed
<1>4. Bounded'
  <2>1. ASSUME NEW n \in Nat, Frontier(n)' PROVE AllBelow(n)'
    <3>1. Frontier(n)
      BY <1>0, <2>1 DEF Frontier, End
    <3>2. AllBelow(n)
      BY <3>1 DEF Bounded
    <3>. QED BY <1>0, <1>a, <1>b, <3>2 DEF AllBelow, End
  <2>2. \A u \in Panes : ws[u].st = "settling" => pane'[u].screen = pane[u].screen
    BY <1>a, <1>b
  <2>. QED BY <1>0, <2>1, <2>2 DEF Bounded, End
<1>5. Anchored'
  <2>1. Asking(r, ws[v])
    BY <1>b DEF Anchored, Asking
  <2>. QED BY <1>0, <1>a, <1>b, <2>1 DEF Anchored
<1>6. Threaded'
  <2>1. \A u \in Panes : ws'[u].st = "attached" =>
            /\ ws[u].st = "attached" /\ ws'[u].id = ws[u].id /\ chan'[u] = chan[u]
            /\ pane'[u].screen = pane[u].screen /\ pane'[u].anchor = pane[u].anchor
            /\ pane'[u].counting = pane[u].counting
            /\ sess'[ws[u].id].base = sess[ws[u].id].base
            /\ sess'[ws[u].id].hi = sess[ws[u].id].hi
    BY <1>0, <1>a, <1>b
  <2>. QED BY <2>1, ThreadedStays
<1>7. Steady'
  BY <1>0, <1>a, <1>b DEF Steady
<1>. QED BY <1>1, <1>2, <1>3, <1>4, <1>5, <1>6, <1>7

\* What is persisted of a pane.
LEMMA SnapshotIs ==
    ASSUME Invariant, NEW v \in Panes, NEW k \in 0 .. Len(pane[v].screen), NEW ok \in BOOLEAN
    PROVE  LET r == Snapshot(pane[v], k, ok) IN
           /\ r \in Stores
           /\ \A n \in Nat : AllBelow(n) => Below(r.buf, n)
           /\ Rising(r.buf) /\ Reached(r.buf, r.anchor, made, sess)
<1>. USE DEF Invariant
<1> DEFINE p == pane[v]
           b == IF ok THEN Parsed(p, k) ELSE stored.buf
           a == IF ok THEN Persistable(p, k) ELSE NoAnchor
           j == IF a.e = 0 THEN NoJoin ELSE p.join
<1>1. CASE p.ended
  <2>1. Snapshot(p, k, ok) = NoStored
    BY <1>1 DEF Snapshot
  <2>. QED BY <2>1, Blanks DEF Below, Rising, Reached
<1>2. CASE ~p.ended
  <2>1. Snapshot(p, k, ok) = [buf |-> b, anchor |-> a, join |-> j]
    BY <1>2 DEF Snapshot
  <2>2. p.screen \in Seq(Nat) /\ p.anchor \in Anchors /\ p.join \in Joined /\ stored.buf \in Seq(Nat)
    BY Typed
  <2>3. /\ Parsed(p, k) \in Seq(Nat)
        /\ \A n \in Nat : Below(p.screen, n) => Below(Parsed(p, k), n)
        /\ Rising(p.screen) => Rising(Parsed(p, k))
        /\ k = 0 => Parsed(p, k) = p.screen
    BY <2>2, ParsedIs
  <2>4. a = NoAnchor \/ (ok /\ k = 0 /\ a = p.anchor)
    BY DEF Persistable
  <2>5. b \in Seq(Nat) /\ a \in Anchors /\ j \in Joined
    BY <2>2, <2>3, <2>4, Blanks
  <2>6. \A n \in Nat : AllBelow(n) => Below(p.screen, n) /\ Below(stored.buf, n)
    BY DEF AllBelow
  <2>7. Rising(p.screen) /\ Rising(stored.buf)
    BY DEF Steady
  <2>8. Reached(b, a, made, sess)
    <3>1. CASE a = NoAnchor
      BY <3>1, Blanks DEF Reached
    <3>2. CASE ok /\ k = 0 /\ a = p.anchor
      <4>1. b = p.screen
        BY <2>3, <3>2
      <4>. QED BY <3>2, <4>1 DEF Anchored
    <3>. QED BY <2>4, <3>1, <3>2
  <2>9. (\A n \in Nat : AllBelow(n) => Below(b, n)) /\ Rising(b)
    BY <2>3, <2>6, <2>7
  <2>. HIDE DEF b, a, j
  <2>. QED BY <2>1, <2>5, <2>8, <2>9 DEF Stores
<1>. QED BY <1>1, <1>2

\* A pane is put away: its socket closes, or it stays and the pane is kept whole.
LEMMA PutAway ==
    ASSUME Invariant, NEW v \in Panes, NEW r \in Runtimes,
           pane' = [pane EXCEPT ![v] = r],
           UNCHANGED <<out, shell, wire, sess, made, current>>,
           stored' \in Stores, Rising(stored'.buf),
           \A n \in Nat : AllBelow(n) => Below(stored'.buf, n),
           Reached(stored'.buf, stored'.anchor, made, sess),
           r.screen = pane[v].screen \/ r.screen = <<>>,
           r.anchor = pane[v].anchor \/ r.anchor = NoAnchor,
           r.screen # <<>> => r.had \/ r.got,
           \/ /\ ws' = ws /\ chan' = chan /\ r.st # "none"
              /\ r.screen = pane[v].screen /\ r.anchor = pane[v].anchor
              /\ r.counting = pane[v].counting
           \/ /\ ws' = [ws EXCEPT ![v] = NoWs] /\ chan' = [chan EXCEPT ![v] = <<>>]
              /\ ~r.counting
    PROVE  Invariant'
<1>. USE DEF Invariant
<1>a. /\ pane'[v] = r /\ \A u \in Panes : u # v => pane'[u] = pane[u]
      /\ \A u \in Panes : u # v => ws'[u] = ws[u] /\ chan'[u] = chan[u]
      /\ \/ /\ ws'[v] = ws[v] /\ chan'[v] = chan[v] /\ r.st # "none"
            /\ r.screen = pane[v].screen /\ r.anchor = pane[v].anchor
            /\ r.counting = pane[v].counting
         \/ ws'[v] = NoWs /\ chan'[v] = <<>> /\ ~r.counting
  BY DEF Shaped
<1>b. pane[v] \in Runtimes
  BY DEF Shaped
<1>1. Shaped'
  <2>1. pane' \in [Panes -> Runtimes]
    BY DEF Shaped
  <2>2. ws' \in [Panes -> Ends] /\ chan' \in [Panes -> Seq(Frames)]
    BY Blanks DEF Shaped
  <2>. QED BY <2>1, <2>2 DEF Shaped
<1>2. Wired'
  BY DEF Wired, Called, Counted, Fed, End
<1>3. Placed'
  <2>. SUFFICES ASSUME NEW u \in Panes
                PROVE  /\ ws'[u].id <= made'
                       /\ ws'[u].st \in {"settling", "attached"} => ws'[u].id # 0
                       /\ ws'[u].st = "attached" => sess'[ws'[u].id].settled
                       /\ ws'[u].st # "none" => pane'[u].st # "none"
                       /\ ws'[u].st # "attached" => ~pane'[u].counting
    BY DEF Placed
  <2>1. CASE u # v
    BY <1>a, <2>1 DEF Placed
  <2>2. CASE u = v /\ ws'[v] = NoWs /\ ~r.counting
    BY <1>a, <2>2, Blanks, Numbers
  <2>3. CASE u = v /\ ws'[v] = ws[v] /\ r.st # "none" /\ r.counting = pane[v].counting
    BY <1>a, <2>3 DEF Placed
  <2>. QED BY <1>a, <2>1, <2>2, <2>3
<1>4. Bounded'
  <2>1. ASSUME NEW n \in Nat, Frontier(n)' PROVE AllBelow(n)'
    <3>1. Frontier(n)
      BY <2>1 DEF Frontier, End
    <3>2. AllBelow(n)
      BY <3>1 DEF Bounded
    <3>3. Below(<<>>, n)
      BY DEF Below
    <3>4. \A u \in Panes : Below(pane'[u].screen, n)
      BY <1>a, <3>2, <3>3 DEF AllBelow
    <3>5. \A u \in Panes : \A k \in 1 .. Len(chan'[u]) : Below(chan'[u][k].ps, n)
      <4>1. \A u \in Panes : chan'[u] = chan[u] \/ chan'[u] = <<>>
        BY <1>a
      <4>. QED BY <3>2, <4>1 DEF AllBelow
    <3>. QED BY <3>2, <3>4, <3>5 DEF AllBelow, End
  <2>2. \A u \in Panes : ws'[u].st = "settling" =>
           ws'[u] = ws[u] /\ pane'[u].screen = pane[u].screen
    BY <1>a, Blanks
  <2>. QED BY <2>1, <2>2 DEF Bounded, End
<1>5. Anchored'
  <2>1. Reached(r.screen, r.anchor, made, sess)
    <3>1. Reached(pane[v].screen, pane[v].anchor, made, sess)
      BY DEF Anchored
    <3>2. CASE r.screen = <<>> /\ r.anchor = pane[v].anchor
      BY <3>1, <3>2 DEF Reached, Below
    <3>3. CASE r.anchor = NoAnchor
      BY <3>3, Blanks DEF Reached
    <3>. QED BY <3>1, <3>2, <3>3
  <2>2. Asking(r, ws'[v])
    <3>1. CASE ws'[v] = NoWs
      BY <3>1, Blanks DEF Asking
    <3>2. CASE ws'[v] = ws[v] /\ r.screen = pane[v].screen /\ r.anchor = pane[v].anchor
      BY <3>2 DEF Asking, Anchored
    <3>. QED BY <1>a, <3>1, <3>2
  <2>. QED BY <1>a, <2>1, <2>2 DEF Anchored
<1>6. Threaded'
  <2>1. \A u \in Panes : ws'[u].st = "attached" =>
            /\ ws[u].st = "attached" /\ ws'[u].id = ws[u].id /\ chan'[u] = chan[u]
            /\ pane'[u].screen = pane[u].screen /\ pane'[u].anchor = pane[u].anchor
            /\ pane'[u].counting = pane[u].counting
            /\ sess'[ws[u].id].base = sess[ws[u].id].base
            /\ sess'[ws[u].id].hi = sess[ws[u].id].hi
    BY <1>a, Blanks
  <2>. QED BY <2>1, ThreadedStays
<1>7. Steady'
  <2>1. Rising(r.screen)
    BY DEF Steady, Rising
  <2>. QED BY <1>a, <2>1 DEF Steady
<1>. QED BY <1>1, <1>2, <1>3, <1>4, <1>5, <1>6, <1>7

\* One socket closes.
LEMMA ClosedOne ==
    ASSUME Shaped, NEW v \in Panes, CloseSockets({v})
    PROVE  ws' = [ws EXCEPT ![v] = NoWs] /\ chan' = [chan EXCEPT ![v] = <<>>]
BY DEF CloseSockets, Shaped

\* Detach keeps the invariant.
LEMMA DetachStep ==
    ASSUME Invariant, NEW v \in Panes, Detach(v)
    PROVE  Invariant'
<1>. USE DEF Invariant
<1> DEFINE p == pane[v]
<1>0. /\ UNCHANGED <<out, shell, wire, sess, made, current>>
      /\ \E ok \in BOOLEAN : \E k \in 0 .. Len(p.screen) : stored' = Snapshot(p, k, ok)
      /\ \/ /\ pane' = [pane EXCEPT ![v].st = "parked", ![v].pend = 0]
            /\ ws' = ws /\ chan' = chan
         \/ pane' = [pane EXCEPT ![v] = [Closed(p) EXCEPT !.st = "parked"]] /\ CloseSockets({v})
  BY DEF Detach
<1>1. p \in Runtimes /\ Closed(p) \in Runtimes
  BY ClosedIs DEF Shaped
<1>2. \A q \in Runtimes : LET t == [q EXCEPT !.st = "parked"] IN
         /\ t \in Runtimes /\ t.st = "parked" /\ t.had = q.had /\ t.got = q.got
         /\ t.screen = q.screen /\ t.anchor = q.anchor /\ t.counting = q.counting
  BY DEF Runtimes
<1>3. /\ stored' \in Stores /\ Rising(stored'.buf)
      /\ \A n \in Nat : AllBelow(n) => Below(stored'.buf, n)
      /\ Reached(stored'.buf, stored'.anchor, made, sess)
  BY <1>0, SnapshotIs
<1>4. p.screen # <<>> => p.had \/ p.got
  BY DEF Anchored
<1>5. CASE pane' = [pane EXCEPT ![v].st = "parked", ![v].pend = 0] /\ ws' = ws /\ chan' = chan
  <2> DEFINE r == [p EXCEPT !.st = "parked", !.pend = 0]
  <2>1. pane' = [pane EXCEPT ![v] = r]
    BY <1>5 DEF Shaped
  <2>2. /\ r \in Runtimes /\ r.st = "parked" /\ r.had = p.had /\ r.got = p.got
        /\ r.screen = p.screen /\ r.anchor = p.anchor /\ r.counting = p.counting
    BY <1>1 DEF Runtimes
  <2>. HIDE DEF r
  <2>. QED BY <1>0, <1>3, <1>4, <1>5, <2>1, <2>2, PutAway
<1>6. CASE pane' = [pane EXCEPT ![v] = [Closed(p) EXCEPT !.st = "parked"]] /\ CloseSockets({v})
  <2> DEFINE r == [Closed(p) EXCEPT !.st = "parked"]
  <2>1. pane' = [pane EXCEPT ![v] = r]
    BY <1>6
  <2>2. /\ r \in Runtimes /\ r.had = p.had /\ r.got = p.got /\ r.screen = p.screen
        /\ r.anchor = p.anchor \/ r.anchor = NoAnchor
        /\ ~r.counting
    BY <1>1, <1>2, ClosedIs
  <2>3. ws' = [ws EXCEPT ![v] = NoWs] /\ chan' = [chan EXCEPT ![v] = <<>>]
    BY <1>6, ClosedOne
  <2>. HIDE DEF r
  <2>. QED BY <1>0, <1>3, <1>4, <2>1, <2>2, <2>3, PutAway
<1>. QED BY <1>0, <1>5, <1>6

\* Release keeps the invariant.
LEMMA ReleaseStep ==
    ASSUME Invariant, NEW v \in Panes, Release(v)
    PROVE  Invariant'
<1>. USE DEF Invariant
<1>0. /\ UNCHANGED <<out, shell, wire, sess, made, current>>
      /\ \E k \in 0 .. Len(pane[v].screen) : stored' = Snapshot(pane[v], k, TRUE)
      /\ pane' = [pane EXCEPT ![v] = FreshPane] /\ CloseSockets({v})
  BY DEF Release
<1>1. /\ stored' \in Stores /\ Rising(stored'.buf)
      /\ \A n \in Nat : AllBelow(n) => Below(stored'.buf, n)
      /\ Reached(stored'.buf, stored'.anchor, made, sess)
  BY <1>0, SnapshotIs
<1>2. ws' = [ws EXCEPT ![v] = NoWs] /\ chan' = [chan EXCEPT ![v] = <<>>]
  BY <1>0, ClosedOne
<1>. QED BY <1>0, <1>1, <1>2, Blanks, PutAway

\* An object cut off from the daemon while a socket still holds it: what it
\* counts from is the end of the stream as long as nothing was counted.
CutOff(s) == [s EXCEPT !.on = FALSE, !.base = IF s.hi = 0 THEN out ELSE @]

\* What is left of such an object.
LEMMA CutOffIs ==
    ASSUME NEW s \in Sessions, out \in Nat
    PROVE  /\ CutOff(s) \in Sessions /\ ~CutOff(s).on /\ CutOff(s).lo = s.lo
           /\ CutOff(s).hi = s.hi /\ CutOff(s).settled = s.settled
           /\ CutOff(s).base = IF s.hi = 0 THEN out ELSE s.base
<1> DEFINE b == IF s.hi = 0 THEN out ELSE s.base
<1>1. b \in Nat
  BY DEF Sessions
<1>2. CutOff(s) = [s EXCEPT !.on = FALSE, !.base = b]
  BY DEF CutOff, Sessions
<1>. HIDE DEF b
<1>3. LET t == [s EXCEPT !.on = FALSE, !.base = b] IN
      /\ t \in Sessions /\ ~t.on /\ t.lo = s.lo /\ t.hi = s.hi
      /\ t.settled = s.settled /\ t.base = b
  BY <1>1 DEF Sessions
<1>. QED BY <1>2, <1>3 DEF b

\* DaemonLost keeps the invariant.
LEMMA DaemonLostStep ==
    ASSUME Invariant, DaemonLost
    PROVE  Invariant'
<1>. USE DEF Invariant
<1>0. PICK shut \in SUBSET Panes :
        /\ shell' = shell \/ shell' = [shell EXCEPT !.st = "lost"]
        /\ wire' = NoWire /\ current' = 0
        /\ sess' = [e \in Epochs |->
              IF \E v \in Panes \ shut : ws[v].st \in {"settling", "attached"} /\ ws[v].id = e
                THEN CutOff(sess[e]) ELSE Forgotten(sess[e])]
        /\ ws' = [v \in Panes |-> IF v \in shut THEN NoWs ELSE ws[v]]
        /\ chan' = [v \in Panes |-> IF v \in shut THEN <<>> ELSE chan[v]]
        /\ pane' = [v \in Panes |-> IF v \in shut THEN Closed(pane[v]) ELSE pane[v]]
        /\ UNCHANGED <<out, made, stored>>
  <2>1. PICK failed \in SUBSET {w \in Pursuers : Pursuit(w) \in {"adopting", "respawning"}} :
          LET shut == (failed \cap Panes) \cup (IF current = 0 THEN {} ELSE Sockets(current)) IN
          /\ shell' = shell \/ shell' = [shell EXCEPT !.st = "lost"]
          /\ wire' = NoWire /\ current' = 0
          /\ sess' = [e \in Epochs |->
                IF \E v \in Panes \ shut : ws[v].st \in {"settling", "attached"} /\ ws[v].id = e
                  THEN CutOff(sess[e]) ELSE Forgotten(sess[e])]
          /\ ws' = [v \in Panes |-> IF v \in shut THEN NoWs ELSE ws[v]]
          /\ chan' = [v \in Panes |-> IF v \in shut THEN <<>> ELSE chan[v]]
          /\ pane' = [v \in Panes |-> IF v \in shut THEN Closed(pane[v]) ELSE pane[v]]
          /\ UNCHANGED <<out, made, stored>>
    BY DEF DaemonLost, CutOff
  <2> DEFINE shut == (failed \cap Panes) \cup (IF current = 0 THEN {} ELSE Sockets(current))
  <2>2. shut \in SUBSET Panes
    BY DEF Sockets
  <2>. QED BY <2>1, <2>2
<1>a. /\ \A u \in Panes : u \in shut =>
            /\ ws'[u] = NoWs /\ chan'[u] = <<>> /\ pane'[u] = Closed(pane[u])
      /\ \A u \in Panes : u \notin shut =>
            /\ ws'[u] = ws[u] /\ chan'[u] = chan[u] /\ pane'[u] = pane[u]
            /\ ws[u].st \in {"settling", "attached"} => sess'[ws[u].id] = CutOff(sess[ws[u].id])
      /\ \A g \in Epochs : sess'[g] = CutOff(sess[g]) \/ sess'[g] = Forgotten(sess[g])
  BY <1>0, Placing
<1>b. wire'.st = "none" /\ wire'.at = 0 /\ wire'.ring = 0
  BY <1>0 DEF NoWire
<1>c. \A g \in Epochs : /\ sess[g] \in Sessions /\ sess[g].base \in Nat /\ sess[g].hi \in Nat
                        /\ sess[g].lo \in Nat /\ sess[g].lo <= sess[g].hi
                        /\ sess[g].base + sess[g].hi <= out /\ out \in Nat
  BY Numbers DEF Shaped, Wired, Counted, End
<1>d. \A g \in Epochs :
         /\ sess'[g] \in Sessions /\ ~sess'[g].on /\ sess'[g].lo <= sess'[g].hi
         /\ sess'[g].base + sess'[g].hi <= out /\ sess[g].base <= sess'[g].base
         /\ sess[g].settled => sess'[g].settled
  <2>. SUFFICES ASSUME NEW g \in Epochs
                PROVE  /\ sess'[g] \in Sessions /\ ~sess'[g].on /\ sess'[g].lo <= sess'[g].hi
                       /\ sess'[g].base + sess'[g].hi <= out /\ sess[g].base <= sess'[g].base
                       /\ sess[g].settled => sess'[g].settled
    OBVIOUS
  <2>1. CASE sess'[g] = CutOff(sess[g])
    <3> DEFINE t == CutOff(sess[g])
    <3>1. /\ t \in Sessions /\ ~t.on /\ t.lo = sess[g].lo /\ t.hi = sess[g].hi
          /\ t.settled = sess[g].settled
          /\ t.base = IF sess[g].hi = 0 THEN out ELSE sess[g].base
      BY <1>c, CutOffIs
    <3>. HIDE DEF t
    <3>2. sess'[g] = t
      BY <2>1 DEF t
    <3>. QED BY <1>c, <3>1, <3>2
  <2>2. CASE sess'[g] = Forgotten(sess[g])
    <3> DEFINE t == Forgotten(sess[g])
    <3>1. /\ t \in Sessions /\ ~t.on /\ t.lo = 0 /\ t.hi = 0 /\ t.settled /\ t.base = sess[g].base
      BY <1>c, ForgottenIs
    <3>. HIDE DEF t
    <3>2. sess'[g] = t
      BY <2>2 DEF t
    <3>. QED BY <1>c, <3>1, <3>2
  <2>. QED BY <1>a, <2>1, <2>2
<1>e. \A u \in Panes : /\ Closed(pane[u]) \in Runtimes /\ ~Closed(pane[u]).counting
                       /\ Closed(pane[u]).screen = pane[u].screen
                       /\ Closed(pane[u]).had = pane[u].had /\ Closed(pane[u]).got = pane[u].got
                       /\ \/ Closed(pane[u]).anchor = pane[u].anchor
                          \/ Closed(pane[u]).anchor = NoAnchor
  BY ClosedIs DEF Shaped
<1>1. Shaped'
  <2>1. shell' \in [st : {"alive", "exited", "lost"}, from : Nat]
    BY <1>0 DEF Shaped
  <2>2. wire' \in [st : {"none", "asked", "on", "void"}, at : Nat, ring : Nat]
    BY <1>0 DEF NoWire
  <2>3. sess' \in [Epochs -> Sessions]
    BY <1>0, <1>d
  <2>4. ws' \in [Panes -> Ends] /\ chan' \in [Panes -> Seq(Frames)]
    BY <1>0, Blanks DEF Shaped
  <2>5. pane' \in [Panes -> Runtimes]
    BY <1>0, <1>e DEF Shaped
  <2>6. current' \in 0 .. made'
    BY <1>0, Numbers
  <2>. QED BY <1>0, <2>1, <2>2, <2>3, <2>4, <2>5, <2>6 DEF Shaped
<1>2. Wired'
  <2>1. Called'
    BY <1>0, <1>b, <1>d DEF Called
  <2>2. Counted'
    <3>1. shell'.from <= out
      BY <1>0 DEF Shaped, Wired, Counted
    <3>. QED BY <1>0, <1>b, <1>c, <1>d, <3>1, Numbers DEF Counted, End
  <2>3. Fed'
    BY <1>d DEF Fed
  <2>. QED BY <2>1, <2>2, <2>3 DEF Wired
<1>3. Placed'
  <2>. SUFFICES ASSUME NEW u \in Panes
                PROVE  /\ ws'[u].id <= made'
                       /\ ws'[u].st \in {"settling", "attached"} => ws'[u].id # 0
                       /\ ws'[u].st = "attached" => sess'[ws'[u].id].settled
                       /\ ws'[u].st # "none" => pane'[u].st # "none"
                       /\ ws'[u].st # "attached" => ~pane'[u].counting
    BY DEF Placed
  <2>1. CASE u \in shut
    BY <1>0, <1>a, <1>e, <2>1, Blanks, Numbers
  <2>2. CASE u \notin shut
    BY <1>0, <1>a, <1>d, <2>2, Placing DEF Placed
  <2>. QED BY <2>1, <2>2
<1>4. Bounded'
  <2>0. AllBelow(out)
    BY Numbers DEF Bounded, Frontier
  <2>1. AllBelow(out)'
    <3>1. \A g \in Epochs : ~sess'[g].on => End(g)' <= out
      BY <1>d DEF End
    <3>2. \A u \in Panes : pane'[u].screen = pane[u].screen
      BY <1>a, <1>e
    <3>3. \A u \in Panes : \/ chan'[u] = chan[u]
                           \/ \A k \in 1 .. Len(chan'[u]) : Below(chan'[u][k].ps, out)
      BY <1>a
    <3>. QED BY <1>0, <1>1, <2>0, <3>1, <3>2, <3>3, Numbers, StillBelow
  <2>2. \A n \in Nat : Frontier(n)' => n = out
    BY <1>0, <1>b, <1>d DEF Frontier
  <2>3. ASSUME NEW u \in Panes, ws'[u].st = "settling"
        PROVE  Below(pane'[u].screen, sess'[ws'[u].id].base + sess'[ws'[u].id].hi)
    <3> DEFINE g == ws[u].id
    <3>1. /\ ws[u].st = "settling" /\ ws'[u] = ws[u] /\ pane'[u] = pane[u]
          /\ sess'[g] = CutOff(sess[g]) /\ g \in Epochs
      BY <1>a, <2>3, Blanks, Placing
    <3>. HIDE DEF g
    <3>2. sess'[g].hi = sess[g].hi /\ sess'[g].base = IF sess[g].hi = 0 THEN out ELSE sess[g].base
      BY <1>c, <3>1, CutOffIs
    <3>3. CASE sess[g].hi = 0
      <4>1. sess'[g].base + sess'[g].hi = out
        BY <1>c, <3>1, <3>2, <3>3
      <4>2. Below(pane[u].screen, out)
        BY <2>0 DEF AllBelow
      <4>. QED BY <3>1, <4>1, <4>2 DEF g
    <3>4. CASE sess[g].hi # 0
      <4>1. sess'[g].base + sess'[g].hi = End(g)
        BY <3>2, <3>4 DEF End
      <4>2. Below(pane[u].screen, End(g))
        <5>1. CASE sess[g].on
          <6>1. wire.st = "on"
            BY <3>1, <3>4, <5>1, Numbers DEF Wired, Called, Fed
          <6>2. End(g) = wire.at /\ ~(wire.at < wire.ring)
            BY <3>1, <3>4, <5>1, <6>1 DEF Wired, Fed
          <6>3. End(g) = Larger(wire.at, wire.ring) /\ End(g) \in Nat
            BY <6>2, Numbers DEF Larger
          <6>4. AllBelow(End(g))
            BY <6>1, <6>3 DEF Bounded, Frontier
          <6>. QED BY <6>4 DEF AllBelow
        <5>2. CASE ~sess[g].on
          BY <3>1, <5>2 DEF Bounded, g
        <5>. QED BY <5>1, <5>2
      <4>. QED BY <3>1, <4>1, <4>2 DEF g
    <3>. QED BY <3>3, <3>4
  <2>. QED BY <1>0, <2>1, <2>2, <2>3 DEF Bounded, End
<1>5. Anchored'
  <2>1. \A g \in Epochs : g <= made /\ sess[g].settled =>
            sess'[g].settled /\ sess[g].base <= sess'[g].base
    BY <1>d
  <2>2. \A u \in Panes :
            /\ pane'[u].screen = pane[u].screen
            /\ pane'[u].anchor = pane[u].anchor \/ pane'[u].anchor = NoAnchor
            /\ pane'[u].had = pane[u].had /\ pane'[u].got = pane[u].got
    BY <1>a, <1>e
  <2>3. \A u \in Panes : ws'[u].st \in {"adopting", "respawning", "settling"} =>
            \/ Asking(pane'[u], ws'[u])
            \/ /\ ws[u].st \in {"adopting", "respawning", "settling"}
               /\ ws'[u].ask = ws[u].ask /\ pane'[u].anchor = pane[u].anchor
    BY <1>a, Blanks
  <2>4. stored' = stored /\ made <= made'
    BY <1>0, Numbers
  <2>. QED BY <1>1, <2>1, <2>2, <2>3, <2>4, AnchoredStays
<1>6. Threaded'
  <2>. SUFFICES ASSUME NEW u \in Panes, ws'[u].st = "attached"
                PROVE  OnThread(chan'[u], pane'[u], ws'[u].id, sess'[ws'[u].id])
    BY DEF Threaded
  <2> DEFINE g == ws[u].id
  <2>1. /\ ws[u].st = "attached" /\ ws'[u] = ws[u] /\ pane'[u] = pane[u] /\ chan'[u] = chan[u]
        /\ sess'[g] = CutOff(sess[g]) /\ g \in Epochs
    BY <1>a, Blanks, Placing
  <2>2. OnThread(chan[u], pane[u], g, sess[g]) /\ chan[u] \in Seq(Frames) /\ pane[u] \in Runtimes
    BY <2>1 DEF Threaded, Shaped
  <2>. HIDE DEF g
  <2>3. sess'[g].hi = sess[g].hi /\ sess'[g].base = IF sess[g].hi = 0 THEN out ELSE sess[g].base
    BY <1>c, <2>1, CutOffIs
  <2>4. CASE sess[g].hi = 0
    <3>1. sess[g].base \in Nat /\ sess'[g].base \in Nat /\ sess[g].base <= sess'[g].base
      BY <1>c, <2>1, <2>3, <2>4
    <3>2. OnThread(chan[u], pane[u], g, sess'[g])
      BY <2>2, <2>3, <2>4, <3>1, ThreadLifts
    <3>. QED BY <2>1, <3>2 DEF g
  <2>5. CASE sess[g].hi # 0
    <3>1. OnThread(chan[u], pane[u], g, sess'[g])
      BY <2>2, <2>3, <2>5, ThreadStays
    <3>. QED BY <2>1, <3>1 DEF g
  <2>. QED BY <2>4, <2>5
<1>7. Steady'
  <2>1. \A u \in Panes : pane'[u].screen = pane[u].screen
    BY <1>a, <1>e
  <2>. QED BY <1>0, <2>1 DEF Steady
<1>. QED BY <1>1, <1>2, <1>3, <1>4, <1>5, <1>6, <1>7

-------------------------------------------------------------------------------
(* The start, and the theorems.                                                 *)

\* The argument holds at the start.
LEMMA InitLemma ==
    ASSUME Init
    PROVE  Invariant
<1> DEFINE fresh == [FreshPane EXCEPT !.st = "mounted"]
<1>a. /\ fresh \in Runtimes /\ fresh.st = "mounted" /\ fresh.screen = <<>>
      /\ fresh.anchor = NoAnchor /\ ~fresh.counting
  BY Blanks DEF FreshPane, Runtimes
<1>b. /\ out = 0 /\ shell = [st |-> "alive", from |-> 0]
      /\ wire = [st |-> "asked", at |-> 0, ring |-> 0]
      /\ sess = [e \in Epochs |-> IF e = 1 THEN Session(0, TRUE) ELSE NoSession]
      /\ made = 1 /\ current = 1 /\ stored = NoStored
      /\ ws = [v \in Panes |-> NoWs] /\ chan = [v \in Panes |-> <<>>]
      /\ pane = [v \in Panes |-> fresh]
  BY DEF Init
<1>. HIDE DEF fresh
<1>c. 1 \in Epochs /\ \A e \in Epochs : e \in Nat /\ e # 0
  BY BoundsAssumption DEF Epochs
<1>d. \A e \in Epochs :
        /\ sess[e] \in Sessions /\ sess[e].base = 0 /\ sess[e].lo = 0 /\ sess[e].hi = 0
        /\ sess[e].settled /\ ~sess[e].exited /\ (sess[e].on <=> e = 1)
  BY <1>b DEF Sessions, Session, NoSession
<1>e. \A n \in Nat : Below(<<>>, n)
  BY DEF Below
<1>f. /\ shell.st = "alive" /\ shell.from = 0
      /\ wire.st = "asked" /\ wire.at = 0 /\ wire.ring = 0
  BY <1>b
<1>g. \A v \in Panes : /\ ws[v].st = "none" /\ ws[v].id = 0 /\ chan[v] = <<>>
                       /\ pane[v].st = "mounted" /\ pane[v].screen = <<>>
                       /\ ~pane[v].counting /\ pane[v].anchor = NoAnchor
  BY <1>a, <1>b, Blanks
<1>h. stored.buf = <<>> /\ stored.anchor = NoAnchor
  BY <1>b, Blanks
<1>i. out = 0 /\ made = 1 /\ current = 1
  BY <1>b
<1>1. Shaped
  <2>1. sess \in [Epochs -> Sessions]
    BY <1>b, <1>d
  <2>2. shell \in [st : {"alive", "exited", "lost"}, from : Nat]
        /\ wire \in [st : {"none", "asked", "on", "void"}, at : Nat, ring : Nat]
    BY <1>b
  <2>3. pane \in [Panes -> Runtimes] /\ ws \in [Panes -> Ends] /\ chan \in [Panes -> Seq(Frames)]
        /\ stored \in Stores
    BY <1>a, <1>b, Blanks
  <2>4. out \in Nat /\ made \in Epochs /\ current \in 0 .. made
    BY <1>c, <1>i
  <2>. QED BY <2>1, <2>2, <2>3, <2>4 DEF Shaped
<1>2. Wired
  <2>1. Called
    BY <1>c, <1>d, <1>f, <1>i DEF Called
  <2>2. Counted
    BY <1>d, <1>f, <1>i DEF Counted, End
  <2>3. Fed
    BY <1>d, <1>f DEF Fed
  <2>. QED BY <2>1, <2>2, <2>3 DEF Wired
<1>3. Placed
  BY <1>g, <1>i DEF Placed
<1>4. Bounded
  <2>1. \A e \in Epochs : End(e) = 0
    BY <1>d DEF End
  <2>2. \A n \in Nat : AllBelow(n)
    BY <1>e, <1>g, <1>h, <2>1 DEF AllBelow
  <2>. QED BY <1>g, <2>2 DEF Bounded
<1>5. Anchored
  BY <1>a, <1>b, Blanks DEF Anchored, Reached, Asking
<1>6. Threaded
  BY <1>b, Blanks DEF Threaded
<1>7. Steady
  BY <1>a, <1>b, Blanks DEF Steady, Rising
<1>. QED BY <1>1, <1>2, <1>3, <1>4, <1>5, <1>6, <1>7 DEF Invariant

\* Every step keeps it.
LEMMA StepLemma ==
    ASSUME Invariant, Queued, [Next]_vars
    PROVE  Invariant'
<1>1. CASE Write
  BY <1>1, WriteStep
<1>2. CASE ShellExits
  BY <1>2, ShellExitsStep
<1>3. CASE Subscribe
  BY <1>3, SubscribeStep
<1>4. CASE DeliverOutput
  BY <1>4, DeliverOutputStep
<1>5. CASE DeliverExit
  BY <1>5, DeliverExitStep
<1>6. CASE \E e \in Epochs : Settle(e) \/ Nudge(e)
  BY <1>6, SettleStep, NudgeStep
<1>7. CASE HeadlessCall
  BY <1>7, HeadlessCallStep
<1>8. CASE \E w \in Pursuers : Pursue(w)
  BY <1>8, AdoptStep, AdoptFailsStep, RespawnStep DEF Pursue
<1>9. CASE \E v \in Panes : Dial(v) \/ Attach(v) \/ Receive(v)
  BY <1>9, DialStep, AttachStep, ReceiveStep
<1>10. CASE \E v \in Panes : Mount(v) \/ Drop(v)
  BY <1>10, MountStep, DropStep
<1>11. CASE \E v \in Hideable : Detach(v) \/ Release(v)
  BY <1>11, DetachStep, ReleaseStep, BoundsAssumption
<1>12. CASE Reload
  BY <1>12, ReloadStep
<1>13. CASE DaemonLost
  BY <1>13, DaemonLostStep
<1>14. CASE HostRestarts
  BY <1>14, HostRestartsStep
<1>16. CASE \E v \in Panes : Flush(v) \/ BatchLost(v)
  BY <1>16, FlushStep
<1>15. CASE UNCHANGED vars
  <2>1. UNCHANGED <<out, shell, wire, sess, made, current, ws, chan, pane, stored>>
    BY <1>15 DEF vars
  <2>2. Shaped' /\ Wired' /\ Placed' /\ Bounded'
    BY <2>1 DEF Invariant, Shaped, Wired, Called, Counted, Fed, Placed, Bounded, AllBelow,
                Frontier, End
  <2>3. Anchored' /\ Threaded' /\ Steady'
    BY <2>1 DEF Invariant, Anchored, Threaded, Steady
  <2>. QED BY <2>2, <2>3 DEF Invariant
<1>. QED
  BY <1>1, <1>2, <1>3, <1>4, <1>5, <1>6, <1>7, <1>8, <1>9, <1>10, <1>11, <1>12, <1>13,
     <1>14, <1>15, <1>16 DEF Next

\* No more waits in the coalescer than the pane was given.
LEMMA QueuedStep ==
    ASSUME Invariant, Queued, Invariant', [Next]_vars
    PROVE  Queued'
<1> DEFINE Same(v) == pane'[v].pend = pane[v].pend /\ pane'[v].screen = pane[v].screen
           Fits(v) == Same(v) \/ pane'[v].pend = 0 \/ pane'[v].pend <= Len(pane'[v].screen)
<1>a. ASSUME \A v \in Panes : Fits(v) PROVE Queued'
  <2>1. ASSUME NEW v \in Panes PROVE Len(pane'[v].screen) \in Nat
    <3>1. pane' \in [Panes -> Runtimes]
      BY DEF Invariant, Shaped
    <3>2. pane'[v].screen \in Seq(Nat)
      BY <3>1 DEF Runtimes
    <3>. QED BY <3>2, LenProperties
  <2>. QED BY <1>a, <2>1 DEF Queued
<1>b. \A v \in Panes : pane[v] \in Runtimes
  BY DEF Invariant, Shaped
<1>c. pane \in [Panes -> Runtimes]
  BY DEF Invariant, Shaped
<1>1. CASE pane' = pane
  BY <1>1, <1>a
<1>2. CASE \E e \in Epochs : Nudge(e)
  <2>1. \A v \in Panes : pane'[v] \in {pane[v], [pane[v] EXCEPT !.owed = FALSE]}
    BY <1>2 DEF Nudge
  <2>2. \A v \in Panes : Same(v)
    BY <1>b, <2>1 DEF Runtimes
  <2>. QED BY <1>a, <2>2
<1>3. CASE \E v \in Panes : Dial(v)
  <2>1. \A v \in Panes : pane'[v] \in {pane[v], [pane[v] EXCEPT !.ended = TRUE]}
    BY <1>3, <1>c DEF Dial
  <2>2. \A v \in Panes : Same(v)
    BY <1>b, <2>1 DEF Runtimes
  <2>. QED BY <1>a, <2>2
<1>4. ASSUME NEW v \in Panes, Attach(v) PROVE Queued'
  <2>1. \E b : pane' = [pane EXCEPT ![v].owed = b]
    BY <1>4 DEF Attach
  <2>2. \A u \in Panes : Same(u)
    BY <1>b, <1>c, <2>1 DEF Runtimes
  <2>. QED BY <1>a, <2>2
<1>5. ASSUME NEW v \in Panes, Receive(v) PROVE Queued'
  <2>1. pane' = [pane EXCEPT ![v] = pane'[v]] /\ pane'[v].pend <= Len(pane'[v].screen)
    BY <1>5, Received DEF Invariant
  <2>2. \A u \in Panes : u # v => pane'[u] = pane[u]
    BY <1>c, <2>1
  <2>3. \A u \in Panes : Fits(u)
    BY <2>1, <2>2
  <2>. QED BY <1>a, <2>3
<1>6. ASSUME NEW v \in Panes, Flush(v) \/ BatchLost(v) PROVE Queued'
  <2>1. PICK r : pane' = [pane EXCEPT ![v] = r] /\ r.pend <= Len(r.screen)
    BY <1>6, FlushTrims DEF Invariant
  <2>2. pane'[v] = r /\ \A u \in Panes : u # v => pane'[u] = pane[u]
    BY <1>c, <2>1
  <2>3. \A u \in Panes : Fits(u)
    BY <2>1, <2>2
  <2>. QED BY <1>a, <2>3
<1>7. ASSUME NEW v \in Panes, Mount(v) PROVE Queued'
  <2>1. PICK seed \in Seeds(v) : pane' = [pane EXCEPT ![v] = seed]
    BY <1>7 DEF Mount
  <2>2. pane'[v] = seed /\ \A u \in Panes : u # v => pane'[u] = pane[u]
    BY <1>c, <2>1
  <2>3. CASE pane[v].st = "parked"
    <3>1. seed = [pane[v] EXCEPT !.st = "mounted"]
      BY <2>3 DEF Seeds
    <3>2. seed.pend = pane[v].pend /\ seed.screen = pane[v].screen
      BY <1>b, <3>1 DEF Runtimes
    <3>. QED BY <1>a, <2>2, <3>2
  <2>4. CASE pane[v].st = "none"
    <3> DEFINE With(buf, anchor, join) ==
                 [FreshPane EXCEPT !.st = "mounted", !.screen = buf, !.anchor = anchor,
                                   !.join = join, !.had = buf # <<>>]
    <3>1. \A buf, anchor, join : With(buf, anchor, join).pend = 0
      BY DEF FreshPane
    <3> DEFINE siblings == {u \in Panes \ {v} : pane[u].st # "none"}
    <3>2. \E buf, anchor, join : seed = With(buf, anchor, join)
      <4>1. CASE siblings # {}
        <5>1. seed \in UNION {{With(Parsed(pane[u], k), NoAnchor, NoJoin)
                                  : k \in pane[u].pend .. Len(pane[u].screen)} : u \in siblings}
          BY <2>4, <4>1 DEF Seeds
        <5>. HIDE DEF With
        <5>2. PICK u \in siblings : \E k \in pane[u].pend .. Len(pane[u].screen) :
                 seed = With(Parsed(pane[u], k), NoAnchor, NoJoin)
          BY <5>1
        <5>. QED BY <5>2
      <4>2. CASE siblings = {}
        <5>1. \/ seed = With(<<>>, NoAnchor, NoJoin)
              \/ seed = With(stored.buf, stored.anchor, stored.join)
          BY <2>4, <4>2 DEF Seeds
        <5>. HIDE DEF With
        <5>. QED BY <5>1
      <4>. QED BY <4>1, <4>2
    <3>. HIDE DEF With
    <3>3. seed.pend = 0
      BY <3>1, <3>2
    <3>. QED BY <1>a, <2>2, <3>3
  <2>5. pane[v].st \in {"none", "parked"}
    BY <1>7, <1>b DEF Mount, Runtimes
  <2>. QED BY <2>3, <2>4, <2>5
<1>8. ASSUME NEW v \in Panes, Drop(v) \/ Detach(v) \/ Release(v) PROVE Queued'
  <2>1. Closed(pane[v]) \in Runtimes /\ Closed(pane[v]).pend = 0
    BY <1>b, ClosedIs
  <2>2. \A r \in Runtimes : /\ [r EXCEPT !.st = "parked"].pend = r.pend
                            /\ [r EXCEPT !.st = "parked", !.pend = 0].pend = 0
    BY DEF Runtimes
  <2>3. FreshPane.pend = 0
    BY Blanks
  <2>4. \E r : pane' = [pane EXCEPT ![v] = r] /\ r.pend = 0
    <3>1. CASE Drop(v)
      <4>1. pane' = [pane EXCEPT ![v] = Closed(pane[v])]
        BY <3>1 DEF Drop
      <4>. QED BY <2>1, <4>1
    <3>2. CASE Release(v)
      BY <2>3, <3>2 DEF Release
    <3>3. CASE Detach(v)
      <4>1. \/ pane' = [pane EXCEPT ![v] = [pane[v] EXCEPT !.st = "parked", !.pend = 0]]
            \/ pane' = [pane EXCEPT ![v] = [Closed(pane[v]) EXCEPT !.st = "parked"]]
        BY <1>c, <3>3 DEF Detach
      <4> DEFINE left == [pane[v] EXCEPT !.st = "parked", !.pend = 0]
                 shut == [Closed(pane[v]) EXCEPT !.st = "parked"]
      <4>2. left.pend = 0 /\ shut.pend = 0
        BY <1>b, <2>1, <2>2
      <4>. HIDE DEF left, shut
      <4>3. \/ pane' = [pane EXCEPT ![v] = left]
            \/ pane' = [pane EXCEPT ![v] = shut]
        BY <4>1 DEF left, shut
      <4>. QED BY <4>2, <4>3
    <3>. QED BY <1>8, <3>1, <3>2, <3>3
  <2>5. \A u \in Panes : Fits(u)
    BY <1>c, <2>4
  <2>. QED BY <1>a, <2>5
<1>9. CASE Reload \/ HostRestarts \/ DaemonLost
  <2>1. \A v \in Panes : pane'[v] \in {pane[v], FreshPane, Closed(pane[v])}
    BY <1>9 DEF Reload, HostRestarts, DaemonLost
  <2>2. \A v \in Panes : Fits(v)
    BY <1>b, <2>1, ClosedIs, Blanks
  <2>. QED BY <1>a, <2>2
<1>10. CASE UNCHANGED vars
  BY <1>1, <1>10 DEF vars
<1>11. CASE Write \/ ShellExits \/ Subscribe \/ DeliverOutput \/ DeliverExit \/ HeadlessCall
  BY <1>1, <1>11 DEF Write, ShellExits, Subscribe, DeliverOutput, DeliverExit, HeadlessCall
<1>12. CASE \E e \in Epochs : Settle(e)
  BY <1>1, <1>12 DEF Settle
<1>13. CASE \E w \in Pursuers : Pursue(w)
  BY <1>1, <1>13 DEF Pursue, Adopt, AdoptFails, Respawn, Install
<1>. HIDE DEF Fits, Same
<1>. QED
  BY <1>2, <1>3, <1>4, <1>5, <1>6, <1>7, <1>8, <1>9, <1>10, <1>11, <1>12, <1>13,
     BoundsAssumption DEF Next

\* Both hold in every reachable state.
LEMMA InvariantsHold == Spec => [](Invariant /\ Queued)
<1>1. Init => Invariant
  BY InitLemma
<1>2. Init => Queued
  BY DEF Init, Queued, FreshPane
<1>3. Invariant /\ Queued /\ [Next]_vars => Invariant'
  BY StepLemma
<1>4. Invariant /\ Queued /\ Invariant' /\ [Next]_vars => Queued'
  BY QueuedStep
<1>. QED BY <1>1, <1>2, <1>3, <1>4, PTL DEF Spec

\* The argument as a whole holds in every reachable state: what a pane has
\* painted and what is on its way to it are one thread through the stream.
THEOREM InvariantHolds == Spec => []Invariant
BY InvariantsHold, PTL

\* For any panes, rings and lengths of the stream, and however often sockets,
\* daemons, hosts and windows come and go, no pane paints a chunk twice or out of
\* order (sendSeqAttach, terminal-ws-transport.ts, Registry.detach and mount).
THEOREM NeverPaintedTwice == Spec => []PaintedOnce
<1>1. Invariant => PaintedOnce
  BY DEF Invariant, Steady, Rising, PaintedOnce
<1>. QED BY <1>1, InvariantHolds, PTL

\* A session the map holds is always one the daemon client calls back
\* (onDaemonDisconnect empties the map).
THEOREM CurrentStaysWired == Spec => []CurrentSessionIsWired
<1>1. Invariant => CurrentSessionIsWired
  <2>1. ASSUME Invariant, current # 0 PROVE current \in Epochs
    BY <2>1, Numbers, BoundsAssumption DEF Invariant, Epochs
  <2>. QED BY <2>1 DEF Invariant, Wired, Called, CurrentSessionIsWired
<1>. QED BY <1>1, InvariantHolds, PTL

\* What is written, counted and stepped aside stays within its bounds.
Tame ==
    /\ out <= MaxOut /\ row \in {"active", "exited"} /\ upsets \in 0 .. MaxUpsets
    /\ aside \in [{"orphan", "headless"} -> {"none", "adopting", "respawning"}]

\* A socket that closes leaves at most its own attach behind.
LEMMA LeftAside ==
    ASSUME Shaped, Tame, NEW vs \in SUBSET Panes, CloseSockets(vs)
    PROVE  aside' \in [{"orphan", "headless"} -> {"none", "adopting", "respawning"}]
<1>1. CASE UNCHANGED aside
  BY <1>1 DEF Tame
<1>2. CASE \E v \in vs : /\ ws[v].st \in {"adopting", "respawning"}
                         /\ aside' = [aside EXCEPT !.orphan = ws[v].st]
  BY <1>2 DEF Tame
<1>. QED BY <1>1, <1>2 DEF CloseSockets

\* Every step keeps within the bounds.
LEMMA TameStep ==
    ASSUME Invariant, Tame, [Next]_vars
    PROVE  Tame'
<1>. USE DEF Invariant
<1>1. CASE Write
  BY <1>1, Numbers, BoundsAssumption DEF Tame, Write
<1>2. CASE ShellExits \/ Subscribe \/ DeliverOutput \/ DeliverExit
  BY <1>2 DEF Tame, ShellExits, Subscribe, DeliverOutput, DeliverExit
<1>3. CASE \E e \in Epochs : Settle(e) \/ Nudge(e)
  BY <1>3 DEF Tame, Settle, Nudge
<1>4. CASE HeadlessCall
  <2>1. aside' \in [{"orphan", "headless"} -> {"none", "adopting", "respawning"}]
    BY <1>4 DEF Tame, HeadlessCall
  <2>. QED BY <1>4, <2>1, BoundsAssumption DEF Tame, HeadlessCall
<1>5. ASSUME NEW w \in Pursuers, Pursue(w) PROVE Tame'
  <2>1. /\ out' = out /\ upsets' = upsets /\ row' \in {row, "active"}
        /\ \E st \in {"settling", "respawning"}, e \in {made + 1, current, 0} : MoveOn(w, st, e)
    BY <1>5 DEF Pursue, Adopt, AdoptFails, Respawn, Install
  <2>2. aside' \in [{"orphan", "headless"} -> {"none", "adopting", "respawning"}]
    BY <2>1 DEF Tame, MoveOn
  <2>. QED BY <2>1, <2>2 DEF Tame
<1>6. CASE \E v \in Panes : Dial(v) \/ Attach(v) \/ Mount(v) \/ Flush(v)
  BY <1>6 DEF Tame, Dial, Attach, Mount, Flush
<1>11. CASE \E v \in Panes : Receive(v) \/ BatchLost(v)
  <2>1. UNCHANGED <<out, row, aside>>
    BY <1>11 DEF Receive, BatchLost
  <2>2. upsets' = upsets \/ (upsets < MaxUpsets /\ upsets' = upsets + 1)
    BY <1>11 DEF Receive, BatchLost
  <2>. QED BY <2>1, <2>2, BoundsAssumption DEF Tame
<1>7. ASSUME NEW v \in Panes, Drop(v) \/ Detach(v) \/ Release(v) PROVE Tame'
  <2>1. UNCHANGED aside \/ CloseSockets({v})
    BY <1>7 DEF Drop, Detach, Release
  <2>2. aside' \in [{"orphan", "headless"} -> {"none", "adopting", "respawning"}]
    BY <2>1, LeftAside DEF Tame
  <2>3. out' = out /\ row' = row /\ upsets < MaxUpsets /\ upsets' = upsets + 1
    BY <1>7 DEF Drop, Detach, Release
  <2>. QED BY <2>2, <2>3, BoundsAssumption DEF Tame
<1>8. CASE Reload
  <2>1. out' = out /\ row' = row /\ upsets < MaxUpsets /\ upsets' = upsets + 1
    BY <1>8 DEF Reload
  <2>2. CloseSockets(Panes)
    BY <1>8 DEF Reload
  <2>. QED BY <2>1, <2>2, LeftAside, BoundsAssumption DEF Tame
<1>9. CASE DaemonLost \/ HostRestarts
  <2>1. out' = out /\ row' = row /\ upsets < MaxUpsets /\ upsets' = upsets + 1
    BY <1>9 DEF DaemonLost, HostRestarts
  <2>2. aside' \in [{"orphan", "headless"} -> {"none", "adopting", "respawning"}]
    <3>1. CASE HostRestarts
      BY <3>1 DEF HostRestarts
    <3>2. CASE DaemonLost
      <4>1. PICK failed : aside' = [w \in DOMAIN aside |-> IF w \in failed THEN "none" ELSE aside[w]]
        BY <3>2 DEF DaemonLost
      <4>. QED BY <4>1 DEF Tame
    <3>. QED BY <1>9, <3>1, <3>2
  <2>. QED BY <2>1, <2>2, BoundsAssumption DEF Tame
<1>10. CASE UNCHANGED vars
  BY <1>10 DEF Tame, vars
<1>. QED
  BY <1>1, <1>2, <1>3, <1>4, <1>5, <1>6, <1>7, <1>8, <1>9, <1>10, <1>11,
     BoundsAssumption DEF Next

\* The variables keep the shapes the actions give them, whatever the bounds.
THEOREM TypesHold == Spec => []TypeOK
<1>1. Init => Tame
  BY BoundsAssumption DEF Init, Tame
<1>2. Invariant /\ Tame /\ [Next]_vars => Tame'
  BY TameStep
<1>3. Invariant /\ Queued /\ Tame => TypeOK
  <2>. SUFFICES ASSUME Invariant, Queued, Tame PROVE TypeOK
    OBVIOUS
  <2>. USE DEF Invariant
  <2>1. /\ out \in 0 .. MaxOut /\ made \in Epochs /\ current \in 0 .. made
        /\ shell.st \in {"alive", "exited", "lost"} /\ shell.from \in 0 .. out
        /\ wire.st \in {"none", "asked", "on", "void"} /\ wire.at \in 0 .. out /\ wire.ring \in 0 .. out
    BY Numbers, BoundsAssumption DEF Tame, Wired, Counted
  <2>2. \A e \in Epochs : sess[e].lo \in 0 .. sess[e].hi /\ sess[e].base + sess[e].hi <= out
    BY Numbers DEF Wired, Counted, End
  <2>3. \A v \in Panes :
         /\ ws[v].st \in {"none", "adopting", "respawning", "settling", "attached"}
         /\ ws[v].id \in 0 .. made
         /\ pane[v].st \in {"none", "parked", "mounted"}
         /\ pane[v].anchor.e \in 0 .. made /\ pane[v].pend \in 0 .. Len(pane[v].screen)
    <3>2. \A v \in Panes : pane[v].pend \in 0 .. Len(pane[v].screen)
      BY LenProperties DEF Shaped, Runtimes, Queued
    <3>1. \A v \in Panes : pane[v].anchor.e \in Nat /\ (pane[v].anchor.e # 0 => pane[v].anchor.e <= made)
      BY Typed DEF Anchored, Reached, Anchors
    <3>. QED BY <3>1, <3>2, Numbers, Typed DEF Placed
  <2>4. \A w \in DOMAIN aside : aside[w] \in {"none", "adopting", "respawning"}
    BY DEF Tame
  <2>. QED BY <2>1, <2>2, <2>3, <2>4 DEF TypeOK, Tame
<1>. QED BY <1>1, <1>2, <1>3, InvariantsHold, PTL DEF Spec

-----------------------------------------------------------------------------
(* An anchor describes the buffer it is paired with, on the pane and in the    *)
(* persisted snapshot, for any panes, rings and bounds.                        *)
(*                                                                             *)
(* The argument: between where a pane joined an object and its anchor the      *)
(* buffer has every position that was not lost (Complete).  What an anchor     *)
(* counts never exceeds what its object has, as long as the object can still   *)
(* move: so an object whose beginning moves leaves its anchors nothing to      *)
(* lose.  And a `synced` that continues a pane's position names the anchor it  *)
(* holds (Matching).                                                           *)

\* The objects whose positions can still move: fed, or held by a socket.
Live ==
    {e \in Epochs : \/ sess[e].on
                    \/ \E v \in Panes : ws[v].st \in {"settling", "attached"} /\ ws[v].id = e}

\* An anchor a, of a buffer that joined its object at j.
Kept(buf, a, j, s, live) ==
    a.e # 0 => /\ Full(buf, j.lost, s[a.e].base + j.at, s[a.e].base + a.n)
               /\ a.e \in live => a.n <= s[a.e].hi

Complete ==
    /\ \A v \in Panes : Kept(pane[v].screen, pane[v].anchor, pane[v].join, sess, Live)
    /\ Kept(stored.buf, stored.anchor, stored.join, sess, Live)

Matching ==
    \A v \in Panes : ws[v].st = "attached" =>
        \A k \in 1 .. Len(chan[v]) : chan[v][k].k = "exact" =>
            chan[v][k].e = pane[v].anchor.e /\ chan[v][k].n = pane[v].anchor.n

USE DEF hostVars

-------------------------------------------------------------------------------
(* Objects.                                                                     *)

\* How session objects may change for the anchors in them to stay true.
Moves ==
    \A e \in Epochs : e <= made =>
        /\ e \in Live' => e \in Live /\ sess[e].hi <= sess'[e].hi
        /\ sess'[e].base = sess[e].base \/ (e \in Live /\ sess[e].hi = 0)

\* Nothing comes to life but what the map holds.
LEMMA LiveShrinks ==
    ASSUME Invariant,
           \A e \in Epochs : e <= made /\ sess'[e].on => sess[e].on,
           \A v \in Panes : ws'[v].st \in {"settling", "attached"} /\ ws'[v].id <= made =>
               \/ ws[v].st \in {"settling", "attached"} /\ ws[v].id = ws'[v].id
               \/ current # 0 /\ ws'[v].id = current
    PROVE  \A e \in Epochs : e <= made /\ e \in Live' => e \in Live
<1>1. current # 0 => sess[current].on
  BY DEF Invariant, Wired, Called
<1>. QED BY <1>1 DEF Live

\* An anchor survives such a change.
LEMMA KeptStays ==
    ASSUME Invariant, Shaped', Moves, NEW buf, NEW a \in Anchors, NEW j \in Joined,
           a.e # 0 => a.e <= made, Kept(buf, a, j, sess, Live)
    PROVE  Kept(buf, a, j, sess', Live')
<1>. SUFFICES ASSUME a.e # 0
              PROVE  /\ Full(buf, j.lost, sess'[a.e].base + j.at, sess'[a.e].base + a.n)
                     /\ a.e \in Live' => a.n <= sess'[a.e].hi
  BY DEF Kept
<1> DEFINE e == a.e
<1>1. e \in Epochs /\ e <= made /\ a.n \in Nat
  BY Numbers, BoundsAssumption DEF Invariant, Anchors, Epochs
<1>2. /\ sess[e].base \in Nat /\ sess[e].hi \in Nat /\ sess'[e].base \in Nat /\ sess'[e].hi \in Nat
  BY <1>1 DEF Invariant, Shaped, Sessions
<1>3. /\ Full(buf, j.lost, sess[e].base + j.at, sess[e].base + a.n)
      /\ e \in Live => a.n <= sess[e].hi
  BY DEF Kept
<1>4. /\ e \in Live' => e \in Live /\ sess[e].hi <= sess'[e].hi
      /\ sess'[e].base = sess[e].base \/ (e \in Live /\ sess[e].hi = 0)
  BY <1>1 DEF Moves
<1>. HIDE DEF e
<1>5. Full(buf, j.lost, sess'[e].base + j.at, sess'[e].base + a.n)
  <2>1. CASE sess'[e].base = sess[e].base
    BY <1>3, <2>1
  <2>2. CASE e \in Live /\ sess[e].hi = 0
    <3>1. a.n = 0
      BY <1>1, <1>3, <2>2
    <3>0. j.at \in Nat
      BY DEF Joined
    <3>2. (sess'[e].base + j.at) + 1 .. sess'[e].base + 0 = {}
      BY <1>2, <3>0
    <3>. QED BY <3>1, <3>2 DEF Full
  <2>. QED BY <1>4, <2>1, <2>2
<1>6. e \in Live' => a.n <= sess'[e].hi
  BY <1>1, <1>2, <1>3, <1>4
<1>. QED BY <1>5, <1>6 DEF e

\* The anchors of an invariant state.
LEMMA AnchorOf ==
    ASSUME Invariant
    PROVE  /\ \A v \in Panes : /\ pane[v].screen \in Seq(Nat) /\ pane[v].anchor \in Anchors
                               /\ pane[v].join \in Joined
                               /\ pane[v].anchor.e # 0 => pane[v].anchor.e <= made
           /\ stored.buf \in Seq(Nat) /\ stored.anchor \in Anchors /\ stored.join \in Joined
           /\ stored.anchor.e # 0 => stored.anchor.e <= made
BY Typed DEF Invariant, Anchored, Reached

\* What is left of a runtime is described by its anchor.
LEMMA KeptTrims ==
    ASSUME NEW t \in Runtimes, NEW r, Trimmed(t, r), NEW s \in [Epochs -> Sessions], NEW live,
           t.anchor.e # 0 => t.anchor.e \in Epochs,
           Kept(t.screen, t.anchor, t.join, s, live)
    PROVE  Kept(r.screen, r.anchor, r.join, s, live)
<1>. SUFFICES ASSUME t.anchor.e # 0
              PROVE  /\ Full(r.screen, r.join.lost, s[t.anchor.e].base + t.join.at,
                              s[t.anchor.e].base + t.anchor.n)
                     /\ t.anchor.e \in live => t.anchor.n <= s[t.anchor.e].hi
  BY DEF Kept, Trimmed
<1>1. /\ s[t.anchor.e].base + t.join.at \in Nat
      /\ s[t.anchor.e].base + t.anchor.n \in Nat
  BY DEF Runtimes, Anchors, Joined, Sessions
<1>. QED BY <1>1 DEF Kept, Trimmed

\* What a pane or the snapshot holds after a step, that it held before.
LEMMA CompleteStays ==
    ASSUME Invariant, Shaped', Moves, Complete,
           \A v \in Panes :
               \/ /\ pane'[v].screen = pane[v].screen /\ pane'[v].anchor = pane[v].anchor
                  /\ pane'[v].join = pane[v].join
               \/ pane'[v].anchor.e = 0
               \/ /\ pane'[v].screen = stored.buf /\ pane'[v].anchor = stored.anchor
                  /\ pane'[v].join = stored.join
               \/ Kept(pane'[v].screen, pane'[v].anchor, pane'[v].join, sess', Live'),
           \/ stored' = stored
           \/ stored'.anchor.e = 0
           \/ \E v \in Panes : /\ stored'.buf = pane[v].screen /\ stored'.anchor = pane[v].anchor
                               /\ stored'.join = pane[v].join
    PROVE  Complete'
<1>1. \A v \in Panes : Kept(pane[v].screen, pane[v].anchor, pane[v].join, sess', Live')
  BY AnchorOf, KeptStays DEF Complete
<1>2. Kept(stored.buf, stored.anchor, stored.join, sess', Live')
  BY AnchorOf, KeptStays DEF Complete
<1>3. ASSUME NEW v \in Panes
      PROVE  Kept(pane'[v].screen, pane'[v].anchor, pane'[v].join, sess', Live')
  <2>1. CASE pane'[v].anchor.e = 0
    BY <2>1 DEF Kept
  <2>. QED BY <1>1, <1>2, <2>1
<1>4. Kept(stored'.buf, stored'.anchor, stored'.join, sess', Live')
  <2>1. CASE stored'.anchor.e = 0
    BY <2>1 DEF Kept
  <2>. QED BY <1>1, <1>2, <2>1
<1>. QED BY <1>3, <1>4 DEF Complete

\* A frame under way still finds the anchor it names.
LEMMA MatchingStays ==
    ASSUME Matching,
           \A v \in Panes : ws'[v].st = "attached" =>
               \/ /\ ws[v].st = "attached" /\ pane'[v].anchor = pane[v].anchor
                  /\ \A k \in 1 .. Len(chan'[v]) : chan'[v][k].k = "exact" =>
                         k \in 1 .. Len(chan[v]) /\ chan'[v][k] = chan[v][k]
               \/ \A k \in 1 .. Len(chan'[v]) : chan'[v][k].k = "exact" =>
                      chan'[v][k].e = pane'[v].anchor.e /\ chan'[v][k].n = pane'[v].anchor.n
    PROVE  Matching'
BY DEF Matching

-------------------------------------------------------------------------------
(* The steps.                                                                   *)

AnchorInvariant == Complete /\ Matching

\* Steps that touch no object, no socket and no pane.
LEMMA QuietKeeps ==
    ASSUME AnchorInvariant, Write \/ ShellExits \/ HeadlessCall \/ UNCHANGED vars
    PROVE  AnchorInvariant'
<1>1. UNCHANGED <<sess, ws, chan, pane, stored>>
  BY DEF Write, ShellExits, HeadlessCall, vars
<1>. QED BY <1>1 DEF AnchorInvariant, Complete, Matching, Live

\* Objects are fed, or wait no longer; panes and sockets stay.
LEMMA FedKeeps ==
    ASSUME Invariant, Invariant', AnchorInvariant,
           UNCHANGED <<made, ws, stored>>,
           \A v \in Panes : /\ pane'[v].screen = pane[v].screen /\ pane'[v].anchor = pane[v].anchor
                            /\ pane'[v].join = pane[v].join,
           \A e \in Epochs : /\ sess'[e].on = sess[e].on /\ sess[e].hi <= sess'[e].hi
                             /\ sess'[e].base = sess[e].base \/ (sess[e].on /\ sess[e].hi = 0),
           \A v \in Panes : \/ chan'[v] = chan[v]
                            \/ \E f \in Frames : f.k # "exact" /\ chan'[v] = Append(chan[v], f)
    PROVE  AnchorInvariant'
<1>1. Moves
  BY DEF Moves, Live
<1>2. Complete'
  BY <1>1, CompleteStays DEF AnchorInvariant, Invariant
<1>3. ASSUME NEW v \in Panes, NEW k \in 1 .. Len(chan'[v]), chan'[v][k].k = "exact"
      PROVE  k \in 1 .. Len(chan[v]) /\ chan'[v][k] = chan[v][k]
  <2>1. CASE chan'[v] = chan[v]
    BY <2>1
  <2>2. ASSUME NEW f \in Frames, f.k # "exact", chan'[v] = Append(chan[v], f)
        PROVE  k \in 1 .. Len(chan[v]) /\ chan'[v][k] = chan[v][k]
    <3>1. chan[v] \in Seq(Frames) /\ Len(chan[v]) \in Nat
      BY LenProperties DEF Invariant, Shaped
    <3>2. /\ Len(chan'[v]) = Len(chan[v]) + 1 /\ chan'[v][Len(chan[v]) + 1] = f
          /\ \A i \in 1 .. Len(chan[v]) : chan'[v][i] = chan[v][i]
      BY <2>2, <3>1, AppendProperties
    <3>. QED BY <1>3, <2>2, <3>1, <3>2
  <2>. QED BY <2>1, <2>2
<1>4. Matching'
  BY <1>3, MatchingStays DEF AnchorInvariant
<1>. QED BY <1>2, <1>4 DEF AnchorInvariant

\* Output, exits, replays and repaints.
LEMMA FeedKeeps ==
    ASSUME Invariant, Invariant', AnchorInvariant,
           \/ Subscribe \/ DeliverOutput \/ DeliverExit
           \/ \E e \in Epochs : Settle(e) \/ Nudge(e)
    PROVE  AnchorInvariant'
<1>1. CASE Subscribe
  <2>1. UNCHANGED <<made, ws, stored, pane, chan>>
    BY <1>1 DEF Subscribe
  <2>2. wire.st = "asked"
    BY <1>1 DEF Subscribe
  <2>3. \A e \in Epochs : /\ sess'[e].on = sess[e].on /\ sess'[e].hi = sess[e].hi
                          /\ sess'[e].base = sess[e].base \/ sess[e].on
    <3>1. \/ sess' = sess
          \/ \E b : sess' = [e \in Epochs |-> IF sess[e].on THEN [sess[e] EXCEPT !.base = b]
                                                           ELSE sess[e]]
      BY <1>1 DEF Subscribe
    <3>2. \A e \in Epochs : sess[e] \in Sessions
      BY DEF Invariant, Shaped
    <3>. QED BY <3>1, <3>2 DEF Sessions
  <2>4. \A e \in Epochs : sess[e].on => sess[e].hi = 0
    BY <2>2 DEF Invariant, Wired, Fed
  <2>5. \A e \in Epochs : sess[e].hi <= sess'[e].hi
    BY <2>3, Numbers DEF Invariant
  <2>. QED BY <2>1, <2>3, <2>4, <2>5, FedKeeps
<1>2. CASE DeliverOutput
  <2>1. /\ UNCHANGED <<made, ws, pane, stored>> /\ wire.at \in Nat /\ wire'.at \in Nat
        /\ wire.at < wire'.at
        /\ \A g \in Epochs : sess'[g].base = sess[g].base /\ sess'[g].on = sess[g].on
        /\ \A g \in Epochs : ~sess[g].on => sess'[g] = sess[g]
        /\ \A g \in Epochs : sess[g].on => sess'[g].hi = sess[g].hi + (wire'.at - wire.at)
        /\ \A u \in Panes : \/ chan'[u] = chan[u]
                            \/ chan'[u] = Append(chan[u], Output(Stretch(wire.at, wire'.at)))
    BY <1>2, DeliverOutputDoes
  <2>2. \A g \in Epochs : sess[g].hi <= sess'[g].hi
    BY <2>1, Numbers DEF Invariant
  <2>3. /\ Output(Stretch(wire.at, wire'.at)) \in Frames
        /\ Output(Stretch(wire.at, wire'.at)).k # "exact"
    BY <2>1, StretchIs, OutputFrame
  <2>. QED BY <2>1, <2>2, <2>3, FedKeeps
<1>3. CASE DeliverExit
  <2>1. /\ UNCHANGED <<made, ws, stored, pane>>
        /\ \A v \in Panes : chan'[v] = chan[v] \/ chan'[v] = Append(chan[v], Frame("exit"))
    BY <1>3 DEF DeliverExit, Invariant, Shaped
  <2>2. \A e \in Epochs : /\ sess'[e].on = sess[e].on /\ sess'[e].hi = sess[e].hi
                          /\ sess'[e].base = sess[e].base
    BY <1>3 DEF DeliverExit, Invariant, Shaped, Sessions
  <2>3. \A e \in Epochs : sess[e].hi <= sess'[e].hi
    BY <2>2, Numbers DEF Invariant
  <2>. QED BY <2>1, <2>2, <2>3, ExitFrame, FedKeeps
<1>4. ASSUME NEW e \in Epochs, Settle(e) PROVE AnchorInvariant'
  <2>1. UNCHANGED <<made, ws, stored, pane, chan>>
    BY <1>4 DEF Settle
  <2>2. \A g \in Epochs : /\ sess'[g].on = sess[g].on /\ sess'[g].hi = sess[g].hi
                          /\ sess'[g].base = sess[g].base
    BY <1>4 DEF Settle, Invariant, Shaped, Sessions
  <2>3. \A g \in Epochs : sess[g].hi <= sess'[g].hi
    BY <2>2, Numbers DEF Invariant
  <2>. QED BY <2>1, <2>2, <2>3, FedKeeps
<1>5. ASSUME NEW e \in Epochs, Nudge(e) PROVE AnchorInvariant'
  <2>1. UNCHANGED <<made, ws, stored, chan>>
    BY <1>5 DEF Nudge
  <2>2. \A g \in Epochs : /\ sess'[g].on = sess[g].on /\ sess'[g].hi = sess[g].hi
                          /\ sess'[g].base = sess[g].base
    BY <1>5 DEF Nudge, Invariant, Shaped, Sessions
  <2>3. \A g \in Epochs : sess[g].hi <= sess'[g].hi
    BY <2>2, Numbers DEF Invariant
  <2>4. \A v \in Panes : /\ pane'[v].screen = pane[v].screen /\ pane'[v].anchor = pane[v].anchor
                         /\ pane'[v].join = pane[v].join
    BY <1>5 DEF Nudge, Invariant, Shaped, Runtimes
  <2>. QED BY <2>1, <2>2, <2>3, <2>4, FedKeeps
<1>. QED BY <1>1, <1>2, <1>3, <1>4, <1>5

\* Sockets move on, or close, while panes keep what they hold, give up their
\* anchors, or take over the persisted pair.
LEMMA SocketsKeep ==
    ASSUME Invariant, Invariant', AnchorInvariant, Moves,
           \A v \in Panes :
               \/ /\ pane'[v].screen = pane[v].screen /\ pane'[v].anchor = pane[v].anchor
                  /\ pane'[v].join = pane[v].join
               \/ pane'[v].anchor.e = 0
               \/ /\ pane'[v].screen = stored.buf /\ pane'[v].anchor = stored.anchor
                  /\ pane'[v].join = stored.join,
           \/ stored' = stored
           \/ stored'.anchor.e = 0
           \/ \E v \in Panes : /\ stored'.buf = pane[v].screen /\ stored'.anchor = pane[v].anchor
                               /\ stored'.join = pane[v].join,
           \A v \in Panes : ws'[v].st = "attached" =>
               /\ ws[v].st = "attached" /\ chan'[v] = chan[v] /\ pane'[v].anchor = pane[v].anchor
    PROVE  AnchorInvariant'
<1>1. Complete'
  BY CompleteStays DEF AnchorInvariant, Invariant
<1>2. Matching'
  BY MatchingStays DEF AnchorInvariant
<1>. QED BY <1>1, <1>2 DEF AnchorInvariant

\* Objects that stay as they are, or are called back no more.
LEMMA MovesNot ==
    ASSUME Invariant,
           \A e \in Epochs : e <= made =>
               /\ sess'[e].base = sess[e].base /\ sess'[e].hi = sess[e].hi
               /\ sess'[e].on => sess[e].on,
           \A v \in Panes : ws'[v].st \in {"settling", "attached"} /\ ws'[v].id <= made =>
               \/ ws[v].st \in {"settling", "attached"} /\ ws[v].id = ws'[v].id
               \/ current # 0 /\ ws'[v].id = current
    PROVE  Moves
<1>1. \A e \in Epochs : e <= made /\ e \in Live' => e \in Live
  BY LiveShrinks
<1>2. \A e \in Epochs : sess[e].hi <= sess[e].hi
  BY Numbers DEF Invariant
<1>. QED BY <1>1, <1>2 DEF Moves

\* A pane dials, or its adoption fails.
LEMMA DialKeeps ==
    ASSUME Invariant, Invariant', AnchorInvariant,
           \/ \E v \in Panes : Dial(v)
           \/ \E w \in Pursuers : AdoptFails(w)
    PROVE  AnchorInvariant'
<1>1. ASSUME NEW v \in Panes, Dial(v) PROVE AnchorInvariant'
  <2>1. UNCHANGED <<sess, made, chan, stored>>
    BY <1>1 DEF Dial
  <2>2. \A u \in Panes : \/ ws'[u] = ws[u]
                         \/ ws'[u].st \in {"adopting", "settling"} /\ ws'[u].id = current
                            /\ (current = 0 => ws'[u].st = "adopting")
    BY <1>1 DEF Dial, Invariant, Shaped
  <2>3. \A u \in Panes : /\ pane'[u].screen = pane[u].screen /\ pane'[u].anchor = pane[u].anchor
                         /\ pane'[u].join = pane[u].join
    <3>1. pane' = pane \/ pane' = [pane EXCEPT ![v].ended = TRUE]
      BY <1>1 DEF Dial
    <3>2. \A u \in Panes : pane[u] \in Runtimes
      BY DEF Invariant, Shaped
    <3>3. \A u \in Panes : pane'[u] = pane[u] \/ pane'[u] = [pane[u] EXCEPT !.ended = TRUE]
      BY <3>1 DEF Invariant, Shaped
    <3>. QED BY <3>2, <3>3 DEF Runtimes
  <2>4. Moves
    BY <2>1, <2>2, MovesNot
  <2>. QED BY <2>1, <2>2, <2>3, <2>4, SocketsKeep
<1>2. ASSUME NEW w \in Pursuers, AdoptFails(w) PROVE AnchorInvariant'
  <2>1. UNCHANGED <<sess, made, chan, pane, stored>>
    BY <1>2 DEF AdoptFails
  <2>2. \A u \in Panes : \/ ws'[u] = ws[u]
                         \/ ws'[u].st = "respawning"
                         \/ w = u /\ ws'[u].st = "settling" /\ ws'[u].id = current /\ current # 0
    <3>1. CASE w \in Panes
      <4>1. w # "headless" /\ w # "orphan"
        BY <3>1, BoundsAssumption
      <4>. QED BY <1>2, <3>1, <4>1 DEF AdoptFails, MoveOn, Enter, Invariant, Shaped, Ends
    <3>2. CASE w \notin Panes
      BY <1>2, <3>2 DEF AdoptFails, MoveOn
    <3>. QED BY <3>1, <3>2
  <2>3. Moves
    BY <2>1, <2>2, MovesNot
  <2>. QED BY <2>1, <2>2, <2>3, SocketsKeep
<1>. QED BY <1>1, <1>2

\* A session object is put into the map: no anchor counts in it yet.
LEMMA InstallKeeps ==
    ASSUME Invariant, Invariant', AnchorInvariant, NEW w \in Pursuers,
           Adopt(w) \/ Respawn(w)
    PROVE  AnchorInvariant'
<1>1. PICK settled \in BOOLEAN : Install(w, settled)
  BY DEF Adopt, Respawn
<1>2. /\ UNCHANGED <<chan, pane, stored>>
      /\ sess' = [sess EXCEPT ![made + 1] = Session(FirstBase, settled)]
      /\ MoveOn(w, "settling", made + 1)
  BY <1>1 DEF Install
<1>3. made \in Nat /\ \A e \in Epochs : e <= made => e # made + 1
  BY Numbers DEF Invariant, Epochs
<1>4. \A e \in Epochs : e <= made => sess'[e] = sess[e]
  BY <1>2, <1>3 DEF Invariant, Shaped
<1>5. \A u \in Panes : ws'[u] = ws[u] \/ (ws'[u].st = "settling" /\ ws'[u].id = made + 1)
  BY <1>2 DEF MoveOn, Enter, Invariant, Shaped, Ends
<1>6. ~(made + 1 <= made)
  BY <1>3
<1>7. Moves
  BY <1>4, <1>5, <1>6, MovesNot
<1>. QED BY <1>2, <1>5, <1>7, SocketsKeep

\* What is persisted of a pane: its buffer to the anchor, or no anchor.
LEMMA SnapshotPairs ==
    ASSUME Shaped, NEW v \in Panes, NEW k \in 0 .. Len(pane[v].screen), NEW ok \in BOOLEAN
    PROVE  LET r == Snapshot(pane[v], k, ok) IN
           \/ r.anchor.e = 0
           \/ r.buf = pane[v].screen /\ r.anchor = pane[v].anchor /\ r.join = pane[v].join
<1>1. CASE pane[v].ended
  BY <1>1, Blanks DEF Snapshot
<1>2. CASE ~pane[v].ended /\ ok /\ k = 0
  <2>1. Parsed(pane[v], 0) = pane[v].screen
    <3>1. pane[v].screen \in Seq(Nat) /\ k \in 0 .. Len(pane[v].screen)
      BY Typed
    <3>. QED BY <1>2, <3>1, ParsedIs
  <2>2. Persistable(pane[v], 0) \in {pane[v].anchor, NoAnchor}
    BY DEF Persistable
  <2>. QED BY <1>2, <2>1, <2>2, Blanks DEF Snapshot
<1>3. CASE ~pane[v].ended /\ ~(ok /\ k = 0)
  <2>1. (IF ok THEN Persistable(pane[v], k) ELSE NoAnchor) = NoAnchor
    BY <1>3 DEF Persistable
  <2>. QED BY <1>3, <2>1, Blanks DEF Snapshot
<1>. QED BY <1>1, <1>2, <1>3

\* A socket closes on one pane, which keeps its buffer or is gone with it.
LEMMA CloseKeeps ==
    ASSUME Invariant, Invariant', AnchorInvariant, NEW v \in Panes,
           Drop(v) \/ Detach(v) \/ Release(v)
    PROVE  AnchorInvariant'
<1>. USE DEF Invariant
<1>1. UNCHANGED <<sess, made>>
  BY DEF Drop, Detach, Release
<1>2. pane[v] \in Runtimes /\ Closed(pane[v]) \in Runtimes
  BY ClosedIs DEF Shaped
<1>3. \/ stored' = stored
      \/ stored'.anchor.e = 0
      \/ /\ stored'.buf = pane[v].screen /\ stored'.anchor = pane[v].anchor
         /\ stored'.join = pane[v].join
  <2>1. CASE Drop(v)
    BY <2>1 DEF Drop
  <2>2. CASE Detach(v) \/ Release(v)
    <3>1. \E ok \in BOOLEAN : \E k \in 0 .. Len(pane[v].screen) : stored' = Snapshot(pane[v], k, ok)
      BY <2>2 DEF Detach, Release
    <3>. QED BY <3>1, SnapshotPairs
  <2>. QED BY <2>1, <2>2
<1>4. \A q \in Runtimes : LET t == [q EXCEPT !.st = "parked"] IN
         t.screen = q.screen /\ t.anchor = q.anchor /\ t.join = q.join
  BY DEF Runtimes
<1>5. \/ \E r : /\ pane' = [pane EXCEPT ![v] = r] /\ CloseSockets({v})
                /\ \/ /\ r.screen = pane[v].screen /\ r.join = pane[v].join
                      /\ r.anchor = pane[v].anchor
                   \/ r.anchor.e = 0
      \/ /\ pane' = [pane EXCEPT ![v].st = "parked", ![v].pend = 0] /\ UNCHANGED <<ws, chan>>
  <2>1. CASE Drop(v)
    <3> DEFINE r == Closed(pane[v])
    <3>1. pane' = [pane EXCEPT ![v] = r] /\ CloseSockets({v})
      BY <2>1 DEF Drop, Shaped
    <3>2. \/ /\ r.screen = pane[v].screen /\ r.join = pane[v].join /\ r.anchor = pane[v].anchor
          \/ r.anchor.e = 0
      BY <1>2, ClosedIs, Blanks
    <3>. HIDE DEF r
    <3>. QED BY <3>1, <3>2
  <2>2. CASE Detach(v)
    <3> DEFINE r == [Closed(pane[v]) EXCEPT !.st = "parked"]
    <3>1. \/ pane' = [pane EXCEPT ![v] = r] /\ CloseSockets({v})
          \/ pane' = [pane EXCEPT ![v].st = "parked", ![v].pend = 0] /\ UNCHANGED <<ws, chan>>
      BY <2>2 DEF Detach
    <3>2. \/ /\ r.screen = pane[v].screen /\ r.join = pane[v].join /\ r.anchor = pane[v].anchor
          \/ r.anchor.e = 0
      BY <1>2, <1>4, ClosedIs, Blanks
    <3>. HIDE DEF r
    <3>. QED BY <3>1, <3>2
  <2>3. CASE Release(v)
    BY <2>3, Blanks DEF Release
  <2>. QED BY <2>1, <2>2, <2>3
<1>6. CASE pane' = [pane EXCEPT ![v].st = "parked", ![v].pend = 0] /\ UNCHANGED <<ws, chan>>
  <2> DEFINE r == [pane[v] EXCEPT !.st = "parked", !.pend = 0]
  <2>3. r.screen = pane[v].screen /\ r.anchor = pane[v].anchor /\ r.join = pane[v].join
    BY <1>2 DEF Runtimes
  <2>4. pane'[v] = r /\ \A u \in Panes : u # v => pane'[u] = pane[u]
    BY <1>6 DEF Shaped
  <2>. HIDE DEF r
  <2>1. \A u \in Panes : /\ pane'[u].screen = pane[u].screen /\ pane'[u].anchor = pane[u].anchor
                         /\ pane'[u].join = pane[u].join
    BY <2>3, <2>4
  <2>2. Moves
    BY <1>1, <1>6, MovesNot
  <2>. QED BY <1>3, <1>6, <2>1, <2>2, SocketsKeep
<1>7. ASSUME NEW r, pane' = [pane EXCEPT ![v] = r], CloseSockets({v}),
             \/ /\ r.screen = pane[v].screen /\ r.join = pane[v].join
                /\ r.anchor = pane[v].anchor
             \/ r.anchor.e = 0
      PROVE  AnchorInvariant'
  <2>1. ws' = [ws EXCEPT ![v] = NoWs] /\ chan' = [chan EXCEPT ![v] = <<>>]
    BY <1>7, ClosedOne
  <2>2. /\ ws'[v].st = "none" /\ pane'[v] = r
        /\ \A u \in Panes : u # v => ws'[u] = ws[u] /\ chan'[u] = chan[u] /\ pane'[u] = pane[u]
    BY <1>7, <2>1, Blanks DEF Shaped
  <2>3. Moves
    BY <1>1, <2>2, MovesNot
  <2>4. \A u \in Panes : \/ /\ pane'[u].screen = pane[u].screen /\ pane'[u].anchor = pane[u].anchor
                            /\ pane'[u].join = pane[u].join
                         \/ pane'[u].anchor.e = 0
    BY <1>7, <2>2
  <2>5. \A u \in Panes : ws'[u].st = "attached" =>
            /\ ws[u].st = "attached" /\ chan'[u] = chan[u] /\ pane'[u].anchor = pane[u].anchor
    BY <2>2
  <2>. QED BY <1>3, <2>3, <2>4, <2>5, SocketsKeep
<1>. QED BY <1>5, <1>6, <1>7

\* The window reloads, or host-service restarts: every socket is gone.
LEMMA AllCloseKeeps ==
    ASSUME Invariant, Invariant', AnchorInvariant, Reload \/ HostRestarts
    PROVE  AnchorInvariant'
<1>. USE DEF Invariant
<1>1. \A v \in Panes : ws'[v].st = "none"
  <2>1. \A v \in Panes : ws'[v] = NoWs
    BY DEF Reload, HostRestarts, CloseSockets
  <2>. QED BY <2>1, Blanks
<1>2. stored' = stored
  BY DEF Reload, HostRestarts
<1>3. \A v \in Panes : \/ /\ pane'[v].screen = pane[v].screen /\ pane'[v].anchor = pane[v].anchor
                          /\ pane'[v].join = pane[v].join
                       \/ pane'[v].anchor.e = 0
  <2>1. \A v \in Panes : pane'[v] \in {FreshPane, Closed(pane[v])}
    BY DEF Reload, HostRestarts
  <2>2. \A v \in Panes : pane[v] \in Runtimes
    BY DEF Shaped
  <2>. QED BY <2>1, <2>2, ClosedIs, Blanks
<1>4. Moves
  <2>1. CASE Reload
    <3>1. sess' = sess
      BY <2>1 DEF Reload
    <3>. QED BY <1>1, <3>1, MovesNot
  <2>2. CASE HostRestarts
    <3>1. \A e \in Epochs : sess'[e] = Forgotten(sess[e]) /\ sess[e] \in Sessions
      BY <2>2 DEF HostRestarts, Shaped
    <3>2. \A e \in Epochs : sess'[e].base = sess[e].base /\ ~sess'[e].on
      BY <3>1, ForgottenIs
    <3>. QED BY <1>1, <3>2 DEF Moves, Live
  <2>. QED BY <2>1, <2>2
<1>. QED BY <1>1, <1>2, <1>3, <1>4, SocketsKeep

\* The daemon connection ends: what a socket still holds is cut off from it.
LEMMA LostKeeps ==
    ASSUME Invariant, Invariant', AnchorInvariant, DaemonLost
    PROVE  AnchorInvariant'
<1>. USE DEF Invariant
<1>1. PICK shut \in SUBSET Panes :
        /\ sess' = [e \in Epochs |->
              IF \E v \in Panes \ shut : ws[v].st \in {"settling", "attached"} /\ ws[v].id = e
                THEN CutOff(sess[e]) ELSE Forgotten(sess[e])]
        /\ ws' = [v \in Panes |-> IF v \in shut THEN NoWs ELSE ws[v]]
        /\ chan' = [v \in Panes |-> IF v \in shut THEN <<>> ELSE chan[v]]
        /\ pane' = [v \in Panes |-> IF v \in shut THEN Closed(pane[v]) ELSE pane[v]]
        /\ stored' = stored
  <2>1. PICK failed \in SUBSET {w \in Pursuers : Pursuit(w) \in {"adopting", "respawning"}} :
          LET shut == (failed \cap Panes) \cup (IF current = 0 THEN {} ELSE Sockets(current)) IN
          /\ sess' = [e \in Epochs |->
                IF \E v \in Panes \ shut : ws[v].st \in {"settling", "attached"} /\ ws[v].id = e
                  THEN CutOff(sess[e]) ELSE Forgotten(sess[e])]
          /\ ws' = [v \in Panes |-> IF v \in shut THEN NoWs ELSE ws[v]]
          /\ chan' = [v \in Panes |-> IF v \in shut THEN <<>> ELSE chan[v]]
          /\ pane' = [v \in Panes |-> IF v \in shut THEN Closed(pane[v]) ELSE pane[v]]
          /\ stored' = stored
    BY DEF DaemonLost, CutOff
  <2> DEFINE shut == (failed \cap Panes) \cup (IF current = 0 THEN {} ELSE Sockets(current))
  <2>2. shut \in SUBSET Panes
    BY DEF Sockets
  <2>. QED BY <2>1, <2>2
<1>2. \A v \in Panes : /\ pane'[v].screen = pane[v].screen /\ pane'[v].join = pane[v].join
                       /\ pane'[v].anchor = pane[v].anchor \/ pane'[v].anchor.e = 0
                       /\ v \notin shut => pane'[v] = pane[v]
  <2>1. \A v \in Panes : pane[v] \in Runtimes
    BY DEF Shaped
  <2>. QED BY <1>1, <2>1, ClosedIs, Blanks
<1>3. \A v \in Panes : ws'[v].st # "none" => v \notin shut /\ ws'[v] = ws[v] /\ chan'[v] = chan[v]
  BY <1>1, Blanks
<1>4. Moves
  <2>. SUFFICES ASSUME NEW e \in Epochs
                PROVE  /\ e \in Live' => e \in Live /\ sess[e].hi <= sess'[e].hi
                       /\ sess'[e].base = sess[e].base \/ (e \in Live /\ sess[e].hi = 0)
    BY DEF Moves
  <2>1. sess[e] \in Sessions /\ out \in Nat /\ sess[e].hi \in Nat
    BY Numbers DEF Shaped
  <2>2. CASE \E v \in Panes \ shut : ws[v].st \in {"settling", "attached"} /\ ws[v].id = e
    <3>1. sess'[e] = CutOff(sess[e])
      BY <1>1, <2>2
    <3>2. e \in Live
      BY <2>2 DEF Live
    <3>3. /\ CutOff(sess[e]).hi = sess[e].hi
          /\ CutOff(sess[e]).base = IF sess[e].hi = 0 THEN out ELSE sess[e].base
      BY <2>1, CutOffIs
    <3>. QED BY <2>1, <3>1, <3>2, <3>3
  <2>3. CASE ~\E v \in Panes \ shut : ws[v].st \in {"settling", "attached"} /\ ws[v].id = e
    <3>1. sess'[e] = Forgotten(sess[e])
      BY <1>1, <2>3
    <3>2. sess'[e].base = sess[e].base /\ ~sess'[e].on
      BY <2>1, <3>1, ForgottenIs
    <3>3. e \notin Live'
      BY <1>3, <2>3, <3>2 DEF Live
    <3>. QED BY <3>2, <3>3
  <2>. QED BY <2>2, <2>3
<1>. QED BY <1>1, <1>2, <1>3, <1>4, SocketsKeep

\* The pane comes back as it was, from a sibling, or from the persisted pair.
LEMMA MountKeeps ==
    ASSUME Invariant, Invariant', AnchorInvariant, NEW v \in Panes, Mount(v)
    PROVE  AnchorInvariant'
<1>. USE DEF Invariant
<1>1. UNCHANGED <<sess, made, ws, chan, stored>>
  BY DEF Mount
<1>2. PICK seed \in Seeds(v) : pane' = [pane EXCEPT ![v] = seed]
  BY DEF Mount
<1>3. pane[v] \in Runtimes /\ pane[v].st \in {"none", "parked"}
  BY Typed DEF Mount, Shaped
<1>4. ASSUME NEW buf, NEW anchor, NEW join, NEW had,
             seed = [FreshPane EXCEPT !.st = "mounted", !.screen = buf, !.anchor = anchor,
                                      !.join = join, !.had = had]
      PROVE  seed.screen = buf /\ seed.anchor = anchor /\ seed.join = join
  BY <1>4 DEF FreshPane
<1>5. \/ /\ seed.screen = pane[v].screen /\ seed.anchor = pane[v].anchor
         /\ seed.join = pane[v].join
      \/ pane[v].st = "none" /\ seed.anchor.e = 0
      \/ /\ pane[v].st = "none" /\ seed.screen = stored.buf /\ seed.anchor = stored.anchor
         /\ seed.join = stored.join
  <2>1. CASE pane[v].st = "parked"
    <3>1. seed = [pane[v] EXCEPT !.st = "mounted"]
      BY <2>1 DEF Seeds
    <3>. QED BY <1>3, <3>1 DEF Runtimes
  <2>2. CASE pane[v].st = "none"
    <3> DEFINE With(buf, anchor, join) ==
                 [FreshPane EXCEPT !.st = "mounted", !.screen = buf, !.anchor = anchor,
                                   !.join = join, !.had = buf # <<>>]
               siblings == {u \in Panes \ {v} : pane[u].st # "none"}
    <3>1. \/ \E u \in Panes : \E k \in 0 .. Len(pane[u].screen) :
                 seed = With(Parsed(pane[u], k), NoAnchor, NoJoin)
          \/ seed = With(<<>>, NoAnchor, NoJoin)
          \/ seed = With(stored.buf, stored.anchor, stored.join)
      <4>1. CASE siblings # {}
        <5>1. seed \in UNION {{With(Parsed(pane[u], k), NoAnchor, NoJoin)
                                  : k \in pane[u].pend .. Len(pane[u].screen)} : u \in siblings}
          BY <2>2, <4>1 DEF Seeds
        <5>2. PICK u \in siblings : \E k \in pane[u].pend .. Len(pane[u].screen) :
                 seed = With(Parsed(pane[u], k), NoAnchor, NoJoin)
          BY <5>1
        <5>. HIDE DEF With
        <5>3. PICK k \in pane[u].pend .. Len(pane[u].screen) :
                 seed = With(Parsed(pane[u], k), NoAnchor, NoJoin)
          BY <5>2
        <5>4. u \in Panes /\ pane[u].pend \in Nat /\ pane[u].screen \in Seq(Nat)
          BY <5>2, Typed DEF Shaped, Runtimes
        <5>5. Len(pane[u].screen) \in Nat
          BY <5>4, LenProperties
        <5>6. k \in 0 .. Len(pane[u].screen)
          BY <5>3, <5>4, <5>5
        <5>. QED BY <5>3, <5>4, <5>6
      <4>2. CASE siblings = {}
        BY <2>2, <4>2 DEF Seeds
      <4>. QED BY <4>1, <4>2
    <3>2. ASSUME NEW buf, NEW anchor, NEW join, seed = With(buf, anchor, join)
          PROVE  seed.screen = buf /\ seed.anchor = anchor /\ seed.join = join
      <4> DEFINE had == buf # <<>>
      <4>1. seed = [FreshPane EXCEPT !.st = "mounted", !.screen = buf, !.anchor = anchor,
                                     !.join = join, !.had = had]
        BY <3>2
      <4>. HIDE DEF had
      <4>. QED BY <1>4, <4>1
    <3>. HIDE DEF With
    <3>. QED BY <2>2, <3>1, <3>2, Blanks
  <2>. QED BY <1>3, <2>1, <2>2
<1>6. pane'[v] = seed /\ \A u \in Panes : u # v => pane'[u] = pane[u]
  BY <1>2 DEF Shaped
<1>7. pane[v].st = "none" => ws[v].st = "none"
  BY DEF Placed
<1>8. Moves
  BY <1>1, MovesNot
<1>9. \A u \in Panes :
         \/ /\ pane'[u].screen = pane[u].screen /\ pane'[u].anchor = pane[u].anchor
            /\ pane'[u].join = pane[u].join
         \/ pane'[u].anchor.e = 0
         \/ /\ pane'[u].screen = stored.buf /\ pane'[u].anchor = stored.anchor
            /\ pane'[u].join = stored.join
  BY <1>5, <1>6
<1>10. \A u \in Panes : ws'[u].st = "attached" =>
            /\ ws[u].st = "attached" /\ chan'[u] = chan[u] /\ pane'[u].anchor = pane[u].anchor
  BY <1>1, <1>5, <1>6, <1>7
<1>. QED BY <1>1, <1>8, <1>9, <1>10, SocketsKeep

\* A socket is attached: a continuation names the position the pane dialled with.
LEMMA AttachKeeps ==
    ASSUME Invariant, Invariant', AnchorInvariant, NEW v \in Panes, Attach(v)
    PROVE  AnchorInvariant'
<1>1. /\ ws[v].st = "settling" /\ ws'[v].id = ws[v].id
      /\ \A u \in Panes : u # v => ws'[u] = ws[u] /\ chan'[u] = chan[u]
      /\ \A k \in 1 .. Len(chan'[v]) : chan'[v][k].k = "exact" =>
            chan'[v][k].e = pane[v].anchor.e /\ chan'[v][k].n = pane[v].anchor.n
      /\ \A e \in Epochs : /\ sess'[e].base = sess[e].base /\ sess'[e].hi = sess[e].hi
                           /\ sess'[e].on = sess[e].on
      /\ \A u \in Panes : /\ pane'[u].screen = pane[u].screen /\ pane'[u].anchor = pane[u].anchor
                          /\ pane'[u].join = pane[u].join
      /\ stored' = stored
  BY AttachDoes
<1>2. Moves
  BY <1>1, MovesNot
<1>3. Complete'
  BY <1>1, <1>2, CompleteStays DEF AnchorInvariant, Invariant
<1>4. Matching'
  BY <1>1, MatchingStays DEF AnchorInvariant
<1>. QED BY <1>3, <1>4 DEF AnchorInvariant

\* Positions in the stream (x, y) and counts within an object that begins at b.
LEMMA CountsOn ==
    ASSUME NEW n \in Nat, NEW b \in Nat, NEW h \in Nat, NEW x \in Nat, NEW y \in Nat,
           NEW m, m = n + (y - x), x = b + n, y <= b + h
    PROVE  y = b + m /\ m <= h
OBVIOUS

\* What a buffer holds stays when a stretch is painted behind it.
LEMMA FullGrows ==
    ASSUME NEW s \in Seq(Nat), NEW a \in Nat, NEW b \in Nat, NEW c \in Nat, b <= c,
           NEW lost, Full(s, lost, a, b)
    PROVE  Full(s \o Stretch(b, c), lost, a, c)
<1> DEFINE t == Stretch(b, c)
           u == s \o t
<1>1. t \in Seq(Nat) /\ Len(t) = c - b /\ \A i \in 1 .. c - b : t[i] = b + i
  BY StretchIs
<1>2. /\ Len(u) = Len(s) + Len(t) /\ Len(s) \in Nat
      /\ \A i \in 1 .. Len(s) + Len(t) : u[i] = IF i <= Len(s) THEN s[i] ELSE t[i - Len(s)]
  BY <1>1, ConcatProperties, LenProperties
<1>. HIDE DEF t, u
<1>. SUFFICES ASSUME NEW p \in a + 1 .. c, p \notin lost
              PROVE  \E i \in 1 .. Len(u) : u[i] = p
  BY DEF Full, t, u
<1>3. CASE p <= b
  <2>1. PICK i \in 1 .. Len(s) : s[i] = p
    BY <1>3 DEF Full
  <2>2. i \in 1 .. Len(u) /\ u[i] = p
    BY <1>1, <1>2, <2>1
  <2>. QED BY <2>2
<1>4. CASE p > b
  <2>1. p - b \in 1 .. c - b
    BY <1>4
  <2> DEFINE i == Len(s) + (p - b)
  <2>2. i \in 1 .. Len(s) + Len(t) /\ ~(i <= Len(s)) /\ i - Len(s) = p - b
    BY <1>1, <1>2, <2>1
  <2>3. t[p - b] = p
    BY <1>1, <2>1
  <2>4. i \in 1 .. Len(u) /\ u[i] = t[i - Len(s)]
    BY <1>2, <2>2
  <2>5. u[i] = p
    BY <2>2, <2>3, <2>4
  <2>. QED BY <2>4, <2>5
<1>. QED BY <1>3, <1>4

\* Where a pane joined its object, after a frame.
LEMMA TakenJoin ==
    ASSUME NEW p \in Runtimes, NEW f \in Frames
    PROVE  /\ f.k \in {"attached", "exact", "exit", "bytes"} => Taken(p, f).join = p.join
           /\ f.k \in {"tail", "reanchor"} => Taken(p, f).join = [at |-> f.n, lost |-> {}]
<1>1. CASE f.k = "attached"
  BY <1>1 DEF Taken, Runtimes
<1>2. CASE f.k \in {"exact", "tail", "reanchor"}
  BY <1>2 DEF Taken, Runtimes, Frames
<1>3. CASE f.k = "bytes"
  <2>1. Taken(p, f) = Paint(p, f)
    BY <1>3 DEF Taken
  <2>2. Paint(p, f).join = p.join
    BY PaintIs
  <2>. QED BY <1>3, <2>1, <2>2
<1>4. CASE f.k = "exit"
  <2>1. Closed(p) \in Runtimes /\ Closed(p).join = p.join
    BY ClosedIs
  <2>2. \A r \in Runtimes : [r EXCEPT !.ended = TRUE].join = r.join
    BY DEF Runtimes
  <2>. QED BY <1>4, <2>1, <2>2 DEF Taken
<1>. QED BY <1>1, <1>2, <1>3, <1>4 DEF Frames, Joins

\* Taking the first frame of a thread, the buffer stays what the anchor says.
LEMMA TakenFull ==
    ASSUME NEW p \in Runtimes, NEW q \in Seq(Frames), q # <<>>, NEW e \in Nat \ {0},
           NEW s \in Sessions, NEW c \in [0 .. Len(q) -> Nat], Thread(q, c, p, e, s),
           Head(q).k # "exit",
           Head(q).k = "exact" => Head(q).e = p.anchor.e /\ Head(q).n = p.anchor.n,
           p.anchor.e = e => /\ Full(p.screen, p.join.lost, s.base + p.join.at, s.base + p.anchor.n)
                             /\ p.anchor.n <= s.hi
    PROVE  LET r == Taken(p, Head(q)) IN
           \/ r.screen = p.screen /\ r.anchor = p.anchor /\ r.join = p.join
           \/ /\ r.anchor.e = e /\ r.anchor.n <= s.hi
              /\ Full(r.screen, r.join.lost, s.base + r.join.at, s.base + r.anchor.n)
<1> DEFINE f == Head(q)
           r == Taken(p, f)
<1>1. Len(q) \in Nat \ {0} /\ f = q[1] /\ f \in Frames
  BY LenProperties, EmptySeq, HeadTailProperties
<1>2. /\ c[0] \in Nat /\ c[1] \in Nat /\ c[0] <= c[1] /\ c[1] <= s.base + s.hi
      /\ Carries(f, c[0], c[1], e, s) /\ Knows(q, c[0], p, e, s)
  <2>1. 1 \in 1 .. Len(q) /\ 0 \in 0 .. Len(q) /\ 1 \in 0 .. Len(q) /\ 1 - 1 = 0
        /\ Len(q) \in 0 .. Len(q)
    BY <1>1
  <2>2. c[1] <= c[Len(q)] /\ c[Len(q)] = s.base + s.hi
    BY <1>1, <2>1 DEF Thread, Climbs
  <2>. QED BY <1>1, <2>1, <2>2 DEF Thread, Climbs
<1>3. /\ p.screen \in Seq(Nat) /\ p.join.at \in Nat /\ p.anchor.n \in Nat /\ p.anchor.e \in Nat
      /\ s.base \in Nat /\ s.hi \in Nat /\ f.n \in Nat
  BY <1>1 DEF Runtimes, Anchors, Joined, Sessions, Frames
<1>4. CASE f.k = "attached"
  <2>1. r.screen = p.screen /\ r.anchor = p.anchor
    BY <1>1, <1>4, TakenIs
  <2>2. r.join = p.join
    BY <1>1, <1>4, TakenJoin
  <2>. QED BY <2>1, <2>2
<1>5. CASE f.k \in Joins
  <2>1. r.screen = p.screen /\ r.anchor.e = f.e /\ r.anchor.n = f.n
    BY <1>1, <1>5, TakenIs DEF Joins
  <2>2. f.e = e /\ f.n <= s.hi
    BY <1>2, <1>3, <1>5 DEF Carries
  <2>3. CASE f.k = "exact"
    <3>1. r.join = p.join
      BY <1>1, <2>3, TakenJoin
    <3>2. f.e = p.anchor.e /\ f.n = p.anchor.n
      BY <2>3
    <3>. QED BY <2>1, <2>2, <3>1, <3>2 DEF r, f
  <2>4. CASE f.k \in {"tail", "reanchor"}
    <3>0. r.join = [at |-> f.n, lost |-> {}]
      BY <1>1, <2>4, TakenJoin
    <3>1. r.join.at = f.n
      <4>. HIDE DEF r, f
      <4>. QED BY <3>0
    <3>2. (s.base + f.n) + 1 .. s.base + f.n = {}
      BY <1>3
    <3>3. Full(r.screen, r.join.lost, s.base + f.n, s.base + f.n)
      BY <3>2 DEF Full
    <3>4. r.anchor.e = e /\ r.anchor.n = f.n
      BY <2>1, <2>2
    <3>5. Full(r.screen, r.join.lost, s.base + r.join.at, s.base + r.anchor.n)
      BY <3>1, <3>3, <3>4
    <3>. QED BY <2>2, <3>4, <3>5 DEF r, f
  <2>. QED BY <1>5, <2>3, <2>4 DEF Joins
<1>6. CASE f.k = "bytes"
  <2>1. p.counting /\ p.anchor.e = e /\ c[0] = s.base + p.anchor.n
    BY <1>1, <1>2, <1>6 DEF Knows, Joins
  <2>2. f.ps = Stretch(c[0], c[1]) /\ Len(f.ps) = c[1] - c[0]
    BY <1>2, StretchIs DEF Carries
  <2>3. /\ r.screen = p.screen \o f.ps /\ r.anchor.e = e
        /\ r.anchor.n = p.anchor.n + Len(f.ps)
    <3>1. r = Paint(p, f)
      BY <1>1, <1>6, TakenIs
    <3> DEFINE x == Paint(p, f)
    <3>2. /\ x.screen = p.screen \o f.ps /\ x.anchor.e = p.anchor.e
          /\ p.counting /\ p.anchor.e # 0 => x.anchor.n = p.anchor.n + Len(f.ps)
      BY <1>1, PaintIs
    <3>3. r = x
      BY <3>1
    <3>. HIDE DEF r, x
    <3>. QED BY <2>1, <3>2, <3>3
  <2>4. r.join = p.join
    BY <1>1, <1>6, TakenJoin
  <2>. HIDE DEF r, f
  <2>5. c[1] = s.base + r.anchor.n /\ r.anchor.n <= s.hi
    <3>1. r.anchor.n = p.anchor.n + (c[1] - c[0])
      BY <2>2, <2>3
    <3>2. /\ p.anchor.n \in Nat /\ s.base \in Nat /\ s.hi \in Nat /\ c[0] \in Nat
          /\ c[1] \in Nat /\ c[1] <= s.base + s.hi /\ c[0] = s.base + p.anchor.n
      BY <1>2, <1>3, <2>1
    <3>. QED BY <3>1, <3>2, CountsOn
  <2>6. Full(p.screen, p.join.lost, s.base + p.join.at, c[0]) /\ s.base + p.join.at \in Nat
    BY <1>3, <2>1
  <2>7. Full(p.screen \o Stretch(c[0], c[1]), p.join.lost, s.base + p.join.at, c[1])
    BY <1>2, <1>3, <2>6, FullGrows
  <2>8. Full(r.screen, r.join.lost, s.base + r.join.at, s.base + r.anchor.n)
    BY <2>2, <2>3, <2>4, <2>5, <2>7
  <2>. QED BY <2>3, <2>5, <2>8 DEF r, f
<1>. QED BY <1>1, <1>4, <1>5, <1>6 DEF Frames

\* The transport takes a frame.
LEMMA ReceiveKeeps ==
    ASSUME Invariant, Queued, Invariant', AnchorInvariant, NEW v \in Panes, Receive(v)
    PROVE  AnchorInvariant'
<1>. USE DEF Invariant
<1> DEFINE p == pane[v]
           q == chan[v]
           f == Head(q)
           e == ws[v].id
<1>1. /\ ws[v].st = "attached" /\ e \in Epochs /\ e <= made /\ e \in Nat \ {0}
      /\ p \in Runtimes /\ q \in Seq(Frames) /\ q # <<>> /\ f \in Frames /\ f = q[1]
      /\ 1 \in 1 .. Len(q) /\ sess[e] \in Sessions
      /\ UNCHANGED <<sess, made, stored>>
  <2>1. ws[v].st = "attached" /\ q # <<>> /\ UNCHANGED <<sess, made, stored>>
    BY DEF Receive
  <2>2. p \in Runtimes /\ q \in Seq(Frames)
    BY DEF Shaped
  <2>3. 1 \in 1 .. Len(q) /\ f \in Frames /\ f = q[1]
    BY <2>1, <2>2, LenProperties, EmptySeq, HeadTailProperties
  <2>4. e \in Epochs /\ e <= made
    BY <2>1, Placing
  <2>5. e \in Nat \ {0}
    BY <2>4 DEF Epochs
  <2>. QED BY <2>1, <2>2, <2>3, <2>4, <2>5 DEF Shaped
<1>2. /\ \A u \in Panes : u # v => pane'[u] = pane[u] /\ chan'[u] = chan[u] /\ ws'[u] = ws[u]
      /\ Taken(p, f) \in Runtimes /\ Trimmed(Taken(p, f), pane'[v])
      /\ f.k = "exit" => pane'[v] = Taken(p, f) /\ ws'[v] = NoWs
      /\ f.k # "exit" => ws'[v] = ws[v] /\ chan'[v] = Tail(q)
  <2>1. /\ f.k = "exit" => ws' = [ws EXCEPT ![v] = NoWs] /\ chan' = [chan EXCEPT ![v] = <<>>]
        /\ f.k # "exit" => ws' = ws /\ chan' = [chan EXCEPT ![v] = Tail(q)]
    BY DEF Receive
  <2> DEFINE r == Taken(p, f)
  <2>2. /\ pane' = [pane EXCEPT ![v] = pane'[v]] /\ r \in Runtimes /\ Trimmed(r, pane'[v])
        /\ f.k = "exit" => pane'[v] = r
    BY Received
  <2>. HIDE DEF r
  <2>3. \A u \in Panes : u # v => pane'[u] = pane[u] /\ chan'[u] = chan[u] /\ ws'[u] = ws[u]
    BY <2>1, <2>2 DEF Shaped
  <2>4. /\ f.k = "exit" => ws'[v] = NoWs
        /\ f.k # "exit" => ws'[v] = ws[v] /\ chan'[v] = Tail(q)
    BY <2>1 DEF Shaped
  <2>. QED BY <2>2, <2>3, <2>4 DEF r
<1>3. Moves
  <2>1. \A u \in Panes : ws'[u] = ws[u] \/ ws'[u].st = "none"
    BY <1>2, Blanks
  <2>. QED BY <1>1, <2>1, MovesNot
<1>4. CASE f.k = "exit"
  <2> DEFINE r == Taken(p, f)
  <2>1. /\ r.screen = p.screen /\ r.join = p.join
        /\ r.anchor = p.anchor \/ r.anchor.e = 0
    BY <1>1, <1>4, TakenIs, TakenJoin, Blanks
  <2>. HIDE DEF r
  <2>2. pane'[v] = r
    BY <1>2, <1>4 DEF r
  <2>3. \A u \in Panes :
           \/ /\ pane'[u].screen = pane[u].screen /\ pane'[u].anchor = pane[u].anchor
              /\ pane'[u].join = pane[u].join
           \/ pane'[u].anchor.e = 0
    BY <1>2, <2>1, <2>2
  <2>4. \A u \in Panes : ws'[u].st = "attached" =>
            /\ ws[u].st = "attached" /\ chan'[u] = chan[u] /\ pane'[u].anchor = pane[u].anchor
    BY <1>2, <1>4, Blanks
  <2>. QED BY <1>1, <1>3, <2>3, <2>4, SocketsKeep
<1>5. CASE f.k # "exit"
  <2> DEFINE r == Taken(p, f)
             s == sess[e]
  <2>1. PICK c \in [0 .. Len(q) -> Nat] : Thread(q, c, p, e, s)
    BY <1>1 DEF Threaded, OnThread
  <2>2. f.k = "exact" => f.e = p.anchor.e /\ f.n = p.anchor.n
    BY <1>1 DEF AnchorInvariant, Matching
  <2>3. p.anchor.e = e => /\ Full(p.screen, p.join.lost, s.base + p.join.at, s.base + p.anchor.n)
                          /\ p.anchor.n <= s.hi
    <3>1. e \in Live
      BY <1>1 DEF Live
    <3>2. Kept(p.screen, p.anchor, p.join, sess, Live)
      BY DEF AnchorInvariant, Complete
    <3>. QED BY <1>1, <3>1, <3>2 DEF Kept
  <2>4. \/ r.screen = p.screen /\ r.anchor = p.anchor /\ r.join = p.join
        \/ /\ r.anchor.e = e /\ r.anchor.n <= s.hi
           /\ Full(r.screen, r.join.lost, s.base + r.join.at, s.base + r.anchor.n)
    BY <1>1, <1>5, <2>1, <2>2, <2>3, TakenFull
  <2>5. f.k = "attached" => r.anchor = p.anchor
    BY <1>1, TakenIs
  <2>. HIDE DEF r
  <2>6. r \in Runtimes /\ Trimmed(r, pane'[v]) /\ pane'[v].anchor = r.anchor
    BY <1>2 DEF r, Trimmed
  <2>7. \A u \in Panes :
           \/ /\ pane'[u].screen = pane[u].screen /\ pane'[u].anchor = pane[u].anchor
              /\ pane'[u].join = pane[u].join
           \/ Kept(pane'[u].screen, pane'[u].anchor, pane'[u].join, sess', Live')
    <3>1. Kept(r.screen, r.anchor, r.join, sess', Live')
      <4>1. CASE r.screen = p.screen /\ r.anchor = p.anchor /\ r.join = p.join
        <5>1. Kept(p.screen, p.anchor, p.join, sess, Live)
          BY DEF AnchorInvariant, Complete
        <5>2. p.anchor \in Anchors /\ p.join \in Joined /\ (p.anchor.e # 0 => p.anchor.e <= made)
          BY AnchorOf
        <5>3. Kept(p.screen, p.anchor, p.join, sess', Live')
          BY <1>3, <5>1, <5>2, KeptStays
        <5>. QED BY <4>1, <5>3
      <4>2. CASE /\ r.anchor.e = e /\ r.anchor.n <= s.hi
                 /\ Full(r.screen, r.join.lost, s.base + r.join.at, s.base + r.anchor.n)
        BY <1>1, <4>2 DEF Kept
      <4>. QED BY <2>4, <4>1, <4>2
    <3>2. r.anchor.e # 0 => r.anchor.e \in Epochs
      <4>1. p.anchor \in Anchors /\ (p.anchor.e # 0 => p.anchor.e <= made)
        BY AnchorOf
      <4>2. p.anchor.e # 0 => p.anchor.e \in Epochs
        BY <4>1, Numbers, BoundsAssumption DEF Anchors, Epochs
      <4>. QED BY <1>1, <2>4, <4>2
    <3>3. sess' \in [Epochs -> Sessions]
      BY <1>1 DEF Shaped
    <3>4. Kept(pane'[v].screen, pane'[v].anchor, pane'[v].join, sess', Live')
      BY <2>6, <3>1, <3>2, <3>3, KeptTrims
    <3>. QED BY <1>2, <3>4
  <2>8. Complete'
    BY <1>1, <1>3, <2>7, CompleteStays DEF AnchorInvariant
  <2>9. ASSUME NEW k \in 1 .. Len(chan'[v]), chan'[v][k].k = "exact"
        PROVE  chan'[v][k].e = pane'[v].anchor.e /\ chan'[v][k].n = pane'[v].anchor.n
    <3>1. chan'[v] = Tail(q)
      BY <1>2, <1>5
    <3>2. k \in Nat \ {0} /\ k + 1 \in 1 .. Len(q) /\ chan'[v][k] = q[k + 1]
      BY <1>1, <2>9, <3>1, LenProperties, HeadTailProperties
    <3>3. q[1].k = "attached"
      <4>1. Ordered(q)
        BY <2>1 DEF Thread
      <4>2. q[k + 1].k \in Joins /\ 1 \in 1 .. (k + 1) - 1
        BY <2>9, <3>2 DEF Joins
      <4>. QED BY <3>2, <4>1, <4>2 DEF Ordered
    <3>4. pane'[v].anchor = p.anchor
      BY <1>1, <2>5, <2>6, <3>3
    <3>5. q[k + 1].e = p.anchor.e /\ q[k + 1].n = p.anchor.n
      BY <1>1, <2>9, <3>2 DEF AnchorInvariant, Matching
    <3>. QED BY <3>2, <3>4, <3>5
  <2>10. Matching'
    <3>1. \A u \in Panes : u # v => /\ ws'[u] = ws[u] /\ chan'[u] = chan[u]
                                    /\ pane'[u].anchor = pane[u].anchor
      BY <1>2
    <3>. QED BY <2>9, <3>1, MatchingStays DEF AnchorInvariant
  <2>. QED BY <2>8, <2>10 DEF AnchorInvariant
<1>. QED BY <1>4, <1>5

\* Some of the queue leaves it.
LEMMA FlushKeeps ==
    ASSUME Invariant, Queued, Invariant', AnchorInvariant, NEW v \in Panes,
           Flush(v) \/ BatchLost(v)
    PROVE  AnchorInvariant'
<1>. USE DEF Invariant
<1>1. PICK r : /\ Trimmed(pane[v], r) /\ pane' = [pane EXCEPT ![v] = r]
               /\ UNCHANGED <<out, shell, wire, sess, made, current, ws, chan, stored>>
  BY FlushTrims
<1>2. /\ pane'[v] = r /\ \A u \in Panes : u # v => pane'[u] = pane[u]
      /\ pane[v] \in Runtimes /\ r.anchor = pane[v].anchor
  BY <1>1 DEF Shaped, Trimmed
<1>3. Live' = Live
  BY <1>1 DEF Live
<1>4. Kept(r.screen, r.anchor, r.join, sess, Live)
  <2>1. Kept(pane[v].screen, pane[v].anchor, pane[v].join, sess, Live)
    BY DEF AnchorInvariant, Complete
  <2>2. pane[v].anchor.e # 0 => pane[v].anchor.e \in Epochs
    BY AnchorOf, Numbers, BoundsAssumption DEF Anchors, Epochs
  <2>. QED BY <1>1, <1>2, <2>1, <2>2, KeptTrims DEF Shaped
<1>5. Complete'
  BY <1>1, <1>2, <1>3, <1>4 DEF AnchorInvariant, Complete
<1>6. Matching'
  BY <1>1, <1>2 DEF AnchorInvariant, Matching
<1>. QED BY <1>5, <1>6 DEF AnchorInvariant

-------------------------------------------------------------------------------
(* The start, and the theorem.                                                  *)

\* No anchor at the start.
LEMMA AnchorInit ==
    ASSUME Init
    PROVE  AnchorInvariant
<1>1. \A v \in Panes : pane[v].anchor = NoAnchor /\ ws[v] = NoWs
  BY DEF Init, FreshPane
<1>2. stored = NoStored
  BY DEF Init
<1>. QED BY <1>1, <1>2, Blanks DEF AnchorInvariant, Complete, Kept, Matching

\* Every step keeps it.
LEMMA AnchorStep ==
    ASSUME Invariant, Queued, Invariant', AnchorInvariant, [Next]_vars
    PROVE  AnchorInvariant'
<1>1. CASE Write \/ ShellExits \/ HeadlessCall \/ UNCHANGED vars
  BY <1>1, QuietKeeps
<1>2. CASE Subscribe \/ DeliverOutput \/ DeliverExit \/ \E e \in Epochs : Settle(e) \/ Nudge(e)
  BY <1>2, FeedKeeps
<1>3. CASE \E w \in Pursuers : Pursue(w)
  BY <1>3, InstallKeeps, DialKeeps DEF Pursue
<1>4. CASE \E v \in Panes : Dial(v) \/ Attach(v) \/ Receive(v)
  BY <1>4, DialKeeps, AttachKeeps, ReceiveKeeps
<1>5. CASE \E v \in Panes : Mount(v) \/ Drop(v)
  BY <1>5, MountKeeps, CloseKeeps
<1>6. CASE \E v \in Hideable : Detach(v) \/ Release(v)
  BY <1>6, CloseKeeps, BoundsAssumption
<1>7. CASE Reload \/ HostRestarts
  BY <1>7, AllCloseKeeps
<1>8. CASE DaemonLost
  BY <1>8, LostKeeps
<1>9. CASE \E v \in Panes : Flush(v) \/ BatchLost(v)
  BY <1>9, FlushKeeps
<1>. QED BY <1>1, <1>2, <1>3, <1>4, <1>5, <1>6, <1>7, <1>8, <1>9 DEF Next

\* Whatever closes, moves, respawns or reloads, the anchor a pane dials with and
\* the one persisted beside its snapshot describe the buffer they belong to: from
\* where the pane joined up to the anchor it lacks nothing but what the write
\* coalescer dropped or xterm refused, and it has nothing beyond
\* (terminal-seq-anchor.ts, write-coalescer.ts, Registry.detach, release and mount).
THEOREM AnchorsDescribe == Spec => []AnchorDescribesBuffer
<1>1. Init => AnchorInvariant
  BY AnchorInit
<1>2. Invariant /\ Queued /\ Invariant' /\ AnchorInvariant /\ [Next]_vars => AnchorInvariant'
  BY AnchorStep
<1>3. Invariant /\ AnchorInvariant => AnchorDescribesBuffer
  <2>. SUFFICES ASSUME Invariant, AnchorInvariant PROVE AnchorDescribesBuffer
    OBVIOUS
  <2>1. ASSUME NEW buf \in Seq(Nat), NEW a \in Anchors, NEW j \in Joined, a.e # 0,
               Kept(buf, a, j, sess, Live), Reached(buf, a, made, sess)
        PROVE  Covers(buf, a, j)
    <3>1. Full(buf, j.lost, sess[a.e].base + j.at, sess[a.e].base + a.n)
      BY <2>1 DEF Kept
    <3>2. Below(buf, sess[a.e].base + a.n)
      BY <2>1 DEF Reached
    <3>. QED BY <3>1, <3>2 DEF Covers, Position, Full, Below
  <2>2. \A v \in Panes : /\ Kept(pane[v].screen, pane[v].anchor, pane[v].join, sess, Live)
                         /\ Reached(pane[v].screen, pane[v].anchor, made, sess)
    BY DEF AnchorInvariant, Complete, Invariant, Anchored
  <2>3. /\ Kept(stored.buf, stored.anchor, stored.join, sess, Live)
        /\ Reached(stored.buf, stored.anchor, made, sess)
    BY DEF AnchorInvariant, Complete, Invariant, Anchored
  <2>. QED BY <2>1, <2>2, <2>3, AnchorOf DEF AnchorDescribesBuffer
<1>. QED BY <1>1, <1>2, <1>3, InvariantsHold, PTL DEF Spec
=============================================================================

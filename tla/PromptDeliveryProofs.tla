------------------------ MODULE PromptDeliveryProofs ------------------------
(***************************************************************************)
(* Proofs about PromptDelivery and its session, for any number of prompts, *)
(* attempts and concurrent flushes and any plan of mishaps: no prompt is   *)
(* given to the agent twice; each is served in the order of the journal    *)
(* and shown under its own turn; one turn is with the agent at a time.     *)
(*                                                                         *)
(* The first argument, HandedOnce: what the live session was handed, and   *)
(* whether it waits in the queue or has been given on, has a receipt, and  *)
(* commands.prompt hands over what has none; handing over and recording    *)
(* are one step of the host.  A prompt leaves the queue as it is given on. *)
(*                                                                         *)
(* The second, SessionInvariant: while the session serves, the turn that   *)
(* was asked for last is at one place (Placed: with the adapter, asked     *)
(* for, at work, its end on the pipe, its end in the EventQueue, nowhere), *)
(* whatever else the pipe and the queue hold is no turn's beginning and no *)
(* other turn's end, and a prompt that waits for a turn is that turn's.    *)
(* Steps that another actor takes move the turn from one place to the next.*)
(***************************************************************************)
EXTENDS PromptDelivery, SequenceTheorems, FiniteSetTheorems, TLAPS

Fields == {"live", "stopped", "queue", "awaiting", "turn", "status"}

\* session is a record of these fields.
Shaped == session = [x \in Fields |-> session[x]]

\* Mutually distinct, and none of the queue given on before.
Distinct(queue, on) ==
    /\ \A i, j \in 1 .. Len(queue) : queue[i] = queue[j] => i = j
    /\ \A i, j \in 1 .. Len(on) : on[i] = on[j] => i = j
    /\ \A i \in 1 .. Len(queue), j \in 1 .. Len(on) : queue[i] # on[j]

\* The inductive invariant.
HandedOnce ==
    /\ session.queue \in Seq(receipts) /\ given \in Seq(receipts)
    /\ Distinct(session.queue, given)

Invariant == Shaped /\ ("receipt" \in met \/ HandedOnce)

-----------------------------------------------------------------------------
(* The queue and what was given, as sequences. *)

\* A prompt without a receipt is none of those handed over.
LEMMA Fresh ==
    ASSUME HandedOnce, NEW p, p \notin receipts
    PROVE  /\ \A i \in 1 .. Len(session.queue) : session.queue[i] # p
           /\ \A i \in 1 .. Len(given) : given[i] # p
BY ElementOfSeq DEF HandedOnce

\* What has more receipts still has them all.
LEMMA MoreReceipts ==
    ASSUME NEW R, NEW p, NEW s \in Seq(R)
    PROVE  s \in Seq(R \cup {p})
BY SeqMonotonic

\* The queue takes a fresh prompt, or it is given on.
LEMMA PromptKeeps ==
    ASSUME Shaped, HandedOnce, NEW p, p \notin receipts, Prompt(p),
           receipts' = receipts \cup {p}
    PROVE  Shaped' /\ HandedOnce'
<1>. DEFINE q == session.queue
<1>1. /\ q \in Seq(receipts') /\ given \in Seq(receipts') /\ Distinct(q, given)
  BY MoreReceipts DEF HandedOnce
<1>2. /\ \A i \in 1 .. Len(q) : q[i] # p
      /\ \A i \in 1 .. Len(given) : given[i] # p
  BY Fresh
<1>3. CASE Busy(session)
  <2>1. session' = [session EXCEPT !.queue = Append(@, p)] /\ given' = given
    BY <1>3 DEF Prompt
  <2>2. Shaped' /\ session'.queue = Append(q, p)
    BY <2>1 DEF Shaped, Fields
  <2>3. Append(q, p) \in Seq(receipts') /\ Distinct(Append(q, p), given)
    BY <1>1, <1>2 DEF Distinct
  <2>. QED BY <1>1, <2>1, <2>2, <2>3 DEF HandedOnce
<1>4. CASE ~Busy(session)
  <2>1. session' = [session EXCEPT !.awaiting = p] /\ given' = Append(given, p)
    BY <1>4 DEF Prompt, Deliver
  <2>2. Shaped' /\ session'.queue = q
    BY <2>1 DEF Shaped, Fields
  <2>3. Append(given, p) \in Seq(receipts') /\ Distinct(q, Append(given, p))
    BY <1>1, <1>2 DEF Distinct
  <2>. QED BY <1>1, <2>1, <2>2, <2>3 DEF HandedOnce
<1>. QED BY <1>3, <1>4

\* The head of the queue is given on.
LEMMA ServeKeeps ==
    ASSUME HandedOnce, session.queue # <<>>, receipts' = receipts,
           session'.queue = Tail(session.queue),
           given' = Append(given, Head(session.queue))
    PROVE  HandedOnce'
<1>. DEFINE q == session.queue
<1>1. q \in Seq(receipts) /\ q # <<>> /\ given \in Seq(receipts) /\ Distinct(q, given)
  BY DEF HandedOnce
<1>. HIDE DEF q
<1>2. /\ Tail(q) \in Seq(receipts) /\ Len(Tail(q)) = Len(q) - 1
      /\ \A i \in 1 .. Len(Tail(q)) : Tail(q)[i] = q[i + 1]
      /\ Head(q) = q[1] /\ Head(q) \in receipts /\ Len(q) \in Nat \ {0}
  BY <1>1
<1>3. Append(given, Head(q)) \in Seq(receipts)
  BY <1>1, <1>2
<1>4. Distinct(Tail(q), Append(given, Head(q)))
  <2>. DEFINE on == Append(given, Head(q))
  <2>1. /\ Len(on) = Len(given) + 1 /\ Len(given) \in Nat
        /\ \A i \in 1 .. Len(given) : on[i] = given[i]
        /\ on[Len(given) + 1] = q[1]
    BY <1>1, <1>2
  <2>. HIDE DEF on
  <2>2. \A i, j \in 1 .. Len(Tail(q)) : Tail(q)[i] = Tail(q)[j] => i = j
    BY <1>1, <1>2 DEF Distinct
  <2>3. \A i, j \in 1 .. Len(on) : on[i] = on[j] => i = j
    BY <1>1, <1>2, <2>1 DEF Distinct
  <2>4. \A i \in 1 .. Len(Tail(q)), j \in 1 .. Len(on) : Tail(q)[i] # on[j]
    BY <1>1, <1>2, <2>1 DEF Distinct
  <2>. QED BY <2>2, <2>3, <2>4 DEF Distinct, on
<1>. QED BY <1>3, <1>4, <1>2 DEF HandedOnce, q

\* The queue is kept or dropped.
LEMMA KeptOrDropped ==
    ASSUME HandedOnce, receipts' = receipts, given' = given,
           session'.queue = session.queue \/ session'.queue = <<>>
    PROVE  HandedOnce'
<1>1. CASE session'.queue = session.queue
  BY <1>1 DEF HandedOnce, Distinct
<1>2. CASE session'.queue = <<>>
  <2>1. session'.queue \in Seq(receipts') /\ given' \in Seq(receipts')
    BY <1>2 DEF HandedOnce
  <2>2. Len(session'.queue) = 0
    BY <1>2
  <2>3. \A i, j \in 1 .. Len(given') : given'[i] = given'[j] => i = j
    BY DEF HandedOnce, Distinct
  <2>4. 1 .. 0 = {}
    OBVIOUS
  <2>. QED BY <2>1, <2>2, <2>3, <2>4 DEF HandedOnce, Distinct
<1>. QED BY <1>1, <1>2

-----------------------------------------------------------------------------
(* The steps of the live session and its agent. *)

\* A step that gives nothing on and takes nothing in.
Passive ==
    /\ Shaped' /\ given' = given
    /\ session'.queue = session.queue \/ session'.queue = <<>>

LEMMA HandleTurnEndsStep ==
    ASSUME Shaped, HandleTurnEnds
    PROVE  \/ Passive
           \/ /\ Shaped' /\ session.queue # <<>>
              /\ session'.queue = Tail(session.queue)
              /\ given' = Append(given, Head(session.queue))
<1>1. CASE session.queue = <<>>
  <2>1. session' = [session EXCEPT !.turn = [id |-> Event.turn, run |-> Event.run]]
        /\ given' = given
    BY <1>1 DEF HandleTurnEnds, Seen
  <2>. QED BY <2>1 DEF Passive, Shaped, Fields
<1>2. CASE session.queue # <<>>
  <2>. DEFINE h == Head(session.queue)  t == Tail(session.queue)
              s == [session EXCEPT !.turn = [id |-> Event.turn, run |-> Event.run]]
  <2>1. Deliver(h, [s EXCEPT !.queue = Tail(@)], Popped)
    BY <1>2 DEF HandleTurnEnds, Seen
  <2>2. session' = [[s EXCEPT !.queue = Tail(@)] EXCEPT !.awaiting = h]
        /\ given' = Append(given, h)
    BY <2>1 DEF Deliver
  <2>3. s = [x \in Fields |-> s[x]] /\ s.queue = session.queue
    BY DEF Shaped, Fields
  <2>. HIDE DEF s, h
  <2>4. session'.queue = t /\ Shaped'
    BY <2>2, <2>3 DEF Shaped, Fields
  <2>. QED BY <1>2, <2>2, <2>4 DEF h
<1>. QED BY <1>1, <1>2

LEMMA PassiveStep ==
    ASSUME Shaped,
           \/ HandleTurnRuns \/ HandleSession \/ PumpFails
           \/ UNCHANGED <<session, given>> \/ HostDies
    PROVE  Passive
<1>1. CASE HandleTurnRuns
  BY <1>1 DEF HandleTurnRuns, Seen, Passive, Shaped, Fields
<1>2. CASE HandleSession
  BY <1>2 DEF HandleSession, Passive, Shaped, Fields
<1>3. CASE PumpFails
  <2>. DEFINE s == IF Event.kind = "turn" THEN Seen
                   ELSE [session EXCEPT !.status = Merged(session)]
  <2>1. s = [x \in Fields |-> s[x]]
    BY DEF Seen, Shaped, Fields
  <2>2. PICK status : session' = [s EXCEPT !.stopped = TRUE, !.queue = <<>>,
                                    !.awaiting = None, !.status = status]
    BY <1>3 DEF PumpFails
  <2>3. given' = given
    BY <1>3 DEF PumpFails
  <2>. HIDE DEF s
  <2>. QED BY <2>1, <2>2, <2>3 DEF Passive, Shaped, Fields
<1>4. CASE UNCHANGED <<session, given>>
  BY <1>4 DEF Passive, Shaped
<1>5. CASE HostDies
  BY <1>5 DEF HostDies, Passive, Shaped, Fields
<1>. QED BY <1>1, <1>2, <1>3, <1>4, <1>5

LEMMA SessionStep ==
    ASSUME Invariant, SessionNext, UNCHANGED deliveryVars
    PROVE  Invariant'
<1>1. receipts' = receipts
  BY DEF deliveryVars
<1>2. "receipt" \in met => "receipt" \in met'
  BY DEF SessionNext, Pump, Resumes, TakesTurns, Obeys, HandleTurnRuns, HandleTurnEnds,
     HandleSession, PumpFails, Boots, BootFails, AgentExits, TurnStartReturns, Receive,
     AgentStarts, AgentRejects, AgentReports, AgentEnds, AgentStops, Meets, Ordinary
<1>3. \/ HandleTurnEnds \/ HandleTurnRuns \/ HandleSession \/ PumpFails
      \/ UNCHANGED <<session, given>>
  BY DEF SessionNext, Pump, Resumes, TakesTurns, Obeys, Boots, BootFails, AgentExits,
     TurnStartReturns, Receive, AgentStarts, AgentRejects, AgentReports, AgentEnds,
     AgentStops
<1>4. \/ Passive
      \/ /\ Shaped' /\ session.queue # <<>>
         /\ session'.queue = Tail(session.queue)
         /\ given' = Append(given, Head(session.queue))
  BY <1>3, HandleTurnEndsStep, PassiveStep DEF Invariant
<1>. QED BY <1>1, <1>2, <1>4, ServeKeeps, KeptOrDropped DEF Invariant, Passive

-----------------------------------------------------------------------------
(* The steps of the pane and the handlers. *)

LEMMA HandlePromptStep ==
    ASSUME Invariant, NEW f \in Flushes, HandlePrompt(f)
    PROVE  Invariant'
<1>. DEFINE p == Sending(f)
<1>1. CASE p \notin receipts /\ session.live
  <2>1. Prompt(p) /\ receipts' = receipts \cup {p} /\ met' = met
    BY <1>1 DEF HandlePrompt, Record, Ordinary
  <2>2. Shaped'
    <3>1. \/ session' = [session EXCEPT !.queue = Append(@, p)]
          \/ session' = [session EXCEPT !.awaiting = p]
      BY <2>1 DEF Prompt, Deliver
    <3>. QED BY <3>1 DEF Invariant, Shaped, Fields
  <2>. HIDE DEF p
  <2>. QED BY <1>1, <2>1, <2>2, PromptKeeps DEF Invariant
<1>2. CASE p \in receipts \/ ~session.live
  <2>1. UNCHANGED <<sessionVars, receipts>>
    BY <1>2 DEF HandlePrompt
  <2>. QED BY <2>1 DEF sessionVars, coreVars, Invariant, Shaped, HandedOnce
<1>. QED BY <1>1, <1>2

\* Only a receipt that could not be written lets a prompt run again.
LEMMA ReceiptFailsStep ==
    ASSUME Invariant, NEW f \in Flushes, ReceiptFails(f)
    PROVE  Invariant'
<1>1. "receipt" \in met'
  BY DEF ReceiptFails, Meets
<1>2. PICK p : \/ session' = [session EXCEPT !.queue = Append(@, p)]
               \/ session' = [session EXCEPT !.awaiting = p]
  BY DEF ReceiptFails, Prompt, Deliver
<1>. QED BY <1>1, <1>2 DEF Invariant, Shaped, Fields

LEMMA CrashStep ==
    ASSUME Invariant, Crash
    PROVE  Invariant'
<1>1. Passive
  BY PassiveStep DEF Crash, Invariant
<1>2. receipts' = receipts /\ ("receipt" \in met => "receipt" \in met')
  BY DEF Crash, HostDies, Meets, deliveryVars
<1>. QED BY <1>1, <1>2, KeptOrDropped DEF Invariant, Passive

\* Steps that leave the session, what was given and the receipts alone.
LEMMA AsideStep ==
    ASSUME Invariant, UNCHANGED <<session, given, receipts>>,
           "receipt" \in met => "receipt" \in met'
    PROVE  Invariant'
BY DEF Invariant, Shaped, HandedOnce

\* No step breaks the invariant.
LEMMA NextStep ==
    ASSUME Invariant, [Next]_vars
    PROVE  Invariant'
<1>1. CASE UNCHANGED vars
  BY <1>1, AsideStep DEF vars, sessionVars, coreVars, deliveryVars
<1>2. CASE SendPrompt \/ Commit
  BY <1>2, AsideStep DEF SendPrompt, Commit, sessionVars, coreVars
<1>3. CASE \/ \E p \in Prompts : RetryPrompt(p) \/ DiscardPrompt(p)
           \/ \E t \in Turns : ClickCancel(t)
  BY <1>3, AsideStep DEF RetryPrompt, DiscardPrompt, ClickCancel, coreVars, Meets
<1>4. CASE \E t \in Turns : HandleCancel(t)
  BY <1>4, AsideStep DEF HandleCancel, CancelTurn, Ordinary, sessionVars, coreVars
<1>5. CASE \E f \in Flushes : Answer(f) \/ Lose(f)
  BY <1>5, AsideStep DEF Answer, Lose, Meets, sessionVars, coreVars
<1>. QED
  BY <1>1, <1>2, <1>3, <1>4, <1>5, HandlePromptStep, ReceiptFailsStep, CrashStep,
     SessionStep DEF Next

LEMMA InitHolds ==
    ASSUME Init
    PROVE  Invariant
<1>1. session.queue = <<>> /\ given = <<>> /\ Shaped
  BY DEF Init, SessionInit, Shaped, Fields
<1>. QED BY <1>1 DEF Invariant, HandedOnce, Distinct

\* The invariant holds in every reachable state.
THEOREM InvariantHolds == Spec => []Invariant
<1>1. Init => Invariant
  BY InitHolds
<1>2. Invariant /\ [Next]_vars => Invariant'
  BY NextStep
<1>. QED BY <1>1, <1>2, PTL DEF Spec

\* However often the outbox sends a prompt and whatever calls, answers and
\* processes are lost, the agent is given it once (commands.prompt behind
\* CommandDedupe, LiveSession.prompt and its queue).
THEOREM GivenOnce == Spec => []AtMostOnce
<1>1. Invariant => AtMostOnce
  BY DEF Invariant, HandedOnce, Distinct, AtMostOnce, IsInjective
<1>. QED BY <1>1, InvariantHolds, PTL

-----------------------------------------------------------------------------
(* The invariant of the session and its agent. *)

\* The turn asked for last.
Latest == Len(given)

Rows   == [kind : {"item", "turn"}, of : Nat, turn : Nat, flag : BOOLEAN]
Events == [kind : {"turn"}, turn : Nat, run : BOOLEAN, status : {"none"}]
          \cup [kind : {"session"}, turn : {None}, run : {FALSE}, status : {"idle", "dead"}]
Frames == [kind : {"response", "error", "usage", "started", "completed"}, turn : Nat]
States == [id : Nat, run : BOOLEAN]

Sessions == [live : BOOLEAN, stopped : BOOLEAN, queue : Seq(Prompts),
             awaiting : Prompts \cup {None}, turn : States,
             status : {"starting", "idle", "running", "dead"}]
Adapters == [boot : {"booting", "ready", "failed"}, inputs : Seq(Nat), starting : BOOLEAN,
             cancel : BOOLEAN, turn : States, settled : SUBSET Nat, resolved : SUBSET Nat,
             events : Seq(Events), closed : BOOLEAN]
Agents   == [asked : Seq(Nat), wire : Seq(Frames), active : Nat, stops : SUBSET Nat,
             cut : SUBSET Nat]

Records ==
    /\ session \in Sessions /\ adapter \in Adapters /\ agent \in Agents
    /\ journal \in Seq(Rows) /\ given \in Seq(Prompts)
    /\ plan \in Plans /\ met \in SUBSET plan.may

\* Nobody speaks of a turn that was not asked for.
Known ==
    /\ session.turn.id <= Latest
    /\ adapter.turn.id <= Latest /\ adapter.settled \subseteq 1 .. Latest
    /\ adapter.resolved \subseteq 1 .. Latest
    /\ \A k \in 1 .. Len(adapter.inputs) : adapter.inputs[k] \in 1 .. Latest
    /\ \A k \in 1 .. Len(adapter.events) : adapter.events[k].turn <= Latest
    /\ \A k \in 1 .. Len(agent.asked) : agent.asked[k] \in 1 .. Latest
    /\ \A k \in 1 .. Len(agent.wire) : agent.wire[k].turn \in 1 .. Latest
    /\ agent.active <= Latest /\ agent.cut \subseteq 1 .. Latest
    /\ \A k \in 1 .. Len(journal) : journal[k].turn <= Latest

Silent == agent.asked = <<>> /\ agent.wire = <<>> /\ agent.active = None

\* Who has not booted, has died or has been stopped is silent.
Lifecycle ==
    /\ adapter.closed => Silent
    /\ ~session.live => adapter.closed /\ adapter.inputs = <<>>
    /\ session.live /\ adapter.boot = "booting" => ~adapter.closed
    /\ adapter.boot # "ready" =>
          /\ Silent /\ adapter.resolved = {} /\ adapter.settled = {}
          /\ adapter.turn = NoTurn /\ ~adapter.starting /\ ~adapter.cancel

\* A turn that is starting, or to be cancelled at its start, is the latest.
Awaited ==
    adapter.starting \/ adapter.cancel =>
        Latest # 0 /\ Latest \notin adapter.settled \cup {adapter.turn.id}

IsTurn(e) == e.kind = "turn"
Runs(e)   == IsTurn(e) /\ e.turn = Latest /\ e.run
Ends(e)   == IsTurn(e) /\ e.turn = Latest /\ ~e.run

\* The session waits for a turn to begin or to end.
Open == session.awaiting # None \/ session.turn.run

NoTurns(from, to) == \A k \in from .. to : ~IsTurn(adapter.events[k])
OnlyRuns(to) == \A k \in 1 .. to : IsTurn(adapter.events[k]) => Runs(adapter.events[k])
Announced(to) == session.awaiting = None \/ \E k \in 1 .. to : Runs(adapter.events[k])

\* The adapter knows the latest turn as running, or reads it before frame k.
Begun(k) ==
    \/ adapter.turn = [id |-> Latest, run |-> TRUE]
    \/ \E j \in 1 .. k - 1 : agent.wire[j].kind = "started"

OnlyErrors == \A k \in 1 .. Len(agent.wire) : agent.wire[k].kind = "error"
OnlyLatest(to) ==
    \A k \in 1 .. to :
        /\ agent.wire[k].kind = "error" \/ agent.wire[k].turn = Latest
        /\ agent.wire[k].kind # "completed"
        /\ agent.wire[k].kind = "usage" => Begun(k)

\* Its end is the last the session is to hear of a turn.
EndComes ==
    \E m \in 1 .. Len(adapter.events) :
        /\ Ends(adapter.events[m]) /\ Announced(m - 1)
        /\ OnlyRuns(m - 1) /\ NoTurns(m + 1, Len(adapter.events))

\* Where the latest turn is: nowhere (none yet, over, or given up),
Nowhere ==
    /\ adapter.inputs = <<>> /\ agent.asked = <<>> /\ agent.active = None
    /\ OnlyErrors /\ OnlyRuns(Len(adapter.events))
    /\ \/ Open
       \/ /\ NoTurns(1, Len(adapter.events))
          /\ Latest = 0 \/ Latest \in adapter.settled \/ adapter.closed

\* with the adapter until the thread exists,
AtAdapter ==
    /\ adapter.inputs = <<Latest>> /\ adapter.boot # "ready"
    /\ NoTurns(1, Len(adapter.events)) /\ session.awaiting # None

\* on its way to the agent,
Asked ==
    /\ adapter.inputs = <<>> /\ agent.asked = <<Latest>> /\ agent.active = None
    /\ OnlyErrors /\ NoTurns(1, Len(adapter.events)) /\ session.awaiting # None
    /\ Latest \notin adapter.settled \cup adapter.resolved
    /\ adapter.turn # [id |-> Latest, run |-> TRUE]

\* at work, or its end on its way to the adapter,
UnderWay ==
    /\ adapter.inputs = <<>> /\ agent.asked = <<>>
    /\ OnlyRuns(Len(adapter.events)) /\ Latest \notin adapter.settled
    /\ adapter.turn = [id |-> Latest, run |-> TRUE] => Announced(Len(adapter.events))
    /\ Open

AtWork ==
    /\ UnderWay /\ agent.active = Latest /\ Latest # 0
    /\ OnlyLatest(Len(agent.wire)) /\ Begun(Len(agent.wire) + 1)

Completes ==
    /\ UnderWay /\ agent.active = None
    /\ agent.wire # <<>>
    /\ LET n == Len(agent.wire)
       IN  /\ agent.wire[n] = Frame("completed", Latest)
           /\ OnlyLatest(n - 1) /\ Begun(n)

\* or its end on its way to the session.
Ending ==
    /\ adapter.inputs = <<>> /\ agent.asked = <<>> /\ agent.active = None
    /\ OnlyErrors /\ Open /\ Latest \in adapter.settled /\ EndComes

Placed == Nowhere \/ AtAdapter \/ Asked \/ AtWork \/ Completes \/ Ending

Serving == session.live /\ ~session.stopped

Flow ==
    Serving =>
        /\ Placed
        /\ session.awaiting # None => Latest # 0 /\ given[Latest] = session.awaiting
        /\ \A t \in adapter.resolved : t = Latest \/ t \in adapter.settled \/ adapter.closed

\* The prompts handed to the session, in order, are those of the journal.
Handed == given \o session.queue
Journaled ==
    /\ Cardinality(Arrivals(Len(journal))) = Len(Handed)
    /\ \A n \in 1 .. Len(Handed) : \E k \in 1 .. Len(journal) :
          Arrived(n, k) /\ journal[k].of = Handed[n]

InOrder == (Serving => Journaled) /\ FirstComeFirstServed

Turnwise == Known /\ Lifecycle /\ Awaited

SessionInvariant ==
    /\ Records /\ Turnwise /\ Flow
    /\ InOrder /\ QueuedStillWaits /\ AttributedToOwnTurn

-----------------------------------------------------------------------------
(* Sequences. *)

\* What is left when the head has been taken.
LEMMA TailIs ==
    ASSUME NEW S, NEW s \in Seq(S), s # <<>>
    PROVE  /\ Len(s) \in Nat \ {0} /\ Head(s) = s[1] /\ s[1] \in S
           /\ Tail(s) \in Seq(S) /\ Len(Tail(s)) = Len(s) - 1
           /\ \A k \in 1 .. Len(s) - 1 : Tail(s)[k] = s[k + 1]
OBVIOUS

\* What there is when one more has come.
LEMMA AppendIs ==
    ASSUME NEW S, NEW s \in Seq(S), NEW x \in S
    PROVE  /\ Append(s, x) \in Seq(S) /\ Len(Append(s, x)) = Len(s) + 1 /\ Len(s) \in Nat
           /\ \A k \in 1 .. Len(s) : Append(s, x)[k] = s[k]
           /\ Append(s, x)[Len(s) + 1] = x
OBVIOUS

LEMMA TwoMore ==
    ASSUME NEW s \in Seq(Rows), NEW x \in Rows, NEW y \in Rows
    PROVE  s \o <<x>> \o <<y>> = Append(Append(s, x), y)
<1>1. s \o <<x>> = Append(s, x) /\ s \o <<x>> \in Seq(Rows)
  OBVIOUS
<1>. DEFINE t == s \o <<x>>
<1>2. t \in Seq(Rows)
  BY <1>1
<1>. HIDE DEF t
<1>3. t \o <<y>> = Append(t, y)
  BY <1>2
<1>. QED BY <1>1, <1>3 DEF t

-----------------------------------------------------------------------------
(* What the steps change. *)

LEMMA Constants == None = 0 /\ None \notin Prompts /\ Prompts \subseteq Nat
BY SessionBounds DEF None, Prompts

LEMMA SessionIs ==
    ASSUME NEW s \in Sessions
    PROVE  /\ s.live \in BOOLEAN /\ s.stopped \in BOOLEAN /\ s.queue \in Seq(Prompts)
           /\ s.awaiting \in Prompts \cup {None}
           /\ s.turn \in States /\ s.turn.id \in Nat /\ s.turn.run \in BOOLEAN
           /\ s.status \in {"starting", "idle", "running", "dead"}
BY DEF Sessions, States

LEMMA AwaitingIs ==
    ASSUME NEW s \in Sessions
    PROVE  s.awaiting \in Nat
<1>1. s.awaiting \in Prompts \cup {None}
  BY DEF Sessions
<1>2. Prompts \cup {None} \subseteq Nat
  BY Constants
<1>. QED BY <1>1, <1>2

LEMMA AdapterIs ==
    ASSUME NEW a \in Adapters
    PROVE  /\ a.boot \in {"booting", "ready", "failed"} /\ a.inputs \in Seq(Nat)
           /\ a.starting \in BOOLEAN /\ a.cancel \in BOOLEAN
           /\ a.turn \in States /\ a.turn.id \in Nat /\ a.turn.run \in BOOLEAN
           /\ a.settled \in SUBSET Nat /\ a.resolved \in SUBSET Nat
           /\ a.events \in Seq(Events) /\ a.closed \in BOOLEAN
BY DEF Adapters, States

LEMMA AgentIs ==
    ASSUME NEW g \in Agents
    PROVE  /\ g.asked \in Seq(Nat) /\ g.wire \in Seq(Frames) /\ g.active \in Nat
           /\ g.stops \in SUBSET Nat /\ g.cut \in SUBSET Nat
BY DEF Agents

\* An event reaches the queue unless it is closed.
LEMMA PushIs ==
    ASSUME NEW a \in Adapters, NEW e \in Events
    PROVE  /\ Push(a, e) \in Adapters
           /\ Push(a, e) = [a EXCEPT !.events = Push(a, e).events]
           /\ Push(a, e).events = IF a.closed THEN a.events ELSE Append(a.events, e)
BY AppendIs DEF Push, Adapters

\* emitTurnState() as a change of fields.
LEMMA EmitDoes ==
    ASSUME NEW t \in Nat, NEW run \in BOOLEAN, NEW a \in Adapters, NEW g \in Agents,
           EmitTurnState(t, run, a, g)
    PROVE  \/ run /\ t \in a.settled /\ adapter' = a /\ agent' = g
           \/ /\ ~(run /\ t \in a.settled)
              /\ adapter' \in Adapters /\ agent' \in Agents
              /\ adapter'.boot = a.boot /\ adapter'.inputs = a.inputs
              /\ adapter'.resolved = a.resolved /\ adapter'.closed = a.closed
              /\ ~adapter'.starting /\ ~adapter'.cancel
              /\ adapter'.turn = [id |-> t, run |-> run]
              /\ adapter'.settled = (IF run THEN a.settled ELSE a.settled \cup {t})
              /\ adapter'.events = (IF a.closed THEN a.events
                                    ELSE Append(a.events, TurnEvent(t, run)))
              /\ agent'.asked = g.asked /\ agent'.wire = g.wire
              /\ agent'.active = g.active /\ agent'.cut = g.cut
<1>1. CASE run /\ t \in a.settled
  BY <1>1 DEF EmitTurnState
<1>2. CASE ~(run /\ t \in a.settled)
  <2> DEFINE b == Push(a, TurnEvent(t, run))
  <2>1. TurnEvent(t, run) \in Events
    BY DEF TurnEvent, Events
  <2>2. b \in Adapters /\ b = [a EXCEPT !.events = b.events]
        /\ b.events = IF a.closed THEN a.events ELSE Append(a.events, TurnEvent(t, run))
    BY <2>1, PushIs
  <2>3. adapter' = [b EXCEPT !.turn = [id |-> t, run |-> run],
                             !.settled = IF run THEN @ ELSE @ \cup {t},
                             !.starting = FALSE, !.cancel = FALSE]
    BY <1>2 DEF EmitTurnState, Emitted
  <2>. HIDE DEF b
  <2>4. [id |-> t, run |-> run] \in States
    BY DEF States
  <2>5. adapter' \in Adapters
    BY <2>2, <2>3, <2>4 DEF Adapters
  <2>6. agent' = g \/ agent' = [g EXCEPT !.stops = @ \cup {t}]
    BY <1>2 DEF EmitTurnState, Ask
  <2>7. /\ agent' \in Agents /\ agent'.asked = g.asked /\ agent'.wire = g.wire
        /\ agent'.active = g.active /\ agent'.cut = g.cut
    BY <2>6 DEF Agents
  <2>8. /\ b.boot = a.boot /\ b.inputs = a.inputs /\ b.resolved = a.resolved
        /\ b.closed = a.closed /\ b.settled = a.settled
    BY <2>2 DEF Adapters
  <2>. QED BY <1>2, <2>2, <2>3, <2>5, <2>7, <2>8 DEF Adapters
<1>. QED BY <1>1, <1>2

LEMMA HandleTurnRunsDoes ==
    ASSUME Records, HandleTurnRuns
    PROVE  /\ Serving /\ Records' /\ UNCHANGED <<agent, given>>
           /\ adapter.events # <<>> /\ IsTurn(adapter.events[1]) /\ adapter.events[1].run
           /\ adapter'.events = Tail(adapter.events)
           /\ /\ adapter'.boot = adapter.boot /\ adapter'.inputs = adapter.inputs
              /\ adapter'.starting = adapter.starting /\ adapter'.cancel = adapter.cancel
              /\ adapter'.turn = adapter.turn /\ adapter'.settled = adapter.settled
              /\ adapter'.resolved = adapter.resolved /\ adapter'.closed = adapter.closed
           /\ session'.awaiting = None
           /\ session'.turn = [id |-> adapter.events[1].turn, run |-> TRUE]
           /\ /\ session'.live = session.live /\ session'.stopped = session.stopped
              /\ session'.queue = session.queue /\ session'.status = session.status
           /\ \/ session.awaiting = None
                 /\ journal' = Append(journal, TurnRow(adapter.events[1].turn, TRUE))
              \/ session.awaiting # None
                 /\ journal' = Append(Append(journal, TurnRow(adapter.events[1].turn, TRUE)),
                                Item(session.awaiting, adapter.events[1].turn, FALSE))
<1> DEFINE e == adapter.events[1]
<1>1. /\ adapter.events # <<>> /\ Event = e /\ e \in Events
      /\ Tail(adapter.events) \in Seq(Events)
  BY TailIs DEF Records, Adapters, HandleTurnRuns, Pumps, Event
<1>2. e.kind = "turn" /\ e.run = TRUE /\ e.turn \in Nat
  BY <1>1 DEF HandleTurnRuns, Events
<1>3. session' = [[session EXCEPT !.turn = [id |-> e.turn, run |-> TRUE]] EXCEPT !.awaiting = None]
  BY <1>1, <1>2 DEF HandleTurnRuns, Seen
<1>4. adapter' = [adapter EXCEPT !.events = Tail(@)]
  BY DEF HandleTurnRuns, Popped
<1>5. [id |-> e.turn, run |-> TRUE] \in States
  BY <1>2 DEF States
<1>6. session' \in Sessions /\ adapter' \in Adapters
  BY <1>1, <1>3, <1>4, <1>5 DEF Records, Sessions, Adapters
<1> DEFINE r == TurnRow(e.turn, TRUE)  i == Item(session.awaiting, e.turn, FALSE)
<1>7. r \in Rows /\ i \in Rows
  <2>1. session.awaiting \in Nat
    BY AwaitingIs DEF Records
  <2>. QED BY <1>2, <2>1 DEF TurnRow, Item, Rows
<1>8. journal' = journal \o <<r>> \o (IF session.awaiting = None THEN <<>> ELSE <<i>>)
  BY <1>1 DEF HandleTurnRuns
<1>9. journal \in Seq(Rows)
  BY DEF Records
<1>10. /\ session'.awaiting = None
       /\ session'.turn = [id |-> e.turn, run |-> TRUE]
       /\ /\ session'.live = session.live /\ session'.stopped = session.stopped
          /\ session'.queue = session.queue /\ session'.status = session.status
       /\ adapter'.events = Tail(adapter.events)
       /\ /\ adapter'.boot = adapter.boot /\ adapter'.inputs = adapter.inputs
          /\ adapter'.starting = adapter.starting /\ adapter'.cancel = adapter.cancel
          /\ adapter'.turn = adapter.turn /\ adapter'.settled = adapter.settled
          /\ adapter'.resolved = adapter.resolved /\ adapter'.closed = adapter.closed
  BY <1>3, <1>4 DEF Records, Sessions, Adapters
<1>11. Serving /\ IsTurn(e) /\ UNCHANGED <<agent, given, plan, met>>
  BY <1>2 DEF HandleTurnRuns, Pumps, Serving, IsTurn, Ordinary
<1>. HIDE DEF r, i
<1>12. /\ \/ session.awaiting = None /\ journal' = Append(journal, r)
          \/ session.awaiting # None /\ journal' = Append(Append(journal, r), i)
       /\ journal' \in Seq(Rows)
  <2>1. CASE session.awaiting = None
    <3>1. journal' = Append(journal, r)
      BY <1>7, <1>8, <1>9, <2>1
    <3>. QED BY <1>7, <1>9, <2>1, <3>1
  <2>2. CASE session.awaiting # None
    <3>1. journal' = journal \o <<r>> \o <<i>>
      <4>1. (IF session.awaiting = None THEN <<>> ELSE <<i>>) = <<i>>
        BY <2>2
      <4>. QED BY <1>8, <4>1
    <3>2. journal' = Append(Append(journal, r), i)
      BY <1>7, <1>9, <3>1, TwoMore, Zenon
    <3>. QED BY <1>7, <1>9, <2>2, <3>2
  <2>. QED BY <2>1, <2>2
<1>13. Records'
  BY <1>6, <1>11, <1>12 DEF Records
<1>. QED BY <1>1, <1>2, <1>10, <1>11, <1>12, <1>13 DEF r, i

\* A delivery as a change of fields.
LEMMA DeliverDoes ==
    ASSUME NEW p \in Prompts, NEW s \in Sessions, NEW a \in Adapters,
           agent \in Agents, given \in Seq(Prompts), Deliver(p, s, a)
    PROVE  /\ session' \in Sessions /\ adapter' \in Adapters /\ agent' \in Agents
           /\ session'.live = s.live /\ session'.stopped = s.stopped
           /\ session'.queue = s.queue /\ session'.turn = s.turn
           /\ session'.awaiting = p
           /\ given' = Append(given, p) /\ given' \in Seq(Prompts)
           /\ adapter'.boot = a.boot /\ adapter'.cancel = a.cancel
           /\ adapter'.turn = a.turn /\ adapter'.settled = a.settled
           /\ adapter'.resolved = a.resolved /\ adapter'.events = a.events
           /\ adapter'.closed = a.closed
           /\ /\ agent'.wire = agent.wire /\ agent'.active = agent.active
              /\ agent'.cut = agent.cut
           /\ adapter'.inputs = (IF a.boot # "ready" THEN Append(a.inputs, Latest + 1)
                                 ELSE a.inputs)
           /\ adapter'.starting = (a.starting \/ a.boot = "ready")
           /\ agent'.asked = (IF a.boot # "ready" \/ a.closed THEN agent.asked
                              ELSE Append(agent.asked, Latest + 1))
<1>1. session' = [s EXCEPT !.awaiting = p] /\ given' = Append(given, p)
  BY DEF Deliver
<1>2. session' \in Sessions /\ given' \in Seq(Prompts)
  BY <1>1 DEF Sessions
<1>3. /\ session'.live = s.live /\ session'.stopped = s.stopped
      /\ session'.queue = s.queue /\ session'.turn = s.turn
      /\ session'.awaiting = p
  BY <1>1 DEF Sessions
<1>. DEFINE t == Latest + 1
<1>4. t \in Nat /\ t = Len(given) + 1
  BY DEF Latest
<1>5. Append(a.inputs, t) \in Seq(Nat) /\ Append(agent.asked, t) \in Seq(Nat)
  BY <1>4, AdapterIs, AgentIs
<1>6. CASE a.boot # "ready"
  <2>1. adapter' = [a EXCEPT !.inputs = Append(@, t)] /\ agent' = agent
    BY <1>4, <1>6 DEF Deliver
  <2>. HIDE DEF t
  <2>2. adapter' \in Adapters
    BY <2>1, <1>5 DEF Adapters
  <2>. QED BY <2>1, <2>2, <1>1, <1>2, <1>3, <1>6 DEF Adapters, t
<1>7. CASE a.boot = "ready"
  <2>1. adapter' = [a EXCEPT !.starting = TRUE]
        /\ agent' = IF a.closed THEN agent ELSE [agent EXCEPT !.asked = Append(@, t)]
    BY <1>4, <1>7 DEF Deliver
  <2>. HIDE DEF t
  <2>2. adapter' \in Adapters /\ agent' \in Agents
    BY <2>1, <1>5 DEF Adapters, Agents
  <2>. QED BY <2>1, <2>2, <1>1, <1>2, <1>3, <1>7 DEF Adapters, Agents, t
<1>. QED BY <1>6, <1>7

LEMMA EventsAre ==
    ASSUME NEW e \in Events
    PROVE  e.turn \in Nat /\ e.run \in BOOLEAN
<1>1. CASE e.kind = "turn"
  BY <1>1 DEF Events
<1>2. CASE e.kind # "turn"
  <2>1. e \in [kind : {"session"}, turn : {None}, run : {FALSE}, status : {"idle", "dead"}]
    BY <1>2 DEF Events
  <2>2. e.turn = 0
    BY <2>1 DEF None
  <2>3. e.run \in BOOLEAN
    BY <2>1
  <2>. QED BY <2>2, <2>3
<1>. QED BY <1>1, <1>2

\* A row more.
LEMMA RowMore ==
    ASSUME NEW t \in Nat, NEW run \in BOOLEAN, journal \in Seq(Rows)
    PROVE  Append(journal, TurnRow(t, run)) \in Seq(Rows)
<1>1. TurnRow(t, run) \in Rows
  BY DEF TurnRow, Rows
<1>. HIDE DEF TurnRow
<1>. QED BY <1>1

\* The event that is taken from the queue.
LEMMA EventIs ==
    ASSUME Records, Pumps
    PROVE  /\ Serving /\ adapter.events # <<>> /\ Event = adapter.events[1]
           /\ adapter.events[1] \in Events /\ adapter.events[1].turn \in Nat
           /\ Popped \in Adapters
           /\ Popped.boot = adapter.boot /\ Popped.inputs = adapter.inputs
           /\ Popped.starting = adapter.starting /\ Popped.cancel = adapter.cancel
           /\ Popped.turn = adapter.turn /\ Popped.settled = adapter.settled
           /\ Popped.resolved = adapter.resolved /\ Popped.closed = adapter.closed
           /\ Popped.events = Tail(adapter.events)
           /\ Seen \in Sessions
           /\ Seen.turn = [id |-> adapter.events[1].turn, run |-> adapter.events[1].run]
           /\ Seen.live = session.live /\ Seen.stopped = session.stopped
           /\ Seen.queue = session.queue /\ Seen.awaiting = session.awaiting
           /\ Seen.status = session.status
<1>1. session \in Sessions /\ adapter \in Adapters /\ adapter.events \in Seq(Events)
  BY AdapterIs DEF Records
<1>2. adapter.events # <<>>
  BY DEF Pumps
<1>3. /\ Event = adapter.events[1] /\ adapter.events[1] \in Events
      /\ Tail(adapter.events) \in Seq(Events)
  BY <1>1, <1>2, TailIs DEF Event
<1>4. adapter.events[1].turn \in Nat /\ adapter.events[1].run \in BOOLEAN
  BY <1>3, EventsAre
<1>5. [id |-> adapter.events[1].turn, run |-> adapter.events[1].run] \in States
  BY <1>4 DEF States
<1>6. Seen = [session EXCEPT !.turn = [id |-> adapter.events[1].turn,
                                        run |-> adapter.events[1].run]]
  BY <1>3 DEF Seen
<1>7. /\ Seen \in Sessions
      /\ Seen.turn = [id |-> adapter.events[1].turn, run |-> adapter.events[1].run]
      /\ Seen.live = session.live /\ Seen.stopped = session.stopped
      /\ Seen.queue = session.queue /\ Seen.awaiting = session.awaiting
      /\ Seen.status = session.status
  BY <1>1, <1>5, <1>6 DEF Sessions
<1>8. /\ Popped \in Adapters
      /\ Popped.boot = adapter.boot /\ Popped.inputs = adapter.inputs
      /\ Popped.starting = adapter.starting /\ Popped.cancel = adapter.cancel
      /\ Popped.turn = adapter.turn /\ Popped.settled = adapter.settled
      /\ Popped.resolved = adapter.resolved /\ Popped.closed = adapter.closed
      /\ Popped.events = Tail(adapter.events)
  BY <1>1, <1>3 DEF Popped, Adapters
<1>. QED BY <1>2, <1>3, <1>4, <1>7, <1>8 DEF Pumps, Serving

LEMMA HandleTurnEndsDoes ==
    ASSUME Records, HandleTurnEnds
    PROVE  /\ Serving /\ Records'
           /\ adapter.events # <<>> /\ IsTurn(adapter.events[1]) /\ ~adapter.events[1].run
           /\ adapter.events[1].turn \in Nat
           /\ adapter'.events = Tail(adapter.events)
           /\ /\ adapter'.boot = adapter.boot /\ adapter'.cancel = adapter.cancel
              /\ adapter'.turn = adapter.turn /\ adapter'.settled = adapter.settled
              /\ adapter'.resolved = adapter.resolved /\ adapter'.closed = adapter.closed
           /\ /\ agent'.wire = agent.wire /\ agent'.active = agent.active
              /\ agent'.cut = agent.cut
           /\ session'.turn = [id |-> adapter.events[1].turn, run |-> FALSE]
           /\ session'.live = session.live /\ session'.stopped = session.stopped
           /\ journal' = Append(journal, TurnRow(adapter.events[1].turn, FALSE))
           /\ \/ /\ session.queue = <<>> /\ session'.queue = <<>>
                 /\ session'.awaiting = session.awaiting /\ given' = given
                 /\ adapter'.inputs = adapter.inputs /\ adapter'.starting = adapter.starting
                 /\ agent'.asked = agent.asked
              \/ /\ session.queue # <<>> /\ session'.queue = Tail(session.queue)
                 /\ session.queue[1] \in Prompts
                 /\ session'.awaiting = session.queue[1]
                 /\ given' = Append(given, session.queue[1])
                 /\ adapter'.inputs =
                       (IF adapter.boot # "ready" THEN Append(adapter.inputs, Latest + 1)
                        ELSE adapter.inputs)
                 /\ adapter'.starting = (adapter.starting \/ adapter.boot = "ready")
                 /\ agent'.asked =
                       (IF adapter.boot # "ready" \/ adapter.closed THEN agent.asked
                        ELSE Append(agent.asked, Latest + 1))
<1>. DEFINE e == adapter.events[1]
<1>1. Pumps /\ Event.kind = "turn" /\ ~Event.run
  BY DEF HandleTurnEnds
<1>2. /\ Serving /\ adapter.events # <<>> /\ Event = e /\ e \in Events /\ e.turn \in Nat
      /\ Popped \in Adapters /\ Seen \in Sessions
  BY <1>1, EventIs
<1>3. journal' = Append(journal, TurnRow(e.turn, FALSE)) /\ UNCHANGED <<plan, met>>
  BY <1>2 DEF HandleTurnEnds, Ordinary
<1>4. journal' \in Seq(Rows)
  BY <1>2, <1>3, RowMore DEF Records
<1>5. journal' \in Seq(Rows) /\ plan' \in Plans /\ met' \in SUBSET plan'.may
  BY <1>3, <1>4 DEF Records
<1>6. IsTurn(e) /\ ~e.run /\ e.run = FALSE
  BY <1>1, <1>2 DEF IsTurn, Events
<1>7. Seen.turn = [id |-> e.turn, run |-> FALSE]
  BY <1>1, <1>6, EventIs
<1>8. session \in Sessions /\ adapter \in Adapters /\ agent \in Agents /\ given \in Seq(Prompts)
  BY DEF Records
<1>. HIDE DEF e
<1>9. CASE session.queue = <<>>
  <2>1. session' = Seen /\ adapter' = Popped /\ agent' = agent /\ given' = given
    BY <1>9 DEF HandleTurnEnds
  <2>2. Records'
    BY <1>2, <1>5, <1>8, <2>1 DEF Records
  <2>3. /\ adapter'.events = Tail(adapter.events)
        /\ /\ adapter'.boot = adapter.boot /\ adapter'.inputs = adapter.inputs
           /\ adapter'.starting = adapter.starting /\ adapter'.cancel = adapter.cancel
           /\ adapter'.turn = adapter.turn /\ adapter'.settled = adapter.settled
           /\ adapter'.resolved = adapter.resolved /\ adapter'.closed = adapter.closed
        /\ /\ session'.live = session.live /\ session'.stopped = session.stopped
           /\ session'.queue = session.queue /\ session'.awaiting = session.awaiting
           /\ session'.status = session.status
        /\ session'.turn = [id |-> e.turn, run |-> FALSE]
    BY <1>1, <1>7, <2>1, EventIs
  <2>. QED BY <1>2, <1>3, <1>6, <1>9, <2>1, <2>2, <2>3 DEF e
<1>10. CASE session.queue # <<>>
  <2>. DEFINE s == [Seen EXCEPT !.queue = Tail(@)]  h == Head(session.queue)
  <2>1. Deliver(h, s, Popped)
    BY <1>10 DEF HandleTurnEnds
  <2>2. h = session.queue[1] /\ h \in Prompts /\ Tail(session.queue) \in Seq(Prompts)
    BY <1>8, <1>10, SessionIs, TailIs
  <2>3. Seen.queue = session.queue /\ Seen.live = session.live /\ Seen.stopped = session.stopped
    BY <1>1, EventIs
  <2>4. /\ s \in Sessions /\ s.queue = Tail(session.queue)
        /\ s.live = session.live /\ s.stopped = session.stopped
        /\ s.turn = [id |-> e.turn, run |-> FALSE]
    BY <1>2, <1>7, <2>2, <2>3 DEF Sessions
  <2>. HIDE DEF s, h
  <2>5. /\ session' \in Sessions /\ adapter' \in Adapters /\ agent' \in Agents
        /\ given' \in Seq(Prompts)
    BY <1>2, <1>8, <2>1, <2>2, <2>4, DeliverDoes
  <2>6. Records'
    BY <1>5, <2>5 DEF Records
  <2>7. /\ session'.live = s.live /\ session'.stopped = s.stopped
        /\ session'.queue = s.queue /\ session'.turn = s.turn
        /\ session'.awaiting = h /\ given' = Append(given, h)
    BY <1>2, <1>8, <2>1, <2>2, <2>4, DeliverDoes
  <2>8. /\ adapter'.boot = Popped.boot /\ adapter'.cancel = Popped.cancel
        /\ adapter'.turn = Popped.turn /\ adapter'.settled = Popped.settled
        /\ adapter'.resolved = Popped.resolved /\ adapter'.events = Popped.events
        /\ adapter'.closed = Popped.closed
        /\ /\ agent'.wire = agent.wire /\ agent'.active = agent.active
           /\ agent'.cut = agent.cut
        /\ adapter'.inputs = (IF Popped.boot # "ready" THEN Append(Popped.inputs, Latest + 1)
                              ELSE Popped.inputs)
        /\ adapter'.starting = (Popped.starting \/ Popped.boot = "ready")
        /\ agent'.asked = (IF Popped.boot # "ready" \/ Popped.closed THEN agent.asked
                           ELSE Append(agent.asked, Latest + 1))
    BY <1>2, <1>8, <2>1, <2>2, <2>4, DeliverDoes
  <2>9. /\ adapter'.events = Tail(adapter.events)
        /\ /\ adapter'.boot = adapter.boot /\ adapter'.cancel = adapter.cancel
           /\ adapter'.turn = adapter.turn /\ adapter'.settled = adapter.settled
           /\ adapter'.resolved = adapter.resolved /\ adapter'.closed = adapter.closed
        /\ adapter'.inputs = (IF adapter.boot # "ready" THEN Append(adapter.inputs, Latest + 1)
                              ELSE adapter.inputs)
        /\ adapter'.starting = (adapter.starting \/ adapter.boot = "ready")
        /\ agent'.asked = (IF adapter.boot # "ready" \/ adapter.closed THEN agent.asked
                           ELSE Append(agent.asked, Latest + 1))
    BY <1>1, <2>8, EventIs
  <2>. QED BY <1>2, <1>3, <1>6, <1>10, <2>2, <2>4, <2>6, <2>7, <2>8, <2>9 DEF e
<1>. QED BY <1>9, <1>10

LEMMA HandleSessionDoes ==
    ASSUME Records, HandleSession
    PROVE  /\ Serving /\ Records' /\ UNCHANGED <<agent, journal, given>>
           /\ adapter.events # <<>> /\ adapter.events[1].kind = "session"
           /\ adapter'.events = Tail(adapter.events)
           /\ /\ adapter'.boot = adapter.boot /\ adapter'.inputs = adapter.inputs
              /\ adapter'.starting = adapter.starting /\ adapter'.cancel = adapter.cancel
              /\ adapter'.turn = adapter.turn /\ adapter'.settled = adapter.settled
              /\ adapter'.resolved = adapter.resolved /\ adapter'.closed = adapter.closed
           /\ /\ session'.live = session.live /\ session'.stopped = session.stopped
              /\ session'.queue = session.queue /\ session'.awaiting = session.awaiting
              /\ session'.turn = session.turn
<1>1. Pumps /\ Event.kind = "session" /\ adapter' = Popped
  BY DEF HandleSession
<1>2. Event = adapter.events[1] /\ Event \in Events /\ Popped \in Adapters
  BY <1>1, EventIs
<1>3. Event.status \in {"idle", "dead"}
  BY <1>1, <1>2 DEF Events
<1>4. Merged(session) \in {"running", "idle", "dead"}
  BY <1>3 DEF Merged
<1>5. session' = [session EXCEPT !.status = Merged(session)] /\ session \in Sessions
  BY DEF HandleSession, Records
<1>6. session' \in Sessions /\ /\ session'.live = session.live
                               /\ session'.stopped = session.stopped
                               /\ session'.queue = session.queue
                               /\ session'.awaiting = session.awaiting
                               /\ session'.turn = session.turn
  BY <1>4, <1>5 DEF Sessions
<1>7. Records'
  BY <1>1, <1>2, <1>6 DEF Records, HandleSession, Ordinary
<1>. QED BY <1>1, <1>2, <1>6, <1>7, EventIs DEF HandleSession

LEMMA PumpFailsDoes ==
    ASSUME Records, PumpFails
    PROVE  /\ Serving /\ Records' /\ UNCHANGED <<agent, given>>
           /\ adapter.events # <<>>
           /\ adapter'.events = Tail(adapter.events)
           /\ /\ adapter'.boot = adapter.boot /\ adapter'.inputs = adapter.inputs
              /\ adapter'.starting = adapter.starting /\ adapter'.cancel = adapter.cancel
              /\ adapter'.turn = adapter.turn /\ adapter'.settled = adapter.settled
              /\ adapter'.resolved = adapter.resolved /\ adapter'.closed = adapter.closed
           /\ session'.stopped /\ session'.live = session.live
           /\ session'.queue = <<>> /\ session'.awaiting = None
           /\ \/ session'.turn = session.turn
              \/ session'.turn = [id |-> adapter.events[1].turn, run |-> adapter.events[1].run]
           /\ \/ journal' = journal
              \/ /\ journal' = Append(journal, TurnRow(adapter.events[1].turn, TRUE))
                 /\ adapter.events[1].turn \in Nat
<1>. DEFINE e == adapter.events[1]
            s == IF Event.kind = "turn" THEN Seen
                 ELSE [session EXCEPT !.status = Merged(session)]
<1>1. Pumps /\ adapter' = Popped /\ UNCHANGED <<agent, given, plan>> /\ Meets("fail")
  BY DEF PumpFails, Meets
<1>2. Event = e /\ e \in Events /\ e.turn \in Nat /\ Popped \in Adapters /\ Seen \in Sessions
  BY <1>1, EventIs
<1>3. session \in Sessions /\ journal \in Seq(Rows) /\ met \in SUBSET plan.may
  BY DEF Records
<1>4. /\ s \in Sessions /\ s.live = session.live
      /\ \/ s.turn = session.turn
         \/ s.turn = [id |-> e.turn, run |-> e.run]
  <2>1. CASE Event.kind = "turn"
    BY <1>1, <2>1, EventIs
  <2>2. CASE Event.kind # "turn"
    <3>1. Event.status \in {"idle", "dead"}
      BY <1>2, <2>2 DEF Events
    <3>2. Merged(session) \in {"running", "idle", "dead"}
      BY <3>1 DEF Merged
    <3>. QED BY <1>3, <2>2, <3>2 DEF Sessions
  <2>. QED BY <2>1, <2>2
<1>5. PICK status \in {"dead", s.status} :
         session' = [s EXCEPT !.stopped = TRUE, !.queue = <<>>,
                        !.awaiting = None, !.status = status]
  BY DEF PumpFails
<1>. HIDE DEF s
<1>6. s.status \in {"starting", "idle", "running", "dead"} /\ <<>> \in Seq(Prompts)
  BY <1>4, SessionIs
<1>7. session' \in Sessions
  BY <1>4, <1>5, <1>6 DEF Sessions
<1>8. /\ session'.stopped /\ session'.live = session.live
      /\ session'.queue = <<>> /\ session'.awaiting = None
      /\ session'.turn = s.turn
  BY <1>4, <1>5 DEF Sessions
<1>9. \/ journal' = journal
      \/ journal' = Append(journal, TurnRow(e.turn, TRUE))
  BY <1>2 DEF PumpFails
<1>10. journal' \in Seq(Rows)
  BY <1>2, <1>3, <1>9, RowMore
<1>11. met' \in SUBSET plan'.may
  BY <1>1, <1>3 DEF Meets
<1>12. Records'
  BY <1>1, <1>2, <1>7, <1>10, <1>11 DEF Records
<1>13. /\ Serving /\ adapter.events # <<>>
       /\ adapter'.events = Tail(adapter.events)
       /\ /\ adapter'.boot = adapter.boot /\ adapter'.inputs = adapter.inputs
          /\ adapter'.starting = adapter.starting /\ adapter'.cancel = adapter.cancel
          /\ adapter'.turn = adapter.turn /\ adapter'.settled = adapter.settled
          /\ adapter'.resolved = adapter.resolved /\ adapter'.closed = adapter.closed
  BY <1>1, EventIs
<1>. QED BY <1>1, <1>2, <1>4, <1>8, <1>9, <1>12, <1>13

LEMMA MeetsOne ==
    ASSUME plan \in Plans, met \in SUBSET plan.may, NEW kind, Meets(kind)
    PROVE  plan' \in Plans /\ met' \in SUBSET plan'.may
BY DEF Meets

LEMMA CancelTurnDoes ==
    ASSUME Records, NEW t, CancelTurn(t)
    PROVE  /\ Records' /\ UNCHANGED <<session, journal, given>>
           /\ /\ adapter'.boot = adapter.boot /\ adapter'.inputs = adapter.inputs
              /\ adapter'.starting = adapter.starting /\ adapter'.turn = adapter.turn
              /\ adapter'.settled = adapter.settled /\ adapter'.resolved = adapter.resolved
              /\ adapter'.events = adapter.events /\ adapter'.closed = adapter.closed
           /\ /\ agent'.asked = agent.asked /\ agent'.wire = agent.wire
              /\ agent'.active = agent.active /\ agent'.cut = agent.cut
           /\ \/ adapter'.cancel = adapter.cancel
              \/ ~adapter'.cancel
              \/ adapter.boot = "ready" /\ adapter.starting
<1>. DEFINE ask == [agent EXCEPT !.stops = @ \cup {adapter.turn.id}]
<1>1. \/ adapter' = adapter
      \/ adapter' = [adapter EXCEPT !.cancel = FALSE]
      \/ /\ adapter' = [adapter EXCEPT !.cancel = @ \/ adapter.starting]
         /\ adapter.boot = "ready"
  BY DEF CancelTurn
<1>2. agent' = agent \/ agent' = ask
  BY DEF CancelTurn, Ask
<1>3. adapter \in Adapters /\ agent \in Agents
  BY DEF Records
<1>4. adapter' \in Adapters /\ /\ adapter'.boot = adapter.boot
                               /\ adapter'.inputs = adapter.inputs
                               /\ adapter'.starting = adapter.starting
                               /\ adapter'.turn = adapter.turn
                               /\ adapter'.settled = adapter.settled
                               /\ adapter'.resolved = adapter.resolved
                               /\ adapter'.events = adapter.events
                               /\ adapter'.closed = adapter.closed
  BY <1>1, <1>3 DEF Adapters
<1>5. agent' \in Agents /\ /\ agent'.asked = agent.asked /\ agent'.wire = agent.wire
                           /\ agent'.active = agent.active /\ agent'.cut = agent.cut
  BY <1>2, <1>3, AdapterIs DEF Agents
<1>6. \/ adapter'.cancel = adapter.cancel
      \/ ~adapter'.cancel
      \/ adapter.boot = "ready" /\ adapter.starting
  BY <1>1, <1>3 DEF Adapters
<1>7. UNCHANGED <<session, journal, given, plan, met>>
  BY DEF CancelTurn, Ordinary
<1>8. Records'
  BY <1>4, <1>5, <1>7 DEF Records
<1>. QED BY <1>4, <1>5, <1>6, <1>7, <1>8

LEMMA SessionEventIs == \A state \in {"idle", "dead"} : SessionEvent(state) \in Events
BY DEF SessionEvent, Events, None

LEMMA BootsDoes ==
    ASSUME Records, Boots
    PROVE  /\ session.live /\ adapter.boot = "booting"
           /\ Records' /\ UNCHANGED <<session, journal, given>>
           /\ adapter'.boot = "ready" /\ adapter'.inputs = <<>>
           /\ adapter'.starting = (adapter.inputs # <<>>)
           /\ adapter'.events = (IF adapter.closed THEN adapter.events
                                 ELSE Append(adapter.events, SessionEvent("idle")))
           /\ /\ adapter'.cancel = adapter.cancel /\ adapter'.turn = adapter.turn
              /\ adapter'.settled = adapter.settled /\ adapter'.resolved = adapter.resolved
              /\ adapter'.closed = adapter.closed
           /\ /\ agent'.wire = agent.wire /\ agent'.active = agent.active
              /\ agent'.cut = agent.cut
           /\ agent'.asked = agent.asked \o adapter.inputs
<1>. DEFINE b == Push(adapter, SessionEvent("idle"))
<1>1. adapter \in Adapters /\ agent \in Agents
  BY DEF Records
<1>2. /\ b \in Adapters /\ b = [adapter EXCEPT !.events = b.events]
      /\ b.events = IF adapter.closed THEN adapter.events
                    ELSE Append(adapter.events, SessionEvent("idle"))
  BY <1>1, SessionEventIs, PushIs
<1>3. adapter' = [b EXCEPT !.boot = "ready", !.inputs = <<>>,
                           !.starting = adapter.inputs # <<>>]
  BY DEF Boots
<1>4. agent' = [agent EXCEPT !.asked = @ \o adapter.inputs]
  BY DEF Boots
<1>. HIDE DEF b
<1>5. <<>> \in Seq(Nat) /\ (adapter.inputs # <<>>) \in BOOLEAN
  OBVIOUS
<1>6. adapter' \in Adapters
  BY <1>2, <1>3, <1>5 DEF Adapters
<1>7. /\ adapter'.boot = "ready" /\ adapter'.inputs = <<>>
      /\ adapter'.starting = (adapter.inputs # <<>>)
      /\ adapter'.events = b.events
      /\ adapter'.cancel = b.cancel /\ adapter'.turn = b.turn /\ adapter'.settled = b.settled
      /\ adapter'.resolved = b.resolved /\ adapter'.closed = b.closed
  BY <1>2, <1>3 DEF Adapters
<1>8. /\ b.cancel = adapter.cancel /\ b.turn = adapter.turn /\ b.settled = adapter.settled
      /\ b.resolved = adapter.resolved /\ b.closed = adapter.closed
  BY <1>2 DEF Adapters
<1>9. agent.asked \o adapter.inputs \in Seq(Nat)
  BY <1>1, AdapterIs, AgentIs
<1>10. agent' \in Agents /\ agent'.asked = agent.asked \o adapter.inputs
       /\ /\ agent'.wire = agent.wire /\ agent'.active = agent.active
          /\ agent'.cut = agent.cut
  BY <1>1, <1>4, <1>9 DEF Agents
<1>11. UNCHANGED <<session, journal, given, plan, met>>
       /\ session.live /\ adapter.boot = "booting"
  BY DEF Boots, Ordinary
<1>12. Records'
  BY <1>6, <1>10, <1>11 DEF Records
<1>. QED BY <1>2, <1>7, <1>8, <1>10, <1>11, <1>12

\* handleExit(), and the end of a bootstrap that failed.
LEMMA DiesDoes ==
    ASSUME NEW a \in Adapters
    PROVE  /\ Dies(a) \in Adapters /\ Dies(a).closed
           /\ Dies(a).events = (IF a.closed THEN a.events
                                ELSE Append(a.events, SessionEvent("dead")))
           /\ Dies(a).boot = a.boot /\ Dies(a).inputs = a.inputs
           /\ Dies(a).starting = a.starting /\ Dies(a).cancel = a.cancel
           /\ Dies(a).turn = a.turn /\ Dies(a).settled = a.settled
           /\ Dies(a).resolved = a.resolved
<1>. DEFINE b == Push(a, SessionEvent("dead"))
<1>1. /\ b \in Adapters /\ b = [a EXCEPT !.events = b.events]
      /\ b.events = IF a.closed THEN a.events ELSE Append(a.events, SessionEvent("dead"))
  BY SessionEventIs, PushIs
<1>2. Dies(a) = [b EXCEPT !.closed = TRUE]
  BY DEF Dies
<1>. HIDE DEF b
<1>3. /\ b.boot = a.boot /\ b.inputs = a.inputs
      /\ b.starting = a.starting /\ b.cancel = a.cancel
      /\ b.turn = a.turn /\ b.settled = a.settled
      /\ b.resolved = a.resolved
  BY <1>1 DEF Adapters
<1>. QED BY <1>1, <1>2, <1>3 DEF Adapters

LEMMA BootFailsDoes ==
    ASSUME Records, BootFails
    PROVE  /\ session.live /\ adapter.boot = "booting"
           /\ Records' /\ UNCHANGED <<session, agent, journal, given>>
           /\ adapter'.boot = "failed" /\ adapter'.closed
           /\ adapter'.events = (IF adapter.closed THEN adapter.events
                                 ELSE Append(adapter.events, SessionEvent("dead")))
           /\ /\ adapter'.inputs = adapter.inputs /\ adapter'.starting = adapter.starting
              /\ adapter'.cancel = adapter.cancel /\ adapter'.turn = adapter.turn
              /\ adapter'.settled = adapter.settled /\ adapter'.resolved = adapter.resolved
<1>1. adapter \in Adapters /\ adapter' = [Dies(adapter) EXCEPT !.boot = "failed"]
  BY DEF Records, BootFails
<1>2. adapter' \in Adapters /\ adapter'.boot = "failed" /\ adapter'.closed
      /\ adapter'.events = Dies(adapter).events
      /\ adapter'.inputs = Dies(adapter).inputs
      /\ adapter'.starting = Dies(adapter).starting /\ adapter'.cancel = Dies(adapter).cancel
      /\ adapter'.turn = Dies(adapter).turn /\ adapter'.settled = Dies(adapter).settled
      /\ adapter'.resolved = Dies(adapter).resolved
  <2>. DEFINE d == Dies(adapter)
  <2>1. d \in Adapters /\ d.closed /\ adapter' = [d EXCEPT !.boot = "failed"]
    BY <1>1, DiesDoes
  <2>. HIDE DEF d
  <2>2. /\ adapter' \in Adapters /\ adapter'.boot = "failed" /\ adapter'.closed
        /\ adapter'.events = d.events
        /\ adapter'.inputs = d.inputs
        /\ adapter'.starting = d.starting /\ adapter'.cancel = d.cancel
        /\ adapter'.turn = d.turn /\ adapter'.settled = d.settled
        /\ adapter'.resolved = d.resolved
    BY <2>1 DEF Adapters
  <2>. QED BY <2>2 DEF d
<1>3. UNCHANGED <<session, agent, journal, given>> /\ Meets("boot")
      /\ session.live /\ adapter.boot = "booting"
  BY DEF BootFails
<1>4. Records'
  BY <1>2, <1>3, MeetsOne DEF Records
<1>. QED BY <1>1, <1>2, <1>3, <1>4, DiesDoes

LEMMA AgentExitsDoes ==
    ASSUME Records, AgentExits
    PROVE  /\ session.live /\ ~adapter.closed
           /\ Records' /\ UNCHANGED <<session, journal, given>>
           /\ adapter'.boot = (IF adapter.boot = "booting" THEN "failed" ELSE adapter.boot)
           /\ adapter'.closed
           /\ adapter'.events = Append(adapter.events, SessionEvent("dead"))
           /\ /\ adapter'.inputs = adapter.inputs /\ adapter'.starting = adapter.starting
              /\ adapter'.cancel = adapter.cancel /\ adapter'.turn = adapter.turn
              /\ adapter'.settled = adapter.settled /\ adapter'.resolved = adapter.resolved
           /\ agent'.asked = <<>> /\ agent'.wire = <<>> /\ agent'.active = None
           /\ agent'.cut = agent.cut
<1>1. /\ adapter \in Adapters /\ agent \in Agents
      /\ adapter' = [Dies(adapter) EXCEPT !.boot = IF @ = "booting" THEN "failed" ELSE @]
  BY DEF Records, AgentExits
<1>2. /\ adapter' \in Adapters /\ adapter'.closed
      /\ adapter'.boot = (IF Dies(adapter).boot = "booting" THEN "failed"
                          ELSE Dies(adapter).boot)
      /\ adapter'.events = Dies(adapter).events
      /\ adapter'.inputs = Dies(adapter).inputs
      /\ adapter'.starting = Dies(adapter).starting /\ adapter'.cancel = Dies(adapter).cancel
      /\ adapter'.turn = Dies(adapter).turn /\ adapter'.settled = Dies(adapter).settled
      /\ adapter'.resolved = Dies(adapter).resolved
  <2>. DEFINE d == Dies(adapter)
  <2>1. d \in Adapters /\ d.closed
        /\ adapter' = [d EXCEPT !.boot = IF @ = "booting" THEN "failed" ELSE @]
    BY <1>1, DiesDoes
  <2>. HIDE DEF d
  <2>2. /\ adapter' \in Adapters /\ adapter'.closed
        /\ adapter'.boot = (IF d.boot = "booting" THEN "failed" ELSE d.boot)
        /\ adapter'.events = d.events
        /\ adapter'.inputs = d.inputs
        /\ adapter'.starting = d.starting /\ adapter'.cancel = d.cancel
        /\ adapter'.turn = d.turn /\ adapter'.settled = d.settled
        /\ adapter'.resolved = d.resolved
    BY <2>1 DEF Adapters
  <2>. QED BY <2>2 DEF d
<1>3. UNCHANGED <<session, journal, given>> /\ Meets("exit")
      /\ session.live /\ ~adapter.closed
  BY DEF AgentExits
<1>4. agent' = [agent EXCEPT !.asked = <<>>, !.wire = <<>>, !.active = None, !.stops = {}]
  BY DEF AgentExits
<1>5. /\ agent' \in Agents
      /\ agent'.asked = <<>> /\ agent'.wire = <<>> /\ agent'.active = None
      /\ agent'.cut = agent.cut
  <2>1. None \in Nat /\ <<>> \in Seq(Nat) /\ <<>> \in Seq(Frames) /\ {} \in SUBSET Nat
    BY DEF None
  <2>. QED BY <1>1, <1>4, <2>1 DEF Agents
<1>6. Records'
  BY <1>2, <1>3, <1>5, MeetsOne DEF Records
<1>7. /\ Dies(adapter).boot = adapter.boot /\ Dies(adapter).inputs = adapter.inputs
      /\ Dies(adapter).starting = adapter.starting /\ Dies(adapter).cancel = adapter.cancel
      /\ Dies(adapter).turn = adapter.turn /\ Dies(adapter).settled = adapter.settled
      /\ Dies(adapter).resolved = adapter.resolved
      /\ Dies(adapter).events = Append(adapter.events, SessionEvent("dead"))
  BY <1>1, <1>3, DiesDoes
<1>. QED BY <1>2, <1>3, <1>5, <1>6, <1>7

\* emitTurnState() passes on that turn t runs or is over,
Emits(t, run) ==
    /\ ~(run /\ t \in adapter.settled)
    /\ ~adapter'.starting /\ ~adapter'.cancel
    /\ adapter'.turn = [id |-> t, run |-> run]
    /\ adapter'.settled = (IF run THEN adapter.settled ELSE adapter.settled \cup {t})
    /\ adapter'.events = (IF adapter.closed THEN adapter.events
                          ELSE Append(adapter.events, TurnEvent(t, run)))

\* or nothing.
Quiet == /\ adapter'.starting = adapter.starting /\ adapter'.cancel = adapter.cancel
         /\ adapter'.turn = adapter.turn /\ adapter'.settled = adapter.settled
         /\ adapter'.events = adapter.events

LEMMA EmitIs ==
    ASSUME NEW t \in Nat, NEW run \in BOOLEAN, NEW a \in Adapters, NEW g \in Agents,
           EmitTurnState(t, run, a, g),
           a.starting = adapter.starting, a.cancel = adapter.cancel, a.turn = adapter.turn,
           a.settled = adapter.settled, a.events = adapter.events, a.closed = adapter.closed
    PROVE  /\ adapter' \in Adapters /\ agent' \in Agents
           /\ adapter'.boot = a.boot /\ adapter'.inputs = a.inputs
           /\ adapter'.resolved = a.resolved /\ adapter'.closed = a.closed
           /\ agent'.asked = g.asked /\ agent'.wire = g.wire
           /\ agent'.active = g.active /\ agent'.cut = g.cut
           /\ \/ run /\ t \in adapter.settled /\ Quiet
              \/ Emits(t, run)
<1>1. CASE run /\ t \in a.settled /\ adapter' = a /\ agent' = g
  BY <1>1 DEF Quiet
<1>2. CASE ~(run /\ t \in a.settled)
  <2>1. /\ adapter' \in Adapters /\ agent' \in Agents
        /\ adapter'.boot = a.boot /\ adapter'.inputs = a.inputs
        /\ adapter'.resolved = a.resolved /\ adapter'.closed = a.closed
        /\ ~adapter'.starting /\ ~adapter'.cancel
        /\ adapter'.turn = [id |-> t, run |-> run]
        /\ adapter'.settled = (IF run THEN a.settled ELSE a.settled \cup {t})
        /\ adapter'.events = (IF a.closed THEN a.events
                              ELSE Append(a.events, TurnEvent(t, run)))
        /\ agent'.asked = g.asked /\ agent'.wire = g.wire
        /\ agent'.active = g.active /\ agent'.cut = g.cut
    BY <1>2, EmitDoes
  <2>2. Emits(t, run)
    BY <1>2, <2>1 DEF Emits
  <2>. QED BY <2>1, <2>2
<1>. QED BY <1>1, <1>2, EmitDoes

LEMMA TurnStartReturnsDoes ==
    ASSUME Records, NEW t, TurnStartReturns(t)
    PROVE  /\ t \in adapter.resolved /\ t \in Nat
           /\ Records' /\ UNCHANGED <<session, journal, given>>
           /\ adapter'.resolved = adapter.resolved \ {t}
           /\ adapter'.boot = adapter.boot /\ adapter'.inputs = adapter.inputs
           /\ adapter'.closed = adapter.closed
           /\ /\ agent'.asked = agent.asked /\ agent'.wire = agent.wire
              /\ agent'.active = agent.active /\ agent'.cut = agent.cut
           /\ \/ t \in adapter.settled /\ Quiet
              \/ Emits(t, TRUE)
<1>. DEFINE a == [adapter EXCEPT !.resolved = @ \ {t}]
<1>1. adapter \in Adapters /\ agent \in Agents
  BY DEF Records
<1>2. /\ t \in adapter.resolved /\ EmitTurnState(t, TRUE, a, agent)
      /\ UNCHANGED <<session, journal, given, plan, met>>
  BY DEF TurnStartReturns, Ordinary
<1>3. t \in Nat
  BY <1>1, <1>2, AdapterIs
<1>4. /\ a \in Adapters /\ a.resolved = adapter.resolved \ {t}
      /\ a.boot = adapter.boot /\ a.inputs = adapter.inputs
      /\ a.starting = adapter.starting /\ a.cancel = adapter.cancel
      /\ a.turn = adapter.turn /\ a.settled = adapter.settled
      /\ a.events = adapter.events /\ a.closed = adapter.closed
  BY <1>1 DEF Adapters
<1>. HIDE DEF a
<1>5. /\ adapter' \in Adapters /\ agent' \in Agents
      /\ adapter'.boot = a.boot /\ adapter'.inputs = a.inputs
      /\ adapter'.resolved = a.resolved /\ adapter'.closed = a.closed
      /\ /\ agent'.asked = agent.asked /\ agent'.wire = agent.wire
         /\ agent'.active = agent.active /\ agent'.cut = agent.cut
      /\ \/ TRUE /\ t \in adapter.settled /\ Quiet
         \/ Emits(t, TRUE)
  BY <1>1, <1>2, <1>3, <1>4, EmitIs
<1>6. Records'
  BY <1>2, <1>5 DEF Records
<1>. QED BY <1>2, <1>3, <1>4, <1>5, <1>6

LEMMA ReceiveDoes ==
    ASSUME Records, Receive
    PROVE  /\ session.live /\ agent.wire # <<>>
           /\ Records' /\ UNCHANGED <<session, journal, given>>
           /\ agent.wire[1] \in Frames /\ agent'.wire = Tail(agent.wire)
           /\ /\ agent'.asked = agent.asked /\ agent'.active = agent.active
              /\ agent'.cut = agent.cut
           /\ adapter'.boot = adapter.boot /\ adapter'.inputs = adapter.inputs
           /\ adapter'.closed = adapter.closed
           /\ \/ /\ agent.wire[1].kind = "response" /\ Quiet
                 /\ adapter'.resolved = adapter.resolved \cup {agent.wire[1].turn}
              \/ /\ agent.wire[1].kind = "error" /\ adapter'.resolved = adapter.resolved
                 /\ /\ adapter'.starting = adapter.starting
                    /\ adapter'.cancel = adapter.cancel /\ adapter'.turn = adapter.turn
                    /\ adapter'.settled = adapter.settled
                 /\ adapter'.events = (IF adapter.closed THEN adapter.events
                                       ELSE Append(adapter.events, SessionEvent("dead")))
              \/ /\ agent.wire[1].kind = "usage" /\ adapter'.resolved = adapter.resolved
                 /\ \/ Quiet
                    \/ /\ adapter.turn # NoTurn
                       /\ Emits(adapter.turn.id, adapter.turn.run)
              \/ /\ agent.wire[1].kind = "started" /\ adapter'.resolved = adapter.resolved
                 /\ \/ agent.wire[1].turn \in adapter.settled /\ Quiet
                    \/ Emits(agent.wire[1].turn, TRUE)
              \/ /\ agent.wire[1].kind = "completed" /\ adapter'.resolved = adapter.resolved
                 /\ Emits(agent.wire[1].turn, FALSE)
<1>. DEFINE f == agent.wire[1]  g == [agent EXCEPT !.wire = Tail(@)]
<1>1. adapter \in Adapters /\ agent \in Agents /\ agent.wire \in Seq(Frames)
  BY AgentIs DEF Records
<1>2. /\ session.live /\ agent.wire # <<>>
      /\ UNCHANGED <<session, journal, given, plan, met>>
  BY DEF Receive, Ordinary
<1>3. Head(agent.wire) = f /\ f \in Frames /\ Tail(agent.wire) \in Seq(Frames)
  BY <1>1, <1>2, TailIs
<1>4. g \in Agents /\ g.wire = Tail(agent.wire)
      /\ g.asked = agent.asked /\ g.active = agent.active /\ g.cut = agent.cut
  BY <1>1, <1>3 DEF Agents
<1>5. f.turn \in Nat /\ f.kind \in {"response", "error", "usage", "started", "completed"}
  BY <1>3 DEF Frames
<1>6. SUFFICES
        /\ adapter' \in Adapters /\ agent' \in Agents /\ agent'.wire = g.wire
        /\ agent'.asked = g.asked /\ agent'.active = g.active /\ agent'.cut = g.cut
        /\ adapter'.boot = adapter.boot /\ adapter'.inputs = adapter.inputs
        /\ adapter'.closed = adapter.closed
        /\ \/ /\ f.kind = "response" /\ Quiet
              /\ adapter'.resolved = adapter.resolved \cup {f.turn}
           \/ /\ f.kind = "error" /\ adapter'.resolved = adapter.resolved
              /\ /\ adapter'.starting = adapter.starting /\ adapter'.cancel = adapter.cancel
                 /\ adapter'.turn = adapter.turn /\ adapter'.settled = adapter.settled
              /\ adapter'.events = (IF adapter.closed THEN adapter.events
                                    ELSE Append(adapter.events, SessionEvent("dead")))
           \/ /\ f.kind = "usage" /\ adapter'.resolved = adapter.resolved
              /\ \/ Quiet
                 \/ /\ adapter.turn # NoTurn
                    /\ Emits(adapter.turn.id, adapter.turn.run)
           \/ /\ f.kind = "started" /\ adapter'.resolved = adapter.resolved
              /\ \/ f.turn \in adapter.settled /\ Quiet
                 \/ Emits(f.turn, TRUE)
           \/ /\ f.kind = "completed" /\ adapter'.resolved = adapter.resolved
              /\ Emits(f.turn, FALSE)
  <2>1. Records'
    BY <1>2, <1>6 DEF Records
  <2>. HIDE DEF f, g
  <2>2. /\ agent'.wire = Tail(agent.wire) /\ agent'.asked = agent.asked
        /\ agent'.active = agent.active /\ agent'.cut = agent.cut
    BY <1>4, <1>6
  <2>. QED BY <1>2, <1>3, <1>6, <2>1, <2>2 DEF f
<1>7. CASE f.kind = "response"
  <2>1. adapter' = [adapter EXCEPT !.resolved = @ \cup {f.turn}] /\ agent' = g
    BY <1>3, <1>7 DEF Receive
  <2>. HIDE DEF f, g
  <2>2. adapter' \in Adapters /\ adapter'.resolved = adapter.resolved \cup {f.turn}
        /\ /\ adapter'.boot = adapter.boot /\ adapter'.inputs = adapter.inputs
           /\ adapter'.starting = adapter.starting /\ adapter'.cancel = adapter.cancel
           /\ adapter'.turn = adapter.turn /\ adapter'.settled = adapter.settled
           /\ adapter'.events = adapter.events /\ adapter'.closed = adapter.closed
    BY <1>1, <1>5, <2>1 DEF Adapters
  <2>. QED BY <1>4, <1>7, <2>1, <2>2 DEF Quiet
<1>8. CASE f.kind = "error"
  <2>1. adapter' = Push(adapter, SessionEvent("dead")) /\ agent' = g
    BY <1>3, <1>8 DEF Receive
  <2>. HIDE DEF f, g
  <2>2. /\ adapter' \in Adapters
        /\ adapter' = [adapter EXCEPT !.events = adapter'.events]
        /\ adapter'.events = (IF adapter.closed THEN adapter.events
                              ELSE Append(adapter.events, SessionEvent("dead")))
    BY <1>1, <2>1, SessionEventIs, PushIs
  <2>3. /\ adapter'.boot = adapter.boot /\ adapter'.inputs = adapter.inputs
        /\ adapter'.starting = adapter.starting /\ adapter'.cancel = adapter.cancel
        /\ adapter'.turn = adapter.turn /\ adapter'.settled = adapter.settled
        /\ adapter'.resolved = adapter.resolved /\ adapter'.closed = adapter.closed
    BY <1>1, <2>2 DEF Adapters
  <2>. QED BY <1>4, <1>8, <2>1, <2>2, <2>3
<1>9. CASE f.kind = "usage"
  <2>1. CASE adapter.turn = NoTurn
    <3>1. adapter' = adapter /\ agent' = g
      BY <1>3, <1>9, <2>1 DEF Receive
    <3>. HIDE DEF f, g
    <3>. QED BY <1>1, <1>4, <1>9, <3>1 DEF Quiet
  <2>2. CASE adapter.turn # NoTurn
    <3>1. EmitTurnState(adapter.turn.id, adapter.turn.run, adapter, g)
      BY <1>3, <1>9, <2>2 DEF Receive
    <3>2. adapter.turn.id \in Nat /\ adapter.turn.run \in BOOLEAN
      BY <1>1, AdapterIs
    <3>. HIDE DEF f, g
    <3>. QED BY <1>1, <1>4, <1>9, <2>2, <3>1, <3>2, EmitIs
  <2>. QED BY <2>1, <2>2
<1>10. CASE f.kind = "started"
  <2>1. EmitTurnState(f.turn, TRUE, adapter, g)
    BY <1>3, <1>10 DEF Receive
  <2>. HIDE DEF f, g
  <2>. QED BY <1>1, <1>4, <1>5, <1>10, <2>1, EmitIs
<1>11. CASE f.kind = "completed"
  <2>1. EmitTurnState(f.turn, FALSE, adapter, g)
    BY <1>3, <1>11 DEF Receive
  <2>. HIDE DEF f, g
  <2>. QED BY <1>1, <1>4, <1>5, <1>11, <2>1, EmitIs
<1>. QED BY <1>5, <1>7, <1>8, <1>9, <1>10, <1>11

LEMMA FrameIs ==
    ASSUME NEW t \in Nat,
           NEW kind \in {"response", "error", "usage", "started", "completed"}
    PROVE  /\ Frame(kind, t) \in Frames
           /\ Frame(kind, t).kind = kind /\ Frame(kind, t).turn = t
BY DEF Frame, Frames

\* The steps of the agent leave the host alone.
Aside == UNCHANGED <<session, adapter, journal, given>>

LEMMA AgentStartsDoes ==
    ASSUME Records, AgentStarts
    PROVE  /\ agent.asked # <<>> /\ agent.active = None /\ Aside /\ Records'
           /\ agent.asked[1] \in Nat
           /\ agent'.asked = Tail(agent.asked) /\ agent'.active = agent.asked[1]
           /\ agent'.wire = Append(Append(agent.wire, Frame("response", agent.asked[1])),
                                   Frame("started", agent.asked[1]))
           /\ agent'.cut = agent.cut
<1>. DEFINE t == agent.asked[1]  r == Frame("response", t)  s == Frame("started", t)
<1>1. agent \in Agents /\ agent.asked # <<>> /\ agent.active = None
      /\ agent.asked \in Seq(Nat) /\ agent.wire \in Seq(Frames)
  BY AgentIs DEF Records, AgentStarts
<1>2. Head(agent.asked) = t /\ t \in Nat /\ Tail(agent.asked) \in Seq(Nat)
  BY <1>1, TailIs
<1>3. r \in Frames /\ s \in Frames
  BY <1>2, FrameIs
<1>4. agent' = [agent EXCEPT !.asked = Tail(@), !.active = t, !.wire = @ \o <<r, s>>]
  BY <1>2 DEF AgentStarts
<1>. HIDE DEF t, r, s
<1>5. agent.wire \o <<r, s>> = Append(Append(agent.wire, r), s)
  BY <1>1, <1>3
<1>6. Append(Append(agent.wire, r), s) \in Seq(Frames)
  BY <1>1, <1>3
<1>7. /\ agent' \in Agents /\ agent'.asked = Tail(agent.asked) /\ agent'.active = t
      /\ agent'.wire = Append(Append(agent.wire, r), s) /\ agent'.cut = agent.cut
  BY <1>1, <1>2, <1>4, <1>5, <1>6 DEF Agents
<1>8. Aside /\ UNCHANGED <<plan, met>>
  BY DEF AgentStarts, Aside, Ordinary
<1>9. Records'
  BY <1>7, <1>8 DEF Records, Aside
<1>. QED BY <1>1, <1>2, <1>7, <1>8, <1>9 DEF t, r, s

LEMMA AgentRejectsDoes ==
    ASSUME Records, AgentRejects
    PROVE  /\ agent.asked # <<>> /\ Aside /\ Records'
           /\ agent.asked[1] \in Nat
           /\ agent'.asked = Tail(agent.asked) /\ agent'.active = agent.active
           /\ agent'.wire = Append(agent.wire, Frame("error", agent.asked[1]))
           /\ agent'.cut = agent.cut
<1>. DEFINE t == agent.asked[1]  r == Frame("error", t)
<1>1. agent \in Agents /\ agent.asked # <<>>
      /\ agent.asked \in Seq(Nat) /\ agent.wire \in Seq(Frames)
  BY AgentIs DEF Records, AgentRejects
<1>2. Head(agent.asked) = t /\ t \in Nat /\ Tail(agent.asked) \in Seq(Nat)
  BY <1>1, TailIs
<1>3. r \in Frames
  BY <1>2, FrameIs
<1>4. agent' = [agent EXCEPT !.asked = Tail(@), !.wire = Append(@, r)]
  BY <1>2 DEF AgentRejects
<1>. HIDE DEF t, r
<1>5. Append(agent.wire, r) \in Seq(Frames)
  BY <1>1, <1>3
<1>6. /\ agent' \in Agents /\ agent'.asked = Tail(agent.asked)
      /\ agent'.wire = Append(agent.wire, r) /\ agent'.cut = agent.cut
      /\ agent'.active = agent.active
  BY <1>1, <1>2, <1>4, <1>5 DEF Agents
<1>7. Aside /\ Meets("reject")
  BY DEF AgentRejects, Aside
<1>8. Records'
  BY <1>6, <1>7, MeetsOne DEF Records, Aside
<1>. QED BY <1>1, <1>2, <1>6, <1>7, <1>8 DEF t, r

LEMMA AgentReportsDoes ==
    ASSUME Records, AgentReports
    PROVE  /\ agent.active # None /\ Aside /\ Records' /\ agent.active \in Nat
           /\ agent'.wire = Append(agent.wire, Frame("usage", agent.active))
           /\ /\ agent'.asked = agent.asked /\ agent'.active = agent.active
              /\ agent'.cut = agent.cut
<1>. DEFINE r == Frame("usage", agent.active)
<1>1. agent \in Agents /\ agent.active # None /\ agent.active \in Nat
      /\ agent.wire \in Seq(Frames)
  BY AgentIs DEF Records, AgentReports
<1>2. r \in Frames /\ agent' = [agent EXCEPT !.wire = Append(@, r)]
  BY <1>1, FrameIs DEF AgentReports
<1>. HIDE DEF r
<1>3. Append(agent.wire, r) \in Seq(Frames)
  BY <1>1, <1>2
<1>4. /\ agent' \in Agents /\ agent'.wire = Append(agent.wire, r)
      /\ /\ agent'.asked = agent.asked /\ agent'.active = agent.active
         /\ agent'.cut = agent.cut
  BY <1>1, <1>2, <1>3 DEF Agents
<1>5. Aside /\ Meets("usage")
  BY DEF AgentReports, Aside
<1>6. Records'
  BY <1>4, <1>5, MeetsOne DEF Records, Aside
<1>. QED BY <1>1, <1>4, <1>5, <1>6 DEF r

\* The end of a turn, and what came of an interrupt.
LEMMA AgentEndsDoes ==
    ASSUME Records, NEW t, t # None, AgentEnds \/ AgentStops(t)
    PROVE  /\ Aside /\ Records' /\ agent'.asked = agent.asked
           /\ \/ /\ agent.active # None /\ agent.active \in Nat /\ agent'.active = None
                 /\ agent'.wire = Append(agent.wire, Frame("completed", agent.active))
                 /\ agent'.cut \subseteq agent.cut \cup {agent.active}
              \/ /\ agent'.wire = agent.wire /\ agent'.active = agent.active
                 /\ agent'.cut = agent.cut
<1>. DEFINE r == Frame("completed", agent.active)
<1>1. agent \in Agents /\ agent.active \in Nat /\ agent.wire \in Seq(Frames)
      /\ agent.stops \in SUBSET Nat /\ agent.cut \in SUBSET Nat
  BY AgentIs DEF Records
<1>2. r \in Frames
  BY <1>1, FrameIs
<1>3. Aside /\ UNCHANGED <<plan, met>>
  BY DEF AgentEnds, AgentStops, Aside, Ordinary
<1>4. None \in Nat
  BY DEF None
<1>5. CASE AgentEnds
  <2>1. agent.active # None /\ agent' = [agent EXCEPT !.active = None, !.wire = Append(@, r)]
    BY <1>5 DEF AgentEnds
  <2>. HIDE DEF r
  <2>2. Append(agent.wire, r) \in Seq(Frames)
    BY <1>1, <1>2
  <2>3. /\ agent' \in Agents /\ agent'.asked = agent.asked /\ agent'.active = None
        /\ agent'.wire = Append(agent.wire, r) /\ agent'.cut = agent.cut
    BY <1>1, <1>4, <2>1, <2>2 DEF Agents
  <2>. QED BY <1>1, <1>3, <2>1, <2>3 DEF Records, Aside, r
<1>6. CASE AgentStops(t) /\ agent.active = t
  <2>1. agent' = [agent EXCEPT !.stops = @ \ {t}, !.active = None, !.cut = @ \cup {t},
                    !.wire = Append(@, r)]
    BY <1>6 DEF AgentStops
  <2>. HIDE DEF r
  <2>2. Append(agent.wire, r) \in Seq(Frames) /\ agent.cut \cup {t} \in SUBSET Nat
        /\ agent.stops \ {t} \in SUBSET Nat
    BY <1>1, <1>2, <1>6
  <2>3. /\ agent' \in Agents /\ agent'.asked = agent.asked /\ agent'.active = None
        /\ agent'.wire = Append(agent.wire, r) /\ agent'.cut = agent.cut \cup {t}
    BY <1>1, <1>4, <2>1, <2>2 DEF Agents
  <2>. QED BY <1>1, <1>3, <1>6, <2>3 DEF Records, Aside, r
<1>7. CASE AgentStops(t) /\ agent.active # t
  <2>1. agent' = [agent EXCEPT !.stops = @ \ {t}]
    BY <1>7 DEF AgentStops
  <2>2. agent' \in Agents /\ /\ agent'.asked = agent.asked /\ agent'.wire = agent.wire
                             /\ agent'.active = agent.active /\ agent'.cut = agent.cut
    BY <1>1, <2>1 DEF Agents
  <2>. QED BY <1>3, <2>2 DEF Records, Aside
<1>. QED BY <1>5, <1>6, <1>7

\* The host's process ends; what the journal gets is left open.
LEMMA HostDiesDoes ==
    ASSUME Records, HostDies
    PROVE  /\ session.live /\ given' = given
           /\ session' \in Sessions /\ adapter' \in Adapters /\ agent' \in Agents
           /\ plan' \in Plans /\ met' \in SUBSET plan'.may
           /\ ~session'.live /\ session'.stopped = session.stopped
           /\ session'.queue = <<>> /\ session'.awaiting = None
           /\ session'.turn = session.turn
           /\ /\ adapter'.boot = adapter.boot /\ adapter'.starting = adapter.starting
              /\ adapter'.cancel = adapter.cancel /\ adapter'.turn = adapter.turn
              /\ adapter'.settled = adapter.settled
           /\ adapter'.closed /\ adapter'.inputs = <<>>
           /\ adapter'.resolved = {} /\ adapter'.events = <<>>
           /\ agent'.asked = <<>> /\ agent'.wire = <<>> /\ agent'.active = None
           /\ agent'.cut = agent.cut
<1>1. session \in Sessions /\ adapter \in Adapters /\ agent \in Agents
  BY DEF Records
<1>2. /\ None \in Nat /\ <<>> \in Seq(Nat) /\ <<>> \in Seq(Frames) /\ {} \in SUBSET Nat
      /\ <<>> \in Seq(Events) /\ <<>> \in Seq(Prompts)
  BY DEF None
<1>3. session' = [session EXCEPT !.live = FALSE, !.queue = <<>>, !.awaiting = None]
  BY DEF HostDies
<1>4. /\ session' \in Sessions /\ ~session'.live /\ session'.stopped = session.stopped
      /\ session'.queue = <<>> /\ session'.awaiting = None
      /\ session'.turn = session.turn
  BY <1>1, <1>2, <1>3 DEF Sessions
<1>5. adapter' = [adapter EXCEPT !.closed = TRUE, !.inputs = <<>>,
                     !.resolved = {}, !.events = <<>>]
  BY DEF HostDies
<1>6. /\ adapter' \in Adapters
      /\ /\ adapter'.boot = adapter.boot /\ adapter'.starting = adapter.starting
         /\ adapter'.cancel = adapter.cancel /\ adapter'.turn = adapter.turn
         /\ adapter'.settled = adapter.settled
      /\ adapter'.closed /\ adapter'.inputs = <<>>
      /\ adapter'.resolved = {} /\ adapter'.events = <<>>
  BY <1>1, <1>2, <1>5 DEF Adapters
<1>7. agent' = [agent EXCEPT !.asked = <<>>, !.wire = <<>>, !.active = None, !.stops = {}]
  BY DEF HostDies
<1>8. /\ agent' \in Agents
      /\ agent'.asked = <<>> /\ agent'.wire = <<>> /\ agent'.active = None
      /\ agent'.cut = agent.cut
  BY <1>1, <1>2, <1>7 DEF Agents
<1>9. plan' \in Plans /\ met' \in SUBSET plan'.may
  BY MeetsOne DEF HostDies, Records
<1>. QED BY <1>4, <1>6, <1>8, <1>9 DEF HostDies

LEMMA ItemIs ==
    ASSUME NEW p \in Nat, NEW t \in Nat, NEW queued \in BOOLEAN
    PROVE  Item(p, t, queued) \in Rows
BY DEF Item, Rows

\* A prompt waits, or is given to the adapter.
LEMMA PromptDoes ==
    ASSUME Records, NEW p \in Prompts, Prompt(p)
    PROVE  /\ session' \in Sessions /\ adapter' \in Adapters /\ agent' \in Agents
           /\ journal' = Append(journal, Item(p, None, Busy(session)))
           /\ journal' \in Seq(Rows) /\ given' \in Seq(Prompts)
           /\ session'.live = session.live /\ session'.stopped = session.stopped
           /\ session'.turn = session.turn
           /\ /\ adapter'.boot = adapter.boot /\ adapter'.cancel = adapter.cancel
              /\ adapter'.turn = adapter.turn /\ adapter'.settled = adapter.settled
              /\ adapter'.resolved = adapter.resolved /\ adapter'.events = adapter.events
              /\ adapter'.closed = adapter.closed
           /\ /\ agent'.wire = agent.wire /\ agent'.active = agent.active
              /\ agent'.cut = agent.cut
           /\ \/ /\ Busy(session) /\ UNCHANGED <<adapter, agent, given>>
                 /\ session'.queue = Append(session.queue, p)
                 /\ session'.awaiting = session.awaiting
              \/ /\ ~Busy(session) /\ session'.queue = session.queue
                 /\ session'.awaiting = p /\ given' = Append(given, p)
                 /\ adapter'.inputs =
                       (IF adapter.boot # "ready" THEN Append(adapter.inputs, Latest + 1)
                        ELSE adapter.inputs)
                 /\ adapter'.starting = (adapter.starting \/ adapter.boot = "ready")
                 /\ agent'.asked =
                       (IF adapter.boot # "ready" \/ adapter.closed THEN agent.asked
                        ELSE Append(agent.asked, Latest + 1))
<1>1. /\ session \in Sessions /\ adapter \in Adapters /\ agent \in Agents
      /\ journal \in Seq(Rows) /\ given \in Seq(Prompts) /\ session.queue \in Seq(Prompts)
  BY SessionIs DEF Records
<1>2. journal' = Append(journal, Item(p, None, Busy(session)))
  BY DEF Prompt
<1>3. Item(p, None, Busy(session)) \in Rows
  <2>1. p \in Nat /\ None \in Nat
    BY Constants
  <2>2. Busy(session) \in BOOLEAN
    BY <1>1, SessionIs DEF Busy, Pending
  <2>. QED BY <2>1, <2>2, ItemIs
<1>4. journal' \in Seq(Rows)
  BY <1>1, <1>2, <1>3
<1>5. CASE Busy(session)
  <2>1. session' = [session EXCEPT !.queue = Append(@, p)] /\ UNCHANGED <<adapter, agent, given>>
    BY <1>5 DEF Prompt
  <2>2. Append(session.queue, p) \in Seq(Prompts)
    BY <1>1
  <2>3. session' \in Sessions /\ session'.queue = Append(session.queue, p)
        /\ /\ session'.live = session.live /\ session'.stopped = session.stopped
           /\ session'.awaiting = session.awaiting /\ session'.turn = session.turn
           /\ session'.status = session.status
    BY <1>1, <2>1, <2>2 DEF Sessions
  <2>. QED BY <1>1, <1>2, <1>4, <1>5, <2>1, <2>3
<1>6. CASE ~Busy(session)
  <2>1. Deliver(p, session, adapter)
    BY <1>6 DEF Prompt
  <2>. QED BY <1>1, <1>2, <1>4, <1>6, <2>1, DeliverDoes
<1>. QED BY <1>5, <1>6

-----------------------------------------------------------------------------
(* Turns that were asked for, and who speaks when. *)

LEMMA LatestIs == ASSUME Records PROVE Latest \in Nat
BY DEF Latest, Records

\* The types of the parts.
LEMMA Typed ==
    ASSUME Records
    PROVE  /\ session \in Sessions /\ adapter \in Adapters /\ agent \in Agents
           /\ session.queue \in Seq(Prompts) /\ session.turn.id \in Nat
           /\ adapter.inputs \in Seq(Nat) /\ adapter.turn.id \in Nat
           /\ adapter.settled \in SUBSET Nat /\ adapter.resolved \in SUBSET Nat
           /\ adapter.events \in Seq(Events)
           /\ agent.asked \in Seq(Nat) /\ agent.wire \in Seq(Frames)
           /\ agent.active \in Nat /\ agent.cut \in SUBSET Nat
           /\ journal \in Seq(Rows) /\ given \in Seq(Prompts)
BY SessionIs, AdapterIs, AgentIs DEF Records

LEMMA RowIs ==
    ASSUME NEW s \in Seq(Rows), NEW k \in 1 .. Len(s)
    PROVE  /\ s[k] \in Rows /\ s[k].kind \in {"item", "turn"}
           /\ s[k].of \in Nat /\ s[k].turn \in Nat /\ s[k].flag \in BOOLEAN
<1>1. s[k] \in Rows
  OBVIOUS
<1>. QED BY <1>1 DEF Rows

\* The event the pump takes leaves the others.
LEMMA Popping ==
    ASSUME Records, Known, adapter.events # <<>>, adapter'.events = Tail(adapter.events)
    PROVE  /\ adapter.events[1].turn <= Latest
           /\ \A k \in 1 .. Len(adapter'.events) : adapter'.events[k].turn <= Latest
<1>1. adapter.events \in Seq(Events)
  BY Typed
<1>2. /\ Len(adapter.events) \in Nat \ {0} /\ Len(adapter'.events) = Len(adapter.events) - 1
      /\ \A k \in 1 .. Len(adapter.events) - 1 : adapter'.events[k] = adapter.events[k + 1]
  BY <1>1, TailIs
<1>. QED BY <1>2 DEF Known

\* One row more, of a turn that was asked for.
LEMMA RowKnown ==
    ASSUME Records, Known, NEW n \in Nat, n >= Latest,
           NEW r \in Rows, r.turn <= n, journal' = Append(journal, r)
    PROVE  \A k \in 1 .. Len(journal') : journal'[k].turn <= n
<1>1. journal \in Seq(Rows) /\ Latest \in Nat
  BY Typed, LatestIs
<1>2. /\ Len(journal) \in Nat /\ Len(journal') = Len(journal) + 1
      /\ \A k \in 1 .. Len(journal) : journal'[k] = journal[k]
      /\ journal'[Len(journal) + 1] = r
  BY <1>1, AppendIs
<1>3. \A k \in 1 .. Len(journal) : journal[k].turn \in Nat /\ journal[k].turn <= Latest
  BY <1>1, RowIs DEF Known
<1>. QED BY <1>1, <1>2, <1>3

\* The session takes what came and says what it has to.
LEMMA HandleTurnRunsTurnwise ==
    ASSUME Records, Turnwise, HandleTurnRuns
    PROVE  Turnwise'
<1>1. /\ Latest' = Latest /\ Latest \in Nat /\ UNCHANGED <<agent, given>>
      /\ /\ adapter'.boot = adapter.boot /\ adapter'.inputs = adapter.inputs
         /\ adapter'.starting = adapter.starting /\ adapter'.cancel = adapter.cancel
         /\ adapter'.turn = adapter.turn /\ adapter'.settled = adapter.settled
         /\ adapter'.resolved = adapter.resolved /\ adapter'.closed = adapter.closed
  BY HandleTurnRunsDoes, LatestIs DEF Latest
<1>2. /\ adapter.events[1].turn <= Latest
      /\ \A k \in 1 .. Len(adapter'.events) : adapter'.events[k].turn <= Latest
  BY Popping, HandleTurnRunsDoes DEF Turnwise
<1>3. /\ session'.turn.id = adapter.events[1].turn /\ session'.live = session.live
  BY HandleTurnRunsDoes
<1>4. \A k \in 1 .. Len(journal') : journal'[k].turn <= Latest
  <2>. DEFINE r == TurnRow(adapter.events[1].turn, TRUE)
              i == Item(session.awaiting, adapter.events[1].turn, FALSE)
  <2>1. \/ journal' = Append(journal, r)
        \/ journal' = Append(Append(journal, r), i)
    BY HandleTurnRunsDoes
  <2>2. adapter.events \in Seq(Events) /\ adapter.events # <<>> /\ journal \in Seq(Rows)
    BY Typed, HandleTurnRunsDoes
  <2>3. adapter.events[1].turn \in Nat
    BY <2>2, TailIs, EventsAre
  <2>4. r \in Rows /\ i \in Rows /\ r.turn <= Latest /\ i.turn <= Latest
    <3>1. session.awaiting \in Nat
      BY Typed, AwaitingIs
    <3>. QED BY <1>2, <2>3, <3>1 DEF TurnRow, Item, Rows
  <2>5. \A k \in 1 .. Len(journal) : journal[k].turn \in Nat /\ journal[k].turn <= Latest
    BY <2>2, RowIs DEF Turnwise, Known
  <2>. HIDE DEF r, i
  <2>6. /\ Append(journal, r) \in Seq(Rows) /\ Len(Append(journal, r)) = Len(journal) + 1
        /\ Len(journal) \in Nat
        /\ \A k \in 1 .. Len(journal) + 1 : Append(journal, r)[k].turn <= Latest
    BY <2>2, <2>4, <2>5, AppendIs
  <2>7. \A k \in 1 .. Len(journal) + 2 : Append(Append(journal, r), i)[k].turn <= Latest
    BY <2>4, <2>6, AppendIs
  <2>8. Len(Append(Append(journal, r), i)) = Len(journal) + 2
    BY <2>4, <2>6, AppendIs
  <2>. QED BY <2>1, <2>6, <2>7, <2>8
<1>5. Known'
  BY <1>1, <1>2, <1>3, <1>4 DEF Turnwise, Known
<1>6. Lifecycle' /\ Awaited'
  BY <1>1, <1>3 DEF Turnwise, Lifecycle, Awaited, Silent
<1>. QED BY <1>5, <1>6 DEF Turnwise

LEMMA HandleSessionTurnwise ==
    ASSUME Records, Turnwise, HandleSession
    PROVE  Turnwise'
<1>1. /\ Latest' = Latest /\ UNCHANGED <<agent, given, journal>>
      /\ /\ adapter'.boot = adapter.boot /\ adapter'.inputs = adapter.inputs
         /\ adapter'.starting = adapter.starting /\ adapter'.cancel = adapter.cancel
         /\ adapter'.turn = adapter.turn /\ adapter'.settled = adapter.settled
         /\ adapter'.resolved = adapter.resolved /\ adapter'.closed = adapter.closed
      /\ session'.turn = session.turn /\ session'.live = session.live
  BY HandleSessionDoes DEF Latest
<1>2. \A k \in 1 .. Len(adapter'.events) : adapter'.events[k].turn <= Latest
  BY Popping, HandleSessionDoes DEF Turnwise
<1>. QED BY <1>1, <1>2 DEF Turnwise, Known, Lifecycle, Awaited, Silent

LEMMA PumpFailsTurnwise ==
    ASSUME Records, Turnwise, PumpFails
    PROVE  Turnwise'
<1>1. /\ Latest' = Latest /\ Latest \in Nat /\ UNCHANGED <<agent, given>>
      /\ /\ adapter'.boot = adapter.boot /\ adapter'.inputs = adapter.inputs
         /\ adapter'.starting = adapter.starting /\ adapter'.cancel = adapter.cancel
         /\ adapter'.turn = adapter.turn /\ adapter'.settled = adapter.settled
         /\ adapter'.resolved = adapter.resolved /\ adapter'.closed = adapter.closed
      /\ session'.live = session.live
  BY PumpFailsDoes, LatestIs DEF Latest
<1>2. /\ adapter.events[1].turn <= Latest
      /\ \A k \in 1 .. Len(adapter'.events) : adapter'.events[k].turn <= Latest
  BY Popping, PumpFailsDoes DEF Turnwise
<1>3. session'.turn.id <= Latest
  BY <1>2, PumpFailsDoes DEF Turnwise, Known
<1>4. \A k \in 1 .. Len(journal') : journal'[k].turn <= Latest
  <2>1. CASE journal' = journal
    BY <2>1 DEF Turnwise, Known
  <2>2. CASE journal' # journal
    <3>. DEFINE r == TurnRow(adapter.events[1].turn, TRUE)
    <3>1. journal' = Append(journal, r) /\ adapter.events[1].turn \in Nat
      BY <2>2, PumpFailsDoes
    <3>2. r \in Rows /\ r.turn <= Latest
      BY <1>2, <3>1 DEF TurnRow, Rows
    <3>. HIDE DEF r
    <3>. QED BY <1>1, <3>1, <3>2, RowKnown DEF Turnwise
  <2>. QED BY <2>1, <2>2
<1>. QED BY <1>1, <1>2, <1>3, <1>4 DEF Turnwise, Known, Lifecycle, Awaited, Silent

\* One turn more has been asked for.
LEMMA GivenMore ==
    ASSUME Records, NEW p \in Prompts, given' = Append(given, p)
    PROVE  /\ Latest' = Latest + 1 /\ Latest \in Nat
           /\ given'[Latest + 1] = p
           /\ \A k \in 1 .. Latest : given'[k] = given[k]
BY Typed, AppendIs DEF Latest

LEMMA OneMore ==
    ASSUME NEW s \in Seq(Nat), NEW n \in Nat,
           \A k \in 1 .. Len(s) : s[k] \in 1 .. n + 1
    PROVE  \A k \in 1 .. Len(Append(s, n + 1)) : Append(s, n + 1)[k] \in 1 .. n + 1
BY AppendIs

\* A delivery asks for the next turn.
LEMMA DeliveryTurnwise ==
    ASSUME Records, Turnwise, NEW p \in Prompts, given' = Append(given, p),
           session'.turn.id <= Latest, session'.live = session.live, session.live,
           /\ adapter'.boot = adapter.boot /\ adapter'.cancel = adapter.cancel
           /\ adapter'.turn = adapter.turn /\ adapter'.settled = adapter.settled
           /\ adapter'.resolved = adapter.resolved /\ adapter'.closed = adapter.closed,
           /\ agent'.wire = agent.wire /\ agent'.active = agent.active
           /\ agent'.cut = agent.cut,
           adapter'.inputs = (IF adapter.boot # "ready" THEN Append(adapter.inputs, Latest + 1)
                              ELSE adapter.inputs),
           adapter'.starting = (adapter.starting \/ adapter.boot = "ready"),
           agent'.asked = (IF adapter.boot # "ready" \/ adapter.closed THEN agent.asked
                           ELSE Append(agent.asked, Latest + 1)),
           \A k \in 1 .. Len(adapter'.events) : adapter'.events[k].turn <= Latest,
           \A k \in 1 .. Len(journal') : journal'[k].turn <= Latest,
           adapter'.events \in Seq(Events), journal' \in Seq(Rows), session' \in Sessions
    PROVE  Turnwise'
<1>1. Latest' = Latest + 1 /\ Latest \in Nat
  BY GivenMore
<1>2. /\ adapter.inputs \in Seq(Nat) /\ agent.asked \in Seq(Nat)
      /\ agent.wire \in Seq(Frames) /\ agent.active \in Nat
      /\ adapter.settled \in SUBSET Nat /\ adapter.resolved \in SUBSET Nat
      /\ adapter.turn.id \in Nat /\ session'.turn.id \in Nat
  BY Typed, SessionIs
<1>3. \A k \in 1 .. Len(adapter'.inputs) : adapter'.inputs[k] \in 1 .. Latest'
  <2>1. \A k \in 1 .. Len(adapter.inputs) : adapter.inputs[k] \in 1 .. Latest + 1
    BY <1>1 DEF Turnwise, Known
  <2>. QED BY <1>1, <1>2, <2>1, OneMore
<1>4. \A k \in 1 .. Len(agent'.asked) : agent'.asked[k] \in 1 .. Latest'
  <2>1. \A k \in 1 .. Len(agent.asked) : agent.asked[k] \in 1 .. Latest + 1
    BY <1>1 DEF Turnwise, Known
  <2>. QED BY <1>1, <1>2, <2>1, OneMore
<1>5. \A k \in 1 .. Len(adapter'.events) : adapter'.events[k].turn <= Latest'
  <2>1. \A k \in 1 .. Len(adapter'.events) : adapter'.events[k].turn \in Nat
    BY ElementOfSeq, EventsAre
  <2>. QED BY <1>1, <2>1
<1>6. \A k \in 1 .. Len(journal') : journal'[k].turn <= Latest'
  <2>1. \A k \in 1 .. Len(journal') : journal'[k].turn \in Nat
    BY RowIs
  <2>. QED BY <1>1, <2>1
<1>7. Known'
  <2>1. 1 .. Latest \subseteq 1 .. Latest'
    BY <1>1
  <2>2. /\ adapter'.settled \subseteq 1 .. Latest' /\ adapter'.resolved \subseteq 1 .. Latest'
        /\ agent'.cut \subseteq 1 .. Latest'
        /\ \A k \in 1 .. Len(agent'.wire) : agent'.wire[k].turn \in 1 .. Latest'
    BY <2>1 DEF Turnwise, Known
  <2>3. /\ session'.turn.id <= Latest' /\ adapter'.turn.id <= Latest'
        /\ agent'.active <= Latest'
    BY <1>1, <1>2 DEF Turnwise, Known
  <2>. QED BY <1>3, <1>4, <1>5, <1>6, <2>2, <2>3 DEF Known
<1>8. Lifecycle'
  BY DEF Turnwise, Lifecycle, Silent
<1>9. Awaited'
  BY <1>1, <1>2 DEF Turnwise, Known, Awaited
<1>. QED BY <1>7, <1>8, <1>9 DEF Turnwise

LEMMA HandleTurnEndsTurnwise ==
    ASSUME Records, Turnwise, HandleTurnEnds
    PROVE  Turnwise'
<1>. DEFINE r == TurnRow(adapter.events[1].turn, FALSE)
<1>1. /\ adapter.events[1].turn <= Latest
      /\ \A k \in 1 .. Len(adapter'.events) : adapter'.events[k].turn <= Latest
  BY Popping, HandleTurnEndsDoes DEF Turnwise
<1>2. r \in Rows /\ r.turn <= Latest /\ journal' = Append(journal, r)
  BY <1>1, HandleTurnEndsDoes DEF TurnRow, Rows
<1>. HIDE DEF r
<1>3. \A k \in 1 .. Len(journal') : journal'[k].turn <= Latest
  BY <1>2, RowKnown, LatestIs DEF Turnwise
<1>4. /\ session'.turn.id <= Latest /\ session'.live = session.live
      /\ session.live
      /\ /\ adapter'.boot = adapter.boot /\ adapter'.cancel = adapter.cancel
         /\ adapter'.turn = adapter.turn /\ adapter'.settled = adapter.settled
         /\ adapter'.resolved = adapter.resolved /\ adapter'.closed = adapter.closed
      /\ /\ agent'.wire = agent.wire /\ agent'.active = agent.active
         /\ agent'.cut = agent.cut
      /\ adapter'.events \in Seq(Events) /\ journal' \in Seq(Rows) /\ session' \in Sessions
  <2>1. Records' /\ Serving
    BY HandleTurnEndsDoes
  <2>2. adapter'.events \in Seq(Events) /\ journal' \in Seq(Rows) /\ session' \in Sessions
    BY <2>1, AdapterIs DEF Records
  <2>3. session'.turn.id <= Latest
    <3>1. session'.turn = [id |-> adapter.events[1].turn, run |-> FALSE]
      BY HandleTurnEndsDoes
    <3>. QED BY <1>1, <3>1
  <2>4. /\ session'.live = session.live
        /\ /\ adapter'.boot = adapter.boot /\ adapter'.cancel = adapter.cancel
           /\ adapter'.turn = adapter.turn /\ adapter'.settled = adapter.settled
           /\ adapter'.resolved = adapter.resolved /\ adapter'.closed = adapter.closed
        /\ /\ agent'.wire = agent.wire /\ agent'.active = agent.active
           /\ agent'.cut = agent.cut
    BY HandleTurnEndsDoes
  <2>. QED BY <2>1, <2>2, <2>3, <2>4 DEF Serving
<1>5. CASE session.queue = <<>>
  <2>1. /\ given' = given
        /\ adapter'.inputs = adapter.inputs /\ adapter'.starting = adapter.starting
        /\ agent'.asked = agent.asked
    BY <1>5, HandleTurnEndsDoes
  <2>. QED BY <1>1, <1>3, <1>4, <2>1 DEF Turnwise, Known, Lifecycle, Awaited, Silent, Latest
<1>6. CASE session.queue # <<>>
  <2>1. /\ session.queue[1] \in Prompts
        /\ given' = Append(given, session.queue[1])
        /\ adapter'.inputs = (IF adapter.boot # "ready" THEN Append(adapter.inputs, Latest + 1)
                              ELSE adapter.inputs)
        /\ adapter'.starting = (adapter.starting \/ adapter.boot = "ready")
        /\ agent'.asked = (IF adapter.boot # "ready" \/ adapter.closed THEN agent.asked
                           ELSE Append(agent.asked, Latest + 1))
    BY <1>6, HandleTurnEndsDoes
  <2>. QED BY <1>1, <1>3, <1>4, <2>1, DeliveryTurnwise
<1>. QED BY <1>5, <1>6

LEMMA PromptTurnwise ==
    ASSUME Records, Turnwise, session.live, NEW p \in Prompts, Prompt(p)
    PROVE  Turnwise'
<1>. DEFINE r == Item(p, None, Busy(session))
<1>1. r.turn = 0 /\ journal' = Append(journal, r) /\ Latest \in Nat
  BY PromptDoes, LatestIs DEF Item, None
<1>2. r \in Rows
  <2>1. journal' \in Seq(Rows) /\ journal \in Seq(Rows)
    BY PromptDoes, Typed
  <2>2. p \in Nat /\ None \in Nat
    BY Constants
  <2>3. Busy(session) \in BOOLEAN
    BY Typed, SessionIs DEF Busy, Pending
  <2>. QED BY <2>2, <2>3, ItemIs
<1>. HIDE DEF r
<1>3. \A k \in 1 .. Len(journal') : journal'[k].turn <= Latest
  BY <1>1, <1>2, RowKnown DEF Turnwise
<1>4. /\ session'.turn = session.turn /\ session'.live = session.live
      /\ /\ adapter'.boot = adapter.boot /\ adapter'.cancel = adapter.cancel
         /\ adapter'.turn = adapter.turn /\ adapter'.settled = adapter.settled
         /\ adapter'.resolved = adapter.resolved /\ adapter'.events = adapter.events
         /\ adapter'.closed = adapter.closed
      /\ /\ agent'.wire = agent.wire /\ agent'.active = agent.active
         /\ agent'.cut = agent.cut
      /\ journal' \in Seq(Rows) /\ session' \in Sessions
  BY PromptDoes
<1>5. /\ adapter'.events \in Seq(Events) /\ session'.turn.id <= Latest
      /\ \A k \in 1 .. Len(adapter'.events) : adapter'.events[k].turn <= Latest
  BY <1>4, Typed DEF Turnwise, Known
<1>6. CASE Busy(session)
  <2>1. UNCHANGED <<adapter, agent, given>>
    BY <1>6, PromptDoes
  <2>. QED BY <1>3, <1>4, <1>5, <2>1 DEF Turnwise, Known, Lifecycle, Awaited, Silent, Latest
<1>7. CASE ~Busy(session)
  <2>1. /\ given' = Append(given, p)
        /\ adapter'.inputs = (IF adapter.boot # "ready" THEN Append(adapter.inputs, Latest + 1)
                              ELSE adapter.inputs)
        /\ adapter'.starting = (adapter.starting \/ adapter.boot = "ready")
        /\ agent'.asked = (IF adapter.boot # "ready" \/ adapter.closed THEN agent.asked
                           ELSE Append(agent.asked, Latest + 1))
    BY <1>7, PromptDoes
  <2>. QED BY <1>3, <1>4, <1>5, <2>1, DeliveryTurnwise
<1>. QED BY <1>6, <1>7

LEMMA CancelTurnTurnwise ==
    ASSUME Records, Turnwise, NEW t, CancelTurn(t)
    PROVE  Turnwise'
<1>1. /\ Latest' = Latest /\ UNCHANGED <<session, journal, given>>
      /\ /\ adapter'.boot = adapter.boot /\ adapter'.inputs = adapter.inputs
         /\ adapter'.starting = adapter.starting /\ adapter'.turn = adapter.turn
         /\ adapter'.settled = adapter.settled /\ adapter'.resolved = adapter.resolved
         /\ adapter'.events = adapter.events /\ adapter'.closed = adapter.closed
      /\ /\ agent'.asked = agent.asked /\ agent'.wire = agent.wire
         /\ agent'.active = agent.active /\ agent'.cut = agent.cut
  BY CancelTurnDoes DEF Latest
<1>2. \/ adapter'.cancel = adapter.cancel
      \/ ~adapter'.cancel
      \/ adapter.boot = "ready" /\ adapter.starting
  BY CancelTurnDoes
<1>. QED BY <1>1, <1>2 DEF Turnwise, Known, Lifecycle, Awaited, Silent

\* A session event is of no turn.
LEMMA SessionEventKnown ==
    ASSUME Records, Known, NEW state \in {"idle", "dead"},
           adapter'.events = (IF adapter.closed THEN adapter.events
                              ELSE Append(adapter.events, SessionEvent(state)))
    PROVE  \A k \in 1 .. Len(adapter'.events) : adapter'.events[k].turn <= Latest
<1>. DEFINE e == SessionEvent(state)
<1>1. e \in Events /\ e.turn = 0
  BY SessionEventIs DEF SessionEvent, None
<1>. HIDE DEF e
<1>2. adapter.events \in Seq(Events) /\ Latest \in Nat
  BY Typed, LatestIs
<1>3. /\ Len(adapter.events) \in Nat /\ Len(Append(adapter.events, e)) = Len(adapter.events) + 1
      /\ \A k \in 1 .. Len(adapter.events) : Append(adapter.events, e)[k] = adapter.events[k]
      /\ Append(adapter.events, e)[Len(adapter.events) + 1] = e
  BY <1>1, <1>2, AppendIs
<1>4. \A k \in 1 .. Len(adapter.events) : adapter.events[k].turn <= Latest
  BY DEF Known
<1>. QED BY <1>1, <1>2, <1>3, <1>4 DEF e

LEMMA BootsTurnwise ==
    ASSUME Records, Turnwise, Boots
    PROVE  Turnwise'
<1>1. /\ Latest' = Latest /\ UNCHANGED <<session, journal, given>>
      /\ session.live /\ adapter.boot = "booting" /\ adapter'.boot = "ready"
      /\ adapter'.inputs = <<>> /\ adapter'.starting = (adapter.inputs # <<>>)
      /\ /\ adapter'.cancel = adapter.cancel /\ adapter'.turn = adapter.turn
         /\ adapter'.settled = adapter.settled /\ adapter'.resolved = adapter.resolved
         /\ adapter'.closed = adapter.closed
      /\ /\ agent'.wire = agent.wire /\ agent'.active = agent.active
         /\ agent'.cut = agent.cut
      /\ agent'.asked = agent.asked \o adapter.inputs
  BY BootsDoes DEF Latest
<1>2. \A k \in 1 .. Len(adapter'.events) : adapter'.events[k].turn <= Latest
  BY BootsDoes, SessionEventKnown DEF Turnwise
<1>3. agent.asked = <<>> /\ agent'.asked = adapter.inputs /\ ~adapter'.closed
  <2>1. agent.asked = <<>> /\ ~adapter.closed
    BY <1>1 DEF Turnwise, Lifecycle, Silent
  <2>2. adapter.inputs \in Seq(Nat)
    BY Typed
  <2>3. <<>> \o adapter.inputs = adapter.inputs
    BY <2>2
  <2>. QED BY <1>1, <2>1, <2>3
<1>4. adapter.inputs # <<>> => Latest # 0
  <2>1. adapter.inputs # <<>> => 1 \in 1 .. Len(adapter.inputs)
    BY Typed
  <2>. QED BY <2>1, LatestIs DEF Turnwise, Known
<1>5. Known'
  <2>1. Len(adapter'.inputs) = 0
    BY <1>1
  <2>. QED BY <1>1, <1>2, <1>3, <2>1 DEF Turnwise, Known
<1>6. Lifecycle'
  BY <1>1, <1>3 DEF Turnwise, Lifecycle
<1>7. Awaited'
  <2>1. adapter.settled = {} /\ adapter.turn = NoTurn /\ ~adapter.cancel
    BY <1>1 DEF Turnwise, Lifecycle
  <2>2. adapter.turn.id = 0
    BY <2>1 DEF NoTurn, None
  <2>. QED BY <1>1, <1>4, <2>1, <2>2 DEF Awaited
<1>. QED BY <1>5, <1>6, <1>7 DEF Turnwise

LEMMA DyingTurnwise ==
    ASSUME Records, Turnwise, BootFails \/ AgentExits
    PROVE  Turnwise'
<1>1. /\ Latest' = Latest /\ UNCHANGED <<session, journal, given>> /\ session.live
      /\ /\ adapter'.inputs = adapter.inputs /\ adapter'.starting = adapter.starting
         /\ adapter'.cancel = adapter.cancel /\ adapter'.turn = adapter.turn
         /\ adapter'.settled = adapter.settled /\ adapter'.resolved = adapter.resolved
      /\ adapter'.closed /\ adapter'.boot # "booting"
      /\ adapter'.boot = "ready" => adapter.boot = "ready"
      /\ adapter'.boot # "ready" => adapter.boot # "ready"
      /\ agent'.cut = agent.cut
  BY BootFailsDoes, AgentExitsDoes DEF Latest
<1>2. adapter'.events = (IF adapter.closed THEN adapter.events
                         ELSE Append(adapter.events, SessionEvent("dead")))
  BY BootFailsDoes, AgentExitsDoes
<1>3. \A k \in 1 .. Len(adapter'.events) : adapter'.events[k].turn <= Latest
  BY <1>2, SessionEventKnown DEF Turnwise
<1>4. agent'.asked = <<>> /\ agent'.wire = <<>> /\ agent'.active = None
  <2>1. CASE BootFails
    BY <2>1, BootFailsDoes DEF Turnwise, Lifecycle, Silent
  <2>2. CASE AgentExits
    BY <2>2, AgentExitsDoes
  <2>. QED BY <2>1, <2>2
<1>5. Known'
  <2>1. Len(agent'.asked) = 0 /\ Len(agent'.wire) = 0 /\ agent'.active <= Latest
    BY <1>4, LatestIs DEF None
  <2>. QED BY <1>1, <1>3, <2>1 DEF Turnwise, Known
<1>. QED BY <1>1, <1>4, <1>5 DEF Turnwise, Lifecycle, Awaited, Silent

\* What is said of a turn that was asked for.
LEMMA EmitsKnown ==
    ASSUME Records, Turnwise, NEW t \in 0 .. Latest, NEW run \in BOOLEAN, Emits(t, run),
           ~run => t # 0
    PROVE  /\ adapter'.turn.id <= Latest /\ adapter'.settled \subseteq 1 .. Latest
           /\ \A k \in 1 .. Len(adapter'.events) : adapter'.events[k].turn <= Latest
           /\ ~adapter'.starting /\ ~adapter'.cancel
<1>1. Latest \in Nat /\ adapter.events \in Seq(Events)
  BY Typed, LatestIs
<1>2. adapter'.turn.id <= Latest /\ adapter'.settled \subseteq 1 .. Latest
      /\ ~adapter'.starting /\ ~adapter'.cancel
  BY <1>1 DEF Emits, Turnwise, Known
<1>. DEFINE e == TurnEvent(t, run)
<1>3. e \in Events /\ e.turn = t
  BY DEF TurnEvent, Events
<1>. HIDE DEF e
<1>4. /\ Len(adapter.events) \in Nat /\ Len(Append(adapter.events, e)) = Len(adapter.events) + 1
      /\ \A k \in 1 .. Len(adapter.events) : Append(adapter.events, e)[k] = adapter.events[k]
      /\ Append(adapter.events, e)[Len(adapter.events) + 1] = e
  BY <1>1, <1>3, AppendIs
<1>5. adapter'.events = (IF adapter.closed THEN adapter.events ELSE Append(adapter.events, e))
  BY DEF Emits, e
<1>6. \A k \in 1 .. Len(adapter.events) : adapter.events[k].turn <= Latest
  BY DEF Turnwise, Known
<1>7. \A k \in 1 .. Len(adapter'.events) : adapter'.events[k].turn <= Latest
  BY <1>1, <1>3, <1>4, <1>5, <1>6
<1>. QED BY <1>2, <1>7

LEMMA TurnStartReturnsTurnwise ==
    ASSUME Records, Turnwise, NEW t, TurnStartReturns(t)
    PROVE  Turnwise'
<1>1. /\ t \in adapter.resolved /\ Latest' = Latest /\ UNCHANGED <<session, journal, given>>
      /\ adapter'.resolved = adapter.resolved \ {t}
      /\ adapter'.boot = adapter.boot /\ adapter'.inputs = adapter.inputs
      /\ adapter'.closed = adapter.closed
      /\ /\ agent'.asked = agent.asked /\ agent'.wire = agent.wire
         /\ agent'.active = agent.active /\ agent'.cut = agent.cut
      /\ \/ t \in adapter.settled /\ Quiet
         \/ Emits(t, TRUE)
  BY TurnStartReturnsDoes DEF Latest
<1>2. t \in 1 .. Latest /\ t \in 0 .. Latest /\ adapter.boot = "ready"
  BY <1>1, LatestIs DEF Turnwise, Known, Lifecycle
<1>3. CASE Quiet
  BY <1>1, <1>2, <1>3 DEF Quiet, Turnwise, Known, Lifecycle, Awaited, Silent
<1>4. CASE Emits(t, TRUE)
  <2>1. /\ adapter'.turn.id <= Latest /\ adapter'.settled \subseteq 1 .. Latest
        /\ \A k \in 1 .. Len(adapter'.events) : adapter'.events[k].turn <= Latest
        /\ ~adapter'.starting /\ ~adapter'.cancel
    BY <1>2, <1>4, EmitsKnown
  <2>. QED BY <1>1, <1>2, <2>1 DEF Turnwise, Known, Lifecycle, Awaited, Silent
<1>. QED BY <1>1, <1>3, <1>4

LEMMA ReceiveTurnwise ==
    ASSUME Records, Turnwise, Receive
    PROVE  Turnwise'
<1>. DEFINE f == agent.wire[1]
<1>1. /\ Latest' = Latest /\ UNCHANGED <<session, journal, given>>
      /\ session.live /\ agent.wire # <<>> /\ agent'.wire = Tail(agent.wire)
      /\ /\ agent'.asked = agent.asked /\ agent'.active = agent.active
         /\ agent'.cut = agent.cut
      /\ adapter'.boot = adapter.boot /\ adapter'.inputs = adapter.inputs
      /\ adapter'.closed = adapter.closed
  BY ReceiveDoes DEF Latest
<1>2. Latest \in Nat /\ agent.wire \in Seq(Frames)
  BY Typed, LatestIs
<1>3. f.turn \in 1 .. Latest /\ f.turn \in 0 .. Latest /\ f.turn # 0
      /\ adapter.boot = "ready" /\ ~adapter.closed
  <2>1. 1 \in 1 .. Len(agent.wire)
    BY <1>1, <1>2
  <2>2. f.turn \in 1 .. Latest
    BY <2>1 DEF Turnwise, Known
  <2>. QED BY <1>1, <1>2, <2>2 DEF Turnwise, Lifecycle, Silent
<1>4. \A k \in 1 .. Len(agent'.wire) : agent'.wire[k].turn \in 1 .. Latest
  <2>1. /\ Len(agent.wire) \in Nat \ {0} /\ Len(agent'.wire) = Len(agent.wire) - 1
        /\ \A k \in 1 .. Len(agent.wire) - 1 : agent'.wire[k] = agent.wire[k + 1]
    BY <1>1, <1>2, TailIs
  <2>. QED BY <2>1 DEF Turnwise, Known
<1>5. Lifecycle'
  BY <1>1, <1>3 DEF Turnwise, Lifecycle, Silent
<1>6. ASSUME Quiet, adapter'.resolved \subseteq 1 .. Latest
      PROVE  Turnwise'
  BY <1>1, <1>4, <1>5, <1>6 DEF Quiet, Turnwise, Known, Awaited
<1>7. ASSUME NEW t \in 0 .. Latest, NEW run \in BOOLEAN, ~run => t # 0,
             Emits(t, run), adapter'.resolved = adapter.resolved
      PROVE  Turnwise'
  <2>1. /\ adapter'.turn.id <= Latest /\ adapter'.settled \subseteq 1 .. Latest
        /\ \A k \in 1 .. Len(adapter'.events) : adapter'.events[k].turn <= Latest
        /\ ~adapter'.starting /\ ~adapter'.cancel
    BY <1>7, EmitsKnown
  <2>. QED BY <1>1, <1>4, <1>5, <1>7, <2>1 DEF Turnwise, Known, Awaited
<1>. HIDE DEF f
<1>8. CASE f.kind = "response"
  <2>1. Quiet /\ adapter'.resolved = adapter.resolved \cup {f.turn}
    BY <1>8, ReceiveDoes DEF f
  <2>. QED BY <1>3, <1>6, <2>1 DEF Turnwise, Known
<1>9. CASE f.kind = "error"
  <2>1. /\ adapter'.resolved = adapter.resolved
        /\ /\ adapter'.starting = adapter.starting /\ adapter'.cancel = adapter.cancel
           /\ adapter'.turn = adapter.turn /\ adapter'.settled = adapter.settled
        /\ adapter'.events = (IF adapter.closed THEN adapter.events
                              ELSE Append(adapter.events, SessionEvent("dead")))
    BY <1>9, ReceiveDoes DEF f
  <2>2. \A k \in 1 .. Len(adapter'.events) : adapter'.events[k].turn <= Latest
    BY <2>1, SessionEventKnown DEF Turnwise
  <2>. QED BY <1>1, <1>4, <1>5, <2>1, <2>2 DEF Turnwise, Known, Awaited
<1>10. CASE f.kind = "usage"
  <2>. DEFINE t == adapter.turn
  <2>1. /\ adapter'.resolved = adapter.resolved
        /\ \/ Quiet
           \/ adapter.turn # NoTurn /\ Emits(adapter.turn.id, adapter.turn.run)
    <3>1. \/ f.kind = "response" \/ f.kind = "error" \/ f.kind = "started" \/ f.kind = "completed"
          \/ /\ adapter'.resolved = adapter.resolved
             /\ \/ Quiet
                \/ adapter.turn # NoTurn /\ Emits(adapter.turn.id, adapter.turn.run)
      BY ReceiveDoes DEF f
    <3>. QED BY <1>10, <3>1
  <2>2. t.id \in 0 .. Latest /\ t.run \in BOOLEAN /\ (t # NoTurn /\ ~t.run => t.id # 0)
    <3>1. adapter \in Adapters /\ adapter.turn \in States
      BY Typed, AdapterIs
    <3>2. t.id \in Nat /\ t.id <= Latest
      BY <3>1 DEF Turnwise, Known, States
    <3>3. t.run \in BOOLEAN /\ (~t.run /\ t.id = 0 => t = NoTurn)
      BY <3>1 DEF States, NoTurn, None
    <3>. QED BY <1>2, <3>2, <3>3
  <2>. HIDE DEF t
  <2>3. CASE Quiet
    BY <1>6, <2>1, <2>3 DEF Turnwise, Known
  <2>4. CASE Emits(t.id, t.run) /\ t # NoTurn
    BY <1>7, <2>1, <2>2, <2>4
  <2>. QED BY <2>1, <2>3, <2>4 DEF t
<1>11. CASE f.kind = "started"
  <2>1. adapter'.resolved = adapter.resolved /\ (Quiet \/ Emits(f.turn, TRUE))
    BY <1>11, ReceiveDoes DEF f
  <2>. QED BY <1>3, <1>6, <1>7, <2>1 DEF Turnwise, Known
<1>12. CASE f.kind = "completed"
  <2>1. adapter'.resolved = adapter.resolved /\ Emits(f.turn, FALSE)
    BY <1>12, ReceiveDoes DEF f
  <2>. QED BY <1>3, <1>7, <2>1
<1>. QED BY <1>8, <1>9, <1>10, <1>11, <1>12, ReceiveDoes DEF f

\* One frame more on the pipe.
LEMMA WireMore ==
    ASSUME NEW s \in Seq(Frames), NEW n \in Nat, NEW f \in Frames, f.turn \in 1 .. n,
           \A k \in 1 .. Len(s) : s[k].turn \in 1 .. n
    PROVE  /\ Append(s, f) \in Seq(Frames)
           /\ \A k \in 1 .. Len(Append(s, f)) : Append(s, f)[k].turn \in 1 .. n
BY AppendIs

LEMMA AgentTurnwise ==
    ASSUME Records, Turnwise, NEW t, t # None,
           AgentStarts \/ AgentRejects \/ AgentReports \/ AgentEnds \/ AgentStops(t)
    PROVE  Turnwise'
<1>1. /\ Latest \in Nat /\ agent.wire \in Seq(Frames) /\ agent.asked \in Seq(Nat)
      /\ agent.active \in Nat /\ agent.cut \in SUBSET Nat
      /\ agent.active # None => agent.active \in 1 .. Latest
      /\ \A k \in 1 .. Len(agent.wire) : agent.wire[k].turn \in 1 .. Latest
  BY Typed, LatestIs DEF Turnwise, Known, None
<1>2. ASSUME Aside, agent.asked # <<>> \/ agent.active # None,
             agent'.active <= Latest, agent'.cut \subseteq 1 .. Latest,
             \A k \in 1 .. Len(agent'.asked) : agent'.asked[k] \in 1 .. Latest,
             \A k \in 1 .. Len(agent'.wire) : agent'.wire[k].turn \in 1 .. Latest
      PROVE  Turnwise'
  <2>1. Latest' = Latest /\ ~adapter.closed /\ adapter.boot = "ready"
    BY <1>2 DEF Aside, Latest, Turnwise, Lifecycle, Silent
  <2>. QED BY <1>2, <2>1 DEF Aside, Turnwise, Known, Lifecycle, Awaited
<1>3. ASSUME agent.asked # <<>>
      PROVE  /\ agent.asked[1] \in 1 .. Latest
             /\ \A k \in 1 .. Len(Tail(agent.asked)) : Tail(agent.asked)[k] \in 1 .. Latest
  <2>1. /\ Len(agent.asked) \in Nat \ {0} /\ Len(Tail(agent.asked)) = Len(agent.asked) - 1
        /\ \A k \in 1 .. Len(agent.asked) - 1 : Tail(agent.asked)[k] = agent.asked[k + 1]
    BY <1>1, <1>3, TailIs
  <2>2. \A k \in 1 .. Len(agent.asked) : agent.asked[k] \in 1 .. Latest
    BY DEF Turnwise, Known
  <2>. QED BY <2>1, <2>2
<1>4. CASE AgentStarts
  <2>. DEFINE h == agent.asked[1]  r == Frame("response", h)  s == Frame("started", h)
  <2>1. /\ agent.asked # <<>> /\ Aside
        /\ agent'.asked = Tail(agent.asked) /\ agent'.active = h
        /\ agent'.wire = Append(Append(agent.wire, r), s)
        /\ agent'.cut = agent.cut
    BY <1>4, AgentStartsDoes
  <2>2. h \in 1 .. Latest /\ h <= Latest
    BY <1>1, <1>3, <2>1
  <2>3. r \in Frames /\ r.turn = h /\ s \in Frames /\ s.turn = h
    BY <1>1, <2>2, FrameIs
  <2>. HIDE DEF h, r, s
  <2>4. \A k \in 1 .. Len(agent'.wire) : agent'.wire[k].turn \in 1 .. Latest
    BY <1>1, <2>1, <2>2, <2>3, WireMore
  <2>. QED BY <1>2, <1>3, <2>1, <2>2, <2>4 DEF Turnwise, Known
<1>5. CASE AgentRejects
  <2>. DEFINE h == agent.asked[1]  r == Frame("error", h)
  <2>1. /\ agent.asked # <<>> /\ Aside
        /\ agent'.asked = Tail(agent.asked) /\ agent'.active = agent.active
        /\ agent'.wire = Append(agent.wire, r)
        /\ agent'.cut = agent.cut
    BY <1>5, AgentRejectsDoes
  <2>2. h \in 1 .. Latest
    BY <1>3, <2>1
  <2>3. r \in Frames /\ r.turn = h
    BY <1>1, <2>2, FrameIs
  <2>. HIDE DEF h, r
  <2>4. \A k \in 1 .. Len(agent'.wire) : agent'.wire[k].turn \in 1 .. Latest
    BY <1>1, <2>1, <2>2, <2>3, WireMore
  <2>. QED BY <1>2, <1>3, <2>1, <2>4 DEF Turnwise, Known
<1>6. CASE AgentReports
  <2>. DEFINE r == Frame("usage", agent.active)
  <2>1. /\ agent.active # None /\ Aside
        /\ agent'.wire = Append(agent.wire, r)
        /\ /\ agent'.asked = agent.asked /\ agent'.active = agent.active
           /\ agent'.cut = agent.cut
    BY <1>6, AgentReportsDoes
  <2>2. r \in Frames /\ r.turn = agent.active
    BY <1>1, FrameIs
  <2>. HIDE DEF r
  <2>3. \A k \in 1 .. Len(agent'.wire) : agent'.wire[k].turn \in 1 .. Latest
    BY <1>1, <2>1, <2>2, WireMore
  <2>. QED BY <1>2, <2>1, <2>3 DEF Turnwise, Known
<1>7. CASE AgentEnds \/ AgentStops(t)
  <2>. DEFINE r == Frame("completed", agent.active)
  <2>1. /\ Aside /\ agent'.asked = agent.asked
        /\ \/ /\ agent.active # None /\ agent'.active = None
              /\ agent'.wire = Append(agent.wire, r)
              /\ agent'.cut \subseteq agent.cut \cup {agent.active}
           \/ /\ agent'.wire = agent.wire /\ agent'.active = agent.active
              /\ agent'.cut = agent.cut
    BY <1>7, AgentEndsDoes
  <2>2. r \in Frames /\ r.turn = agent.active
    BY <1>1, FrameIs
  <2>. HIDE DEF r
  <2>3. CASE /\ agent'.wire = agent.wire /\ agent'.active = agent.active
             /\ agent'.cut = agent.cut
    BY <2>1, <2>3 DEF Aside, Turnwise, Known, Lifecycle, Awaited, Silent, Latest
  <2>4. CASE /\ agent.active # None /\ agent'.active = None
             /\ agent'.wire = Append(agent.wire, r)
             /\ agent'.cut \subseteq agent.cut \cup {agent.active}
    <3>1. \A k \in 1 .. Len(agent'.wire) : agent'.wire[k].turn \in 1 .. Latest
      BY <1>1, <2>2, <2>4, WireMore
    <3>2. agent'.active <= Latest /\ agent'.cut \subseteq 1 .. Latest
      BY <1>1, <2>4 DEF Turnwise, Known, None
    <3>. QED BY <1>2, <2>1, <2>4, <3>1, <3>2 DEF Turnwise, Known
  <2>. QED BY <2>1, <2>3, <2>4
<1>. QED BY <1>4, <1>5, <1>6, <1>7

LEMMA HostDiesTurnwise ==
    ASSUME Records, Turnwise, HostDies,
           \A k \in 1 .. Len(journal') : journal'[k].turn <= Latest
    PROVE  Turnwise'
<1>1. Latest' = Latest /\ Latest \in Nat
  BY HostDiesDoes, LatestIs DEF Latest
<1>2. /\ Len(adapter'.inputs) = 0 /\ Len(adapter'.events) = 0
      /\ Len(agent'.asked) = 0 /\ Len(agent'.wire) = 0 /\ agent'.active = 0
  BY HostDiesDoes DEF None
<1>3. /\ session'.turn = session.turn
      /\ /\ adapter'.boot = adapter.boot /\ adapter'.starting = adapter.starting
         /\ adapter'.cancel = adapter.cancel /\ adapter'.turn = adapter.turn
         /\ adapter'.settled = adapter.settled
      /\ adapter'.resolved = {}
      /\ agent'.cut = agent.cut
  BY HostDiesDoes
<1>4. Known'
  BY <1>1, <1>2, <1>3 DEF Turnwise, Known
<1>5. Lifecycle'
  BY HostDiesDoes DEF Turnwise, Lifecycle, Silent
<1>6. Awaited'
  BY <1>1, <1>3 DEF Turnwise, Awaited
<1>. QED BY <1>4, <1>5, <1>6 DEF Turnwise

-----------------------------------------------------------------------------
(* The way of the latest turn. *)

\* What the stages are about, unchanged.
LEMMA SameStage ==
    ASSUME Flow, Latest' = Latest, given' = given,
           session'.awaiting = session.awaiting, session'.turn.run = session.turn.run,
           Serving' => Serving,
           /\ adapter'.boot = adapter.boot /\ adapter'.inputs = adapter.inputs
           /\ adapter'.turn = adapter.turn /\ adapter'.settled = adapter.settled
           /\ adapter'.resolved = adapter.resolved /\ adapter'.events = adapter.events
           /\ adapter'.closed = adapter.closed,
           /\ agent'.asked = agent.asked /\ agent'.wire = agent.wire
           /\ agent'.active = agent.active
    PROVE  Flow'
<1>. SUFFICES ASSUME Serving' PROVE Flow'
  BY DEF Flow
<1>1. Placed /\ Serving
  BY DEF Flow
<1>2. Nowhere => Nowhere'
  BY DEF Nowhere, OnlyErrors, OnlyRuns, NoTurns, Open, Runs, IsTurn
<1>3. AtAdapter => AtAdapter'
  BY DEF AtAdapter, NoTurns, IsTurn
<1>4. Asked => Asked'
  BY DEF Asked, OnlyErrors, NoTurns, IsTurn
<1>5. UnderWay => UnderWay'
  BY DEF UnderWay, OnlyRuns, Announced, Open, Runs, IsTurn
<1>a. ASSUME NEW k, Begun(k) PROVE Begun(k)'
  BY <1>a DEF Begun
<1>b. ASSUME NEW k, OnlyLatest(k) PROVE OnlyLatest(k)'
  BY <1>a, <1>b DEF OnlyLatest
<1>6. AtWork => AtWork'
  BY <1>5, <1>a, <1>b DEF AtWork
<1>7. Completes => Completes'
  BY <1>5, <1>a, <1>b DEF Completes
<1>8. Ending => Ending'
  BY DEF Ending, EndComes, OnlyErrors, OnlyRuns, NoTurns, Open, Announced, Runs, Ends, IsTurn
<1>9. Placed'
  BY <1>1, <1>2, <1>3, <1>4, <1>6, <1>7, <1>8 DEF Placed
<1>. QED BY <1>1, <1>9 DEF Flow

\* The queue of events is one shorter, or one longer.
LEMMA EventTaken ==
    ASSUME Records, adapter.events # <<>>, adapter'.events = Tail(adapter.events)
    PROVE  /\ Len(adapter.events) \in Nat \ {0}
           /\ Len(adapter'.events) = Len(adapter.events) - 1
           /\ \A k \in 1 .. Len(adapter.events) - 1 : adapter'.events[k] = adapter.events[k + 1]
BY Typed, TailIs

LEMMA EventAdded ==
    ASSUME Records, NEW e \in Events, adapter'.events = Append(adapter.events, e)
    PROVE  /\ Len(adapter.events) \in Nat
           /\ Len(adapter'.events) = Len(adapter.events) + 1
           /\ \A k \in 1 .. Len(adapter.events) : adapter'.events[k] = adapter.events[k]
           /\ adapter'.events[Len(adapter.events) + 1] = e
BY Typed, AppendIs

\* A turn that begins is the latest.
LEMMA BeginsLatest ==
    ASSUME Records, Flow, HandleTurnRuns
    PROVE  Runs(adapter.events[1])
<1>1. /\ Placed /\ IsTurn(adapter.events[1]) /\ adapter.events[1].run
      /\ Len(adapter.events) \in Nat \ {0}
  BY HandleTurnRunsDoes, EventTaken DEF Flow
<1>2. CASE Nowhere
  BY <1>1, <1>2 DEF Nowhere, OnlyRuns
<1>3. CASE AtAdapter \/ Asked
  BY <1>1, <1>3 DEF AtAdapter, Asked, NoTurns
<1>4. CASE AtWork \/ Completes
  BY <1>1, <1>4 DEF AtWork, Completes, UnderWay, OnlyRuns
<1>5. CASE Ending
  <2>1. PICK m \in 1 .. Len(adapter.events) :
            Ends(adapter.events[m]) /\ OnlyRuns(m - 1)
    BY <1>5 DEF Ending, EndComes
  <2>2. m # 1
    BY <1>1, <2>1 DEF Ends
  <2>. QED BY <1>1, <2>1, <2>2 DEF OnlyRuns
<1>. QED BY <1>1, <1>2, <1>3, <1>4, <1>5 DEF Placed

LEMMA HandleTurnRunsFlow ==
    ASSUME Records, Flow, HandleTurnRuns
    PROVE  Flow'
<1>1. /\ Latest' = Latest /\ UNCHANGED <<agent, given>> /\ Serving
      /\ /\ adapter'.boot = adapter.boot /\ adapter'.inputs = adapter.inputs
         /\ adapter'.starting = adapter.starting /\ adapter'.cancel = adapter.cancel
         /\ adapter'.turn = adapter.turn /\ adapter'.settled = adapter.settled
         /\ adapter'.resolved = adapter.resolved /\ adapter'.closed = adapter.closed
      /\ session'.awaiting = None /\ session'.turn.run
      /\ Runs(adapter.events[1])
  BY HandleTurnRunsDoes, BeginsLatest DEF Latest
<1>2. /\ Len(adapter.events) \in Nat \ {0}
      /\ Len(adapter'.events) = Len(adapter.events) - 1
      /\ \A k \in 1 .. Len(adapter.events) - 1 : adapter'.events[k] = adapter.events[k + 1]
  BY HandleTurnRunsDoes, EventTaken
<1>3. Open' /\ (\A n \in Nat : Announced(n)')
  BY <1>1 DEF Open, Announced
<1>4. ASSUME NEW n \in 1 .. Len(adapter.events), OnlyRuns(n) PROVE OnlyRuns(n - 1)'
  <2>1. \A k \in 1 .. n - 1 :
            k + 1 \in 1 .. n /\ adapter'.events[k] = adapter.events[k + 1]
    BY <1>2
  <2>. QED BY <1>1, <1>4, <2>1 DEF OnlyRuns, Runs, IsTurn
<1>5. Nowhere => Nowhere'
  BY <1>1, <1>2, <1>3, <1>4 DEF Nowhere, OnlyErrors
<1>6. ~AtAdapter /\ ~Asked
  BY <1>1, <1>2 DEF AtAdapter, Asked, NoTurns, Runs
<1>7. UnderWay => UnderWay'
  BY <1>1, <1>2, <1>3, <1>4 DEF UnderWay
<1>8. AtWork => AtWork'
  BY <1>1, <1>7 DEF AtWork, OnlyLatest, Begun
<1>9. Completes => Completes'
  BY <1>1, <1>7 DEF Completes, OnlyLatest, Begun
<1>10. ASSUME Ending PROVE Ending'
  <2>1. PICK m \in 1 .. Len(adapter.events) :
            /\ Ends(adapter.events[m]) /\ Announced(m - 1)
            /\ OnlyRuns(m - 1) /\ NoTurns(m + 1, Len(adapter.events))
    BY <1>10 DEF Ending, EndComes
  <2>2. m # 1 /\ m - 1 \in 1 .. Len(adapter'.events) /\ m - 2 \in Nat
        /\ m - 1 \in 1 .. Len(adapter.events)
    BY <1>1, <1>2, <2>1 DEF Runs, Ends
  <2>3. Ends(adapter.events[m - 1])' /\ OnlyRuns(m - 2)' /\ Announced(m - 2)'
    BY <1>1, <1>2, <1>3, <1>4, <2>1, <2>2 DEF Ends, IsTurn
  <2>4. NoTurns(m, Len(adapter.events))'
    BY <1>2, <2>1 DEF NoTurns, IsTurn
  <2>. QED BY <1>1, <1>3, <1>10, <2>2, <2>3, <2>4 DEF Ending, EndComes, OnlyErrors
<1>11. Placed'
  BY <1>1, <1>5, <1>6, <1>8, <1>9, <1>10 DEF Flow, Placed
<1>. QED BY <1>1, <1>11 DEF Flow

\* A delivery, with no turn asked for or at work.
LEMMA DeliveryFlow ==
    ASSUME Records, Turnwise, NEW p \in Prompts, given' = Append(given, p),
           session'.awaiting = p, agent'.wire = agent.wire, agent'.active = agent.active,
           /\ adapter'.boot = adapter.boot /\ adapter'.turn = adapter.turn
           /\ adapter'.settled = adapter.settled /\ adapter'.resolved = adapter.resolved
           /\ adapter'.closed = adapter.closed,
           adapter'.inputs = (IF adapter.boot # "ready" THEN Append(adapter.inputs, Latest + 1)
                              ELSE adapter.inputs),
           agent'.asked = (IF adapter.boot # "ready" \/ adapter.closed THEN agent.asked
                           ELSE Append(agent.asked, Latest + 1)),
           adapter.inputs = <<>>, agent.asked = <<>>, agent.active = None, OnlyErrors,
           \A k \in 1 .. Len(adapter'.events) : ~IsTurn(adapter'.events[k]),
           \A t \in adapter.resolved : t \in adapter.settled \/ adapter.closed
    PROVE  Flow'
<1>1. /\ Latest' = Latest + 1 /\ Latest \in Nat /\ given'[Latest + 1] = p
      /\ p # None /\ p \in Nat
  BY GivenMore, Constants
<1>2. /\ Latest' \notin adapter.settled \cup adapter.resolved
      /\ adapter.turn # [id |-> Latest', run |-> TRUE]
  <2>1. adapter.turn.id # Latest' /\ Latest' \notin adapter.settled
        /\ Latest' \notin adapter.resolved
    BY <1>1, Typed DEF Turnwise, Known
  <2>. QED BY <2>1
<1>3. /\ session'.awaiting # None /\ Latest' # 0 /\ given'[Latest'] = session'.awaiting
  BY <1>1
<1>4. Append(<<>>, Latest + 1) = <<Latest'>>
  BY <1>1
<1>5. OnlyErrors'
  BY DEF OnlyErrors
<1>6. CASE adapter.boot # "ready"
  <2>1. adapter'.inputs = <<Latest'>> /\ adapter'.boot # "ready"
    BY <1>4, <1>6
  <2>2. AtAdapter'
    BY <1>3, <2>1 DEF AtAdapter, NoTurns, IsTurn
  <2>. QED BY <1>3, <2>2 DEF Flow, Placed
<1>7. CASE adapter.boot = "ready" /\ adapter.closed
  <2>1. adapter'.inputs = <<>> /\ agent'.asked = <<>> /\ agent'.active = None
    BY <1>7
  <2>2. Nowhere'
    BY <1>3, <1>5, <2>1 DEF Nowhere, OnlyRuns, Open, IsTurn
  <2>. QED BY <1>3, <2>2 DEF Flow, Placed
<1>8. CASE adapter.boot = "ready" /\ ~adapter.closed
  <2>1. adapter'.inputs = <<>> /\ agent'.asked = <<Latest'>> /\ agent'.active = None
    BY <1>4, <1>8
  <2>2. Asked'
    BY <1>2, <1>3, <1>5, <2>1 DEF Asked, NoTurns, IsTurn
  <2>. QED BY <1>3, <2>2 DEF Flow, Placed
<1>. QED BY <1>6, <1>7, <1>8

\* A turn whose end is handled is the latest, and its end the last word of it.
LEMMA EndsLatest ==
    ASSUME Records, Flow, HandleTurnEnds
    PROVE  /\ adapter.inputs = <<>> /\ agent.asked = <<>> /\ agent.active = None
           /\ OnlyErrors /\ Latest \in adapter.settled
           /\ Ends(adapter.events[1]) /\ session.awaiting = None
           /\ NoTurns(2, Len(adapter.events))
<1>1. /\ Placed /\ IsTurn(adapter.events[1]) /\ ~adapter.events[1].run
      /\ Len(adapter.events) \in Nat \ {0}
  BY HandleTurnEndsDoes, EventTaken DEF Flow
<1>2. ~Nowhere
  BY <1>1 DEF Nowhere, OnlyRuns, Runs, NoTurns
<1>3. ~AtAdapter /\ ~Asked
  BY <1>1 DEF AtAdapter, Asked, NoTurns
<1>4. ~AtWork /\ ~Completes
  BY <1>1 DEF AtWork, Completes, UnderWay, OnlyRuns, Runs
<1>5. Ending
  BY <1>1, <1>2, <1>3, <1>4 DEF Placed
<1>6. PICK m \in 1 .. Len(adapter.events) :
          /\ Ends(adapter.events[m]) /\ Announced(m - 1)
          /\ OnlyRuns(m - 1) /\ NoTurns(m + 1, Len(adapter.events))
  BY <1>5 DEF Ending, EndComes
<1>7. m = 1
  BY <1>1, <1>6 DEF OnlyRuns, Runs
<1>8. session.awaiting = None
  BY <1>6, <1>7 DEF Announced
<1>. QED BY <1>5, <1>6, <1>7, <1>8 DEF Ending, EndComes

LEMMA HandleTurnEndsFlow ==
    ASSUME Records, Turnwise, Flow, HandleTurnEnds
    PROVE  Flow'
<1>1. /\ Len(adapter.events) \in Nat \ {0}
      /\ Len(adapter'.events) = Len(adapter.events) - 1
      /\ \A k \in 1 .. Len(adapter.events) - 1 : adapter'.events[k] = adapter.events[k + 1]
  BY HandleTurnEndsDoes, EventTaken
<1>2. \A k \in 1 .. Len(adapter'.events) : ~IsTurn(adapter'.events[k])
  BY <1>1, EndsLatest DEF NoTurns
<1>3. /\ /\ adapter'.boot = adapter.boot /\ adapter'.cancel = adapter.cancel
         /\ adapter'.turn = adapter.turn /\ adapter'.settled = adapter.settled
         /\ adapter'.resolved = adapter.resolved /\ adapter'.closed = adapter.closed
      /\ /\ agent'.wire = agent.wire /\ agent'.active = agent.active
         /\ agent'.cut = agent.cut
      /\ ~session'.turn.run /\ Serving
  BY HandleTurnEndsDoes
<1>4. /\ adapter.inputs = <<>> /\ agent.asked = <<>> /\ agent.active = None
      /\ OnlyErrors /\ Latest \in adapter.settled /\ session.awaiting = None
  BY EndsLatest
<1>5. \A t \in adapter.resolved : t \in adapter.settled \/ adapter.closed
  BY <1>3, <1>4 DEF Flow
<1>6. CASE session.queue = <<>>
  <2>1. /\ session'.awaiting = session.awaiting /\ given' = given /\ Latest' = Latest
        /\ adapter'.inputs = adapter.inputs /\ agent'.asked = agent.asked
    BY <1>6, HandleTurnEndsDoes DEF Latest
  <2>2. Nowhere'
    BY <1>2, <1>3, <1>4, <2>1 DEF Nowhere, OnlyErrors, OnlyRuns, NoTurns, IsTurn
  <2>. QED BY <1>3, <1>4, <1>5, <2>1, <2>2 DEF Flow, Placed
<1>7. CASE session.queue # <<>>
  <2>1. /\ session.queue[1] \in Prompts
        /\ session'.awaiting = session.queue[1]
        /\ given' = Append(given, session.queue[1])
        /\ adapter'.inputs = (IF adapter.boot # "ready" THEN Append(adapter.inputs, Latest + 1)
                              ELSE adapter.inputs)
        /\ agent'.asked = (IF adapter.boot # "ready" \/ adapter.closed THEN agent.asked
                           ELSE Append(agent.asked, Latest + 1))
    BY <1>7, HandleTurnEndsDoes
  <2>. QED BY <1>2, <1>3, <1>4, <1>5, <2>1, DeliveryFlow
<1>. QED BY <1>6, <1>7

LEMMA PromptFlow ==
    ASSUME Records, Turnwise, Flow, NEW p \in Prompts, Prompt(p)
    PROVE  Flow'
<1>1. /\ session'.live = session.live /\ session'.stopped = session.stopped
      /\ session'.turn = session.turn
      /\ /\ adapter'.boot = adapter.boot /\ adapter'.cancel = adapter.cancel
         /\ adapter'.turn = adapter.turn /\ adapter'.settled = adapter.settled
         /\ adapter'.resolved = adapter.resolved /\ adapter'.events = adapter.events
         /\ adapter'.closed = adapter.closed
      /\ /\ agent'.wire = agent.wire /\ agent'.active = agent.active
         /\ agent'.cut = agent.cut
  BY PromptDoes
<1>2. CASE Busy(session)
  <2>1. UNCHANGED <<adapter, agent, given>> /\ session'.awaiting = session.awaiting
        /\ Latest' = Latest
    BY <1>2, PromptDoes DEF Latest
  <2>. QED BY <1>1, <2>1, SameStage DEF Serving
<1>3. CASE ~Busy(session) /\ Serving
  <2>1. ~Open /\ Placed
    BY <1>3 DEF Busy, Pending, Open, Flow
  <2>2. Nowhere
    BY <2>1 DEF Placed, AtAdapter, Asked, AtWork, Completes, UnderWay, Ending, EndComes, Open
  <2>3. /\ adapter.inputs = <<>> /\ agent.asked = <<>> /\ agent.active = None /\ OnlyErrors
        /\ NoTurns(1, Len(adapter.events))
        /\ Latest = 0 \/ Latest \in adapter.settled \/ adapter.closed
    BY <2>1, <2>2 DEF Nowhere
  <2>4. \A t \in adapter.resolved : t \in adapter.settled \/ adapter.closed
    <3>1. \A t \in adapter.resolved : t # 0
      BY LatestIs DEF Turnwise, Known
    <3>. QED BY <1>3, <2>3, <3>1 DEF Flow
  <2>5. /\ session'.awaiting = p /\ given' = Append(given, p)
        /\ adapter'.inputs = (IF adapter.boot # "ready" THEN Append(adapter.inputs, Latest + 1)
                              ELSE adapter.inputs)
        /\ agent'.asked = (IF adapter.boot # "ready" \/ adapter.closed THEN agent.asked
                           ELSE Append(agent.asked, Latest + 1))
    BY <1>3, PromptDoes
  <2>6. \A k \in 1 .. Len(adapter'.events) : ~IsTurn(adapter'.events[k])
    BY <1>1, <2>3 DEF NoTurns
  <2>. QED BY <1>1, <2>3, <2>4, <2>5, <2>6, DeliveryFlow
<1>4. CASE ~Serving
  BY <1>1, <1>4 DEF Flow, Serving
<1>. QED BY <1>2, <1>3, <1>4

\* An event of the session, not of a turn, is taken.
LEMMA HandleSessionFlow ==
    ASSUME Records, Flow, HandleSession
    PROVE  Flow'
<1>1. /\ Latest' = Latest /\ UNCHANGED <<agent, given>> /\ Serving
      /\ /\ adapter'.boot = adapter.boot /\ adapter'.inputs = adapter.inputs
         /\ adapter'.starting = adapter.starting /\ adapter'.cancel = adapter.cancel
         /\ adapter'.turn = adapter.turn /\ adapter'.settled = adapter.settled
         /\ adapter'.resolved = adapter.resolved /\ adapter'.closed = adapter.closed
      /\ /\ session'.live = session.live /\ session'.stopped = session.stopped
         /\ session'.queue = session.queue /\ session'.awaiting = session.awaiting
         /\ session'.turn = session.turn
      /\ ~IsTurn(adapter.events[1])
  BY HandleSessionDoes DEF Latest, IsTurn
<1>2. /\ Len(adapter.events) \in Nat \ {0}
      /\ Len(adapter'.events) = Len(adapter.events) - 1
      /\ \A k \in 1 .. Len(adapter.events) - 1 : adapter'.events[k] = adapter.events[k + 1]
  BY HandleSessionDoes, EventTaken
<1>3. Open' = Open
  BY <1>1 DEF Open
<1>4. ASSUME NEW n \in 1 .. Len(adapter.events), OnlyRuns(n) PROVE OnlyRuns(n - 1)'
  <2>1. \A k \in 1 .. n - 1 :
            k + 1 \in 1 .. n /\ adapter'.events[k] = adapter.events[k + 1]
    BY <1>2
  <2>. QED BY <1>1, <1>4, <2>1 DEF OnlyRuns, Runs, IsTurn
<1>5. ASSUME NEW n \in 1 .. Len(adapter.events), Announced(n) PROVE Announced(n - 1)'
  <2>1. CASE session.awaiting = None
    BY <1>1, <2>1 DEF Announced
  <2>2. CASE \E k \in 1 .. n : Runs(adapter.events[k])
    <3>1. PICK k \in 1 .. n : Runs(adapter.events[k])
      BY <2>2
    <3>2. k # 1
      BY <1>1, <3>1 DEF Runs
    <3>3. k - 1 \in 1 .. n - 1 /\ adapter'.events[k - 1] = adapter.events[k]
      BY <1>2, <3>2
    <3>. QED BY <1>1, <3>1, <3>3 DEF Announced, Runs, IsTurn
  <2>. QED BY <1>5, <2>1, <2>2 DEF Announced
<1>6. NoTurns(1, Len(adapter.events)) => NoTurns(1, Len(adapter.events))'
  BY <1>2 DEF NoTurns, IsTurn
<1>7. Nowhere => Nowhere'
  BY <1>1, <1>2, <1>3, <1>4, <1>6 DEF Nowhere, OnlyErrors
<1>8. AtAdapter => AtAdapter'
  BY <1>1, <1>6 DEF AtAdapter
<1>9. Asked => Asked'
  BY <1>1, <1>6 DEF Asked, OnlyErrors
<1>10. UnderWay => UnderWay'
  BY <1>1, <1>2, <1>3, <1>4, <1>5 DEF UnderWay
<1>11. AtWork => AtWork'
  BY <1>1, <1>10 DEF AtWork, OnlyLatest, Begun
<1>12. Completes => Completes'
  BY <1>1, <1>10 DEF Completes, OnlyLatest, Begun
<1>13. ASSUME Ending PROVE Ending'
  <2>1. PICK m \in 1 .. Len(adapter.events) :
            /\ Ends(adapter.events[m]) /\ Announced(m - 1)
            /\ OnlyRuns(m - 1) /\ NoTurns(m + 1, Len(adapter.events))
    BY <1>13 DEF Ending, EndComes
  <2>2. m # 1 /\ m - 1 \in 1 .. Len(adapter'.events) /\ m - 1 \in 1 .. Len(adapter.events)
    BY <1>1, <1>2, <2>1 DEF Ends
  <2>3. Ends(adapter.events[m - 1])' /\ OnlyRuns(m - 2)' /\ Announced(m - 2)'
    <3>1. (m - 1) - 1 = m - 2 /\ adapter'.events[m - 1] = adapter.events[m]
      BY <1>2, <2>2
    <3>. QED BY <1>1, <1>4, <1>5, <2>1, <2>2, <3>1 DEF Ends, IsTurn
  <2>4. NoTurns(m, Len(adapter.events))'
    BY <1>2, <2>1 DEF NoTurns, IsTurn
  <2>. QED BY <1>1, <1>3, <1>13, <2>2, <2>3, <2>4 DEF Ending, EndComes, OnlyErrors
<1>14. Placed'
  BY <1>1, <1>7, <1>8, <1>9, <1>11, <1>12, <1>13 DEF Flow, Placed
<1>. QED BY <1>1, <1>14 DEF Flow

\* A notice of the session joins the events of the turns.
LEMMA Notice ==
    ASSUME Records, Latest' = Latest, session' = session, NEW state \in {"idle", "dead"},
           adapter'.events = (IF adapter.closed THEN adapter.events
                              ELSE Append(adapter.events, SessionEvent(state)))
    PROVE  /\ OnlyRuns(Len(adapter.events)) => OnlyRuns(Len(adapter.events))'
           /\ NoTurns(1, Len(adapter.events)) => NoTurns(1, Len(adapter.events))'
           /\ Announced(Len(adapter.events)) => Announced(Len(adapter.events))'
           /\ EndComes => EndComes'
<1>1. CASE adapter.closed
  <2>1. adapter'.events = adapter.events
    BY <1>1
  <2>. QED BY <2>1 DEF OnlyRuns, NoTurns, Announced, EndComes, Runs, Ends, IsTurn
<1>2. CASE ~adapter.closed
  <2>. DEFINE e == SessionEvent(state)
  <2>1. e \in Events /\ ~IsTurn(e)
    BY SessionEventIs DEF SessionEvent, IsTurn
  <2>2. adapter'.events = Append(adapter.events, e)
    BY <1>2
  <2>. HIDE DEF e
  <2>3. /\ Len(adapter.events) \in Nat
        /\ Len(adapter'.events) = Len(adapter.events) + 1
        /\ \A k \in 1 .. Len(adapter.events) : adapter'.events[k] = adapter.events[k]
        /\ ~IsTurn(adapter'.events[Len(adapter.events) + 1])
    BY <2>1, <2>2, EventAdded
  <2>4. \A k \in 1 .. Len(adapter'.events) :
            IsTurn(adapter'.events[k]) =>
                k \in 1 .. Len(adapter.events) /\ adapter'.events[k] = adapter.events[k]
    BY <2>3 DEF IsTurn
  <2>5. OnlyRuns(Len(adapter.events)) => OnlyRuns(Len(adapter.events))'
    BY <2>4 DEF OnlyRuns, Runs, IsTurn
  <2>6. NoTurns(1, Len(adapter.events)) => NoTurns(1, Len(adapter.events))'
    BY <2>4 DEF NoTurns, IsTurn
  <2>7. ASSUME Announced(Len(adapter.events)) PROVE Announced(Len(adapter.events))'
    BY <2>3, <2>7 DEF Announced, Runs, IsTurn
  <2>8. ASSUME EndComes PROVE EndComes'
    <3>1. PICK m \in 1 .. Len(adapter.events) :
              /\ Ends(adapter.events[m]) /\ Announced(m - 1)
              /\ OnlyRuns(m - 1) /\ NoTurns(m + 1, Len(adapter.events))
      BY <2>8 DEF EndComes
    <3>2. m \in 1 .. Len(adapter'.events) /\ \A k \in 1 .. m - 1 : k \in 1 .. Len(adapter.events)
      BY <2>3
    <3>3. Ends(adapter.events[m])' /\ Announced(m - 1)' /\ OnlyRuns(m - 1)'
      BY <2>3, <3>1, <3>2 DEF Ends, Announced, OnlyRuns, Runs, IsTurn
    <3>4. NoTurns(m + 1, Len(adapter.events))'
      <4>1. \A k \in m + 1 .. Len(adapter'.events) : k \in 1 .. Len(adapter'.events)
        BY <2>3
      <4>2. \A k \in 1 .. Len(adapter.events) : k >= m + 1 => k \in m + 1 .. Len(adapter.events)
        BY <2>3
      <4>. QED BY <2>3, <2>4, <3>1, <4>1, <4>2 DEF NoTurns, IsTurn
    <3>. QED BY <3>2, <3>3, <3>4 DEF EndComes
  <2>. QED BY <2>5, <2>6, <2>7, <2>8
<1>. QED BY <1>1, <1>2

\* The thread exists: the prompt that came before it is on its way.
LEMMA BootsFlow ==
    ASSUME Records, Turnwise, Flow, Boots
    PROVE  Flow'
<1>. SUFFICES ASSUME Serving' PROVE Flow'
  BY DEF Flow
<1>1. /\ Latest' = Latest /\ UNCHANGED <<session, journal, given>>
      /\ session.live /\ adapter.boot = "booting"
      /\ adapter'.inputs = <<>>
      /\ /\ adapter'.cancel = adapter.cancel /\ adapter'.turn = adapter.turn
         /\ adapter'.settled = adapter.settled /\ adapter'.resolved = adapter.resolved
         /\ adapter'.closed = adapter.closed
      /\ /\ agent'.wire = agent.wire /\ agent'.active = agent.active
         /\ agent'.cut = agent.cut
      /\ agent'.asked = agent.asked \o adapter.inputs
      /\ adapter'.events = (IF adapter.closed THEN adapter.events
                            ELSE Append(adapter.events, SessionEvent("idle")))
  BY BootsDoes DEF Latest
<1>2. /\ OnlyRuns(Len(adapter.events)) => OnlyRuns(Len(adapter.events))'
      /\ NoTurns(1, Len(adapter.events)) => NoTurns(1, Len(adapter.events))'
  BY <1>1, Notice
<1>3. /\ agent.asked = <<>> /\ agent.wire = <<>> /\ agent.active = None
      /\ adapter.resolved = {} /\ adapter.settled = {} /\ adapter.turn = NoTurn
  BY <1>1 DEF Turnwise, Lifecycle, Silent
<1>4. agent'.asked = adapter.inputs
  <2>1. adapter.inputs \in Seq(Nat)
    BY Typed
  <2>2. <<>> \o adapter.inputs = adapter.inputs
    BY <2>1
  <2>. QED BY <1>1, <1>3, <2>2
<1>5. OnlyErrors'
  <2>1. Len(agent'.wire) = 0
    BY <1>1, <1>3
  <2>. QED BY <2>1 DEF OnlyErrors
<1>6. Nowhere \/ AtAdapter
  <2>1. ~Asked
    BY <1>3 DEF Asked
  <2>2. ~AtWork
    BY <1>3 DEF AtWork, None
  <2>3. ~Completes /\ ~Ending
    BY <1>3 DEF Completes, Ending
  <2>. QED BY <1>1, <2>1, <2>2, <2>3 DEF Flow, Placed, Serving
<1>7. CASE Nowhere
  <2>1. Nowhere'
    BY <1>1, <1>2, <1>3, <1>4, <1>5, <1>7 DEF Nowhere, Open
  <2>. QED BY <1>1, <2>1 DEF Flow, Placed, Serving
<1>8. CASE AtAdapter
  <2>1. adapter.turn # [id |-> Latest, run |-> TRUE]
    BY <1>3 DEF NoTurn
  <2>2. Asked'
    BY <1>1, <1>2, <1>3, <1>4, <1>5, <1>8, <2>1 DEF AtAdapter, Asked
  <2>. QED BY <1>1, <2>2 DEF Flow, Placed, Serving
<1>. QED BY <1>6, <1>7, <1>8

\* What was asked of an agent that died comes to nothing.
LEMMA DyingFlow ==
    ASSUME Records, Turnwise, Flow, BootFails \/ AgentExits
    PROVE  Flow'
<1>. SUFFICES ASSUME Serving' PROVE Flow'
  BY DEF Flow
<1>1. /\ Latest' = Latest /\ UNCHANGED <<session, given>>
      /\ /\ adapter'.inputs = adapter.inputs /\ adapter'.starting = adapter.starting
         /\ adapter'.cancel = adapter.cancel /\ adapter'.turn = adapter.turn
         /\ adapter'.settled = adapter.settled /\ adapter'.resolved = adapter.resolved
      /\ adapter'.closed
      /\ adapter'.boot = "ready" => adapter.boot = "ready"
      /\ adapter.boot = "ready" => adapter'.boot = "ready"
      /\ adapter'.events = (IF adapter.closed THEN adapter.events
                            ELSE Append(adapter.events, SessionEvent("dead")))
  BY BootFailsDoes, AgentExitsDoes DEF Latest
<1>2. agent'.asked = <<>> /\ agent'.wire = <<>> /\ agent'.active = None
  <2>1. CASE BootFails
    BY <2>1, BootFailsDoes DEF Turnwise, Lifecycle, Silent
  <2>2. CASE AgentExits
    BY <2>2, AgentExitsDoes
  <2>. QED BY <2>1, <2>2
<1>3. /\ OnlyRuns(Len(adapter.events)) => OnlyRuns(Len(adapter.events))'
      /\ NoTurns(1, Len(adapter.events)) => NoTurns(1, Len(adapter.events))'
      /\ EndComes => EndComes'
  BY <1>1, Notice
<1>4. OnlyErrors'
  <2>1. Len(agent'.wire) = 0
    BY <1>2
  <2>. QED BY <2>1 DEF OnlyErrors
<1>5. Placed /\ Serving
  BY <1>1 DEF Flow, Serving
<1>. SUFFICES Placed'
  BY <1>1, <1>5 DEF Flow
<1>6. CASE Nowhere
  <2>1. Nowhere'
    BY <1>1, <1>2, <1>3, <1>4, <1>6 DEF Nowhere, Open
  <2>. QED BY <2>1 DEF Placed
<1>7. CASE AtAdapter
  <2>1. AtAdapter'
    BY <1>1, <1>3, <1>7 DEF AtAdapter
  <2>. QED BY <2>1 DEF Placed
<1>8. CASE Asked
  <2>1. OnlyRuns(Len(adapter.events))
    BY <1>8 DEF Asked, NoTurns, OnlyRuns
  <2>2. Nowhere'
    BY <1>1, <1>2, <1>3, <1>4, <1>8, <2>1 DEF Asked, Nowhere, Open
  <2>. QED BY <2>2 DEF Placed
<1>9. CASE AtWork \/ Completes
  <2>1. Nowhere'
    BY <1>1, <1>2, <1>3, <1>4, <1>9 DEF AtWork, Completes, UnderWay, Nowhere, Open
  <2>. QED BY <2>1 DEF Placed
<1>10. CASE Ending
  <2>1. Ending'
    BY <1>1, <1>2, <1>3, <1>4, <1>10 DEF Ending, Open
  <2>. QED BY <2>1 DEF Placed
<1>. QED BY <1>5, <1>6, <1>7, <1>8, <1>9, <1>10 DEF Placed

\* The adapter tells the session that the latest turn runs.
LEMMA EmitsRun ==
    ASSUME Records, Latest' = Latest, session' = session, Emits(Latest, TRUE), ~adapter.closed
    PROVE  /\ OnlyRuns(Len(adapter.events)) => OnlyRuns(Len(adapter.events))'
           /\ Announced(Len(adapter.events))'
<1>. PICK e : e = TurnEvent(Latest, TRUE)
  OBVIOUS
<1>1. e \in Events /\ Runs(e) /\ Runs(e)'
  BY LatestIs DEF TurnEvent, Events, Runs, IsTurn
<1>2. adapter'.events = Append(adapter.events, e)
  BY DEF Emits
<1>3. /\ Len(adapter.events) \in Nat
      /\ Len(adapter'.events) = Len(adapter.events) + 1
      /\ \A k \in 1 .. Len(adapter.events) : adapter'.events[k] = adapter.events[k]
      /\ adapter'.events[Len(adapter.events) + 1] = e
  BY <1>1, <1>2, EventAdded
<1>4. ASSUME OnlyRuns(Len(adapter.events)) PROVE OnlyRuns(Len(adapter.events))'
  <2>. SUFFICES ASSUME NEW k \in 1 .. Len(adapter'.events), IsTurn(adapter'.events[k])
                PROVE  Runs(adapter.events[k])'
    BY DEF OnlyRuns, IsTurn
  <2>1. CASE k \in 1 .. Len(adapter.events)
    BY <1>3, <1>4, <2>1 DEF OnlyRuns, Runs, IsTurn
  <2>2. CASE k = Len(adapter.events) + 1
    BY <1>1, <1>3, <2>2
  <2>. QED BY <1>3, <2>1, <2>2
<1>5. Announced(Len(adapter.events))'
  <2>1. Len(adapter.events) + 1 \in 1 .. Len(adapter'.events)
    BY <1>3
  <2>. QED BY <1>1, <1>3, <2>1 DEF Announced
<1>. QED BY <1>4, <1>5

\* startTurn() goes on: the latest turn runs, or nothing comes of it.
LEMMA TurnStartReturnsFlow ==
    ASSUME Records, Turnwise, Flow, NEW t, TurnStartReturns(t)
    PROVE  Flow'
<1>. SUFFICES ASSUME Serving' PROVE Flow'
  BY DEF Flow
<1>1. /\ t \in adapter.resolved /\ Latest' = Latest /\ UNCHANGED <<session, journal, given>>
      /\ adapter'.resolved = adapter.resolved \ {t}
      /\ adapter'.boot = adapter.boot /\ adapter'.inputs = adapter.inputs
      /\ adapter'.closed = adapter.closed
      /\ /\ agent'.asked = agent.asked /\ agent'.wire = agent.wire
         /\ agent'.active = agent.active /\ agent'.cut = agent.cut
      /\ \/ Quiet
         \/ Emits(t, TRUE)
  BY TurnStartReturnsDoes DEF Latest
<1>2. /\ Serving /\ Placed /\ t \in 1 .. Latest /\ adapter.boot = "ready"
      /\ t = Latest \/ t \in adapter.settled \/ adapter.closed
  BY <1>1 DEF Flow, Serving, Turnwise, Known, Lifecycle
<1>3. SUFFICES Placed'
  <2>1. adapter'.settled = adapter.settled
    BY <1>1 DEF Quiet, Emits
  <2>. QED BY <1>1, <1>2, <1>3, <2>1 DEF Flow
<1>4. ~AtAdapter
  BY <1>2 DEF AtAdapter
<1>5. CASE Quiet
  <2>1. Nowhere => Nowhere'
    BY <1>1, <1>5 DEF Quiet, Nowhere, OnlyErrors, OnlyRuns, NoTurns, Open, Runs, IsTurn
  <2>2. Asked => Asked'
    BY <1>1, <1>5 DEF Quiet, Asked, OnlyErrors, NoTurns, IsTurn
  <2>3. UnderWay => UnderWay'
    BY <1>1, <1>5 DEF Quiet, UnderWay, OnlyRuns, Announced, Open, Runs, IsTurn
  <2>4. ASSUME NEW k, Begun(k) PROVE Begun(k)'
    BY <1>1, <1>5, <2>4 DEF Quiet, Begun
  <2>5. ASSUME NEW k, OnlyLatest(k) PROVE OnlyLatest(k)'
    BY <1>1, <2>4, <2>5 DEF OnlyLatest
  <2>6. AtWork => AtWork'
    BY <1>1, <2>3, <2>4, <2>5 DEF AtWork
  <2>7. Completes => Completes'
    BY <1>1, <2>3, <2>4, <2>5 DEF Completes
  <2>8. Ending => Ending'
    BY <1>1, <1>5 DEF Quiet, Ending, EndComes, OnlyErrors, OnlyRuns, NoTurns, Open, Announced,
       Runs, Ends, IsTurn
  <2>. QED BY <1>2, <1>4, <2>1, <2>2, <2>6, <2>7, <2>8 DEF Placed
<1>6. CASE Emits(t, TRUE) /\ adapter.closed
  <2>1. adapter'.events = adapter.events /\ adapter'.settled = adapter.settled
    BY <1>6 DEF Emits
  <2>2. agent.asked = <<>> /\ agent.wire = <<>> /\ agent.active = None
    BY <1>6 DEF Turnwise, Lifecycle, Silent
  <2>3. ~Asked /\ ~Completes
    BY <2>2 DEF Asked, Completes
  <2>4. ~AtWork
    BY <2>2 DEF AtWork, None
  <2>5. Nowhere => Nowhere'
    BY <1>1, <2>1 DEF Nowhere, OnlyErrors, OnlyRuns, NoTurns, Open, Runs, IsTurn
  <2>6. Ending => Ending'
    BY <1>1, <2>1 DEF Ending, EndComes, OnlyErrors, OnlyRuns, NoTurns, Open, Announced,
       Runs, Ends, IsTurn
  <2>. QED BY <1>2, <1>4, <2>3, <2>4, <2>5, <2>6 DEF Placed
<1>7. CASE Emits(t, TRUE) /\ ~adapter.closed
  <2>1. /\ t = Latest /\ Latest \notin adapter.settled /\ Latest # 0
        /\ adapter'.turn = [id |-> Latest, run |-> TRUE]
        /\ adapter'.settled = adapter.settled
    <3>1. t \notin adapter.settled /\ adapter'.turn = [id |-> t, run |-> TRUE]
          /\ adapter'.settled = adapter.settled
      BY <1>7 DEF Emits
    <3>2. t = Latest /\ Latest # 0
      BY <1>2, <1>7, <3>1, LatestIs
    <3>. QED BY <3>1, <3>2
  <2>2. /\ OnlyRuns(Len(adapter.events)) => OnlyRuns(Len(adapter.events))'
        /\ Announced(Len(adapter.events))'
    BY <1>1, <1>7, <2>1, EmitsRun
  <2>3. ~Asked /\ ~Ending
    BY <1>1, <2>1 DEF Asked, Ending
  <2>4. Nowhere => Nowhere'
    BY <1>1, <1>7, <2>1, <2>2 DEF Nowhere, OnlyErrors, Open
  <2>5. UnderWay => UnderWay'
    BY <1>1, <2>1, <2>2 DEF UnderWay, Open
  <2>6. \A k : Begun(k)'
    BY <1>1, <2>1 DEF Begun
  <2>7. ASSUME NEW k, OnlyLatest(k) PROVE OnlyLatest(k)'
    BY <1>1, <2>6, <2>7 DEF OnlyLatest
  <2>8. AtWork => AtWork'
    BY <1>1, <2>5, <2>6, <2>7 DEF AtWork
  <2>9. Completes => Completes'
    BY <1>1, <2>5, <2>6, <2>7 DEF Completes
  <2>. QED BY <1>2, <1>4, <2>3, <2>4, <2>8, <2>9 DEF Placed
<1>. QED BY <1>1, <1>5, <1>6, <1>7

\* The pipe is one frame shorter.
LEMMA FrameTaken ==
    ASSUME Records, Latest' = Latest, agent.wire # <<>>, agent'.wire = Tail(agent.wire),
           \/ adapter'.turn = [id |-> Latest, run |-> TRUE]
           \/ adapter'.turn = adapter.turn /\ agent.wire[1].kind # "started"
    PROVE  /\ Len(agent.wire) \in Nat \ {0} /\ Len(agent'.wire) = Len(agent.wire) - 1
           /\ \A k \in 1 .. Len(agent.wire) - 1 : agent'.wire[k] = agent.wire[k + 1]
           /\ OnlyErrors => OnlyErrors'
           /\ \A k \in 1 .. Len(agent.wire) : Begun(k + 1) => Begun(k)'
           /\ \A n \in 1 .. Len(agent.wire) : OnlyLatest(n) => OnlyLatest(n - 1)'
<1>1. /\ Len(agent.wire) \in Nat \ {0} /\ Len(agent'.wire) = Len(agent.wire) - 1
      /\ \A k \in 1 .. Len(agent.wire) - 1 : agent'.wire[k] = agent.wire[k + 1]
  BY Typed, TailIs
<1>2. OnlyErrors => OnlyErrors'
  BY <1>1 DEF OnlyErrors
<1>3. ASSUME NEW k \in 1 .. Len(agent.wire), Begun(k + 1) PROVE Begun(k)'
  <2>1. CASE adapter'.turn = [id |-> Latest, run |-> TRUE]
    BY <2>1 DEF Begun
  <2>2. CASE adapter.turn = [id |-> Latest, run |-> TRUE] /\ adapter'.turn = adapter.turn
    BY <2>2 DEF Begun
  <2>3. CASE /\ \E j \in 1 .. k : agent.wire[j].kind = "started"
             /\ agent.wire[1].kind # "started"
    <3>1. PICK j \in 1 .. k : agent.wire[j].kind = "started"
      BY <2>3
    <3>2. j - 1 \in 1 .. k - 1 /\ agent'.wire[j - 1] = agent.wire[j]
      BY <1>1, <2>3, <3>1
    <3>. QED BY <3>1, <3>2 DEF Begun
  <2>. QED BY <1>3, <2>1, <2>2, <2>3 DEF Begun
<1>4. ASSUME NEW n \in 1 .. Len(agent.wire), OnlyLatest(n) PROVE OnlyLatest(n - 1)'
  <2>1. \A k \in 1 .. n - 1 :
            /\ k + 1 \in 1 .. n /\ agent'.wire[k] = agent.wire[k + 1]
            /\ k \in 1 .. Len(agent.wire)
    BY <1>1
  <2>. QED BY <1>3, <1>4, <2>1 DEF OnlyLatest
<1>. QED BY <1>1, <1>2, <1>3, <1>4

\* The adapter tells the session that the latest turn is over.
LEMMA EmitsEnd ==
    ASSUME Records, Latest' = Latest, session' = session, Emits(Latest, FALSE),
           ~adapter.closed, OnlyRuns(Len(adapter.events)), Announced(Len(adapter.events))
    PROVE  EndComes'
<1>. PICK e : e = TurnEvent(Latest, FALSE)
  OBVIOUS
<1>1. e \in Events /\ Ends(e)'
  BY LatestIs DEF TurnEvent, Events, Ends, IsTurn
<1>2. adapter'.events = Append(adapter.events, e)
  BY DEF Emits
<1>. DEFINE m == Len(adapter.events) + 1
<1>3. /\ Len(adapter.events) \in Nat
      /\ Len(adapter'.events) = m
      /\ \A k \in 1 .. Len(adapter.events) : adapter'.events[k] = adapter.events[k]
      /\ adapter'.events[m] = e
  BY <1>1, <1>2, EventAdded
<1>. PICK n : n = m
  OBVIOUS
<1>4. /\ n \in 1 .. Len(adapter'.events) /\ n - 1 = Len(adapter.events)
      /\ adapter'.events[n] = e
      /\ \A k \in 1 .. n - 1 : adapter'.events[k] = adapter.events[k]
  BY <1>3
<1>5. Ends(adapter.events[n])'
  BY <1>1, <1>4
<1>6. OnlyRuns(n - 1)' /\ Announced(n - 1)'
  BY <1>4 DEF OnlyRuns, Announced, Runs, IsTurn
<1>7. NoTurns(n + 1, Len(adapter.events))'
  BY <1>3 DEF NoTurns
<1>. QED BY <1>4, <1>5, <1>6, <1>7 DEF EndComes

LEMMA Empty == ASSUME NEW s, Len(s) # 0 PROVE s # <<>>
<1>. SUFFICES ASSUME s = <<>> PROVE Len(s) = 0
  OBVIOUS
<1>1. Len(<<>>) = 0
  OBVIOUS
<1>. QED BY <1>1

LEMMA Before ==
    ASSUME NEW n \in Nat \ {0}, n # 1
    PROVE  /\ n - 1 \in 1 .. n - 1 /\ n - 1 \in 1 .. n /\ 1 \in 1 .. n - 1
           /\ (n - 1) + 1 = n /\ (n - 1) - 1 = n - 2
OBVIOUS

LEMMA ReceiveFlow ==
    ASSUME Records, Turnwise, Flow, Receive
    PROVE  Flow'
<1>. SUFFICES ASSUME Serving' PROVE Flow'
  BY DEF Flow
<1>. DEFINE f == agent.wire[1]
<1>. PICK n : n = Len(agent.wire)
  OBVIOUS
<1>1. /\ Latest' = Latest /\ UNCHANGED <<session, journal, given>>
      /\ agent.wire # <<>> /\ agent'.wire = Tail(agent.wire)
      /\ /\ agent'.asked = agent.asked /\ agent'.active = agent.active
         /\ agent'.cut = agent.cut
      /\ adapter'.boot = adapter.boot /\ adapter'.inputs = adapter.inputs
      /\ adapter'.closed = adapter.closed
  BY ReceiveDoes DEF Latest
<1>2. /\ Serving /\ Placed /\ adapter.boot = "ready" /\ ~adapter.closed
      /\ session.awaiting # None => Latest # 0 /\ given[Latest] = session.awaiting
      /\ \A t \in adapter.resolved : t = Latest \/ t \in adapter.settled
  BY <1>1 DEF Flow, Serving, Turnwise, Lifecycle, Silent
<1>3. n \in Nat \ {0}
  BY <1>1, Typed, TailIs
<1>. HIDE DEF f
<1>4. CASE f.kind = "error"
  <2>1. /\ /\ adapter'.starting = adapter.starting /\ adapter'.cancel = adapter.cancel
           /\ adapter'.turn = adapter.turn /\ adapter'.settled = adapter.settled
           /\ adapter'.resolved = adapter.resolved
        /\ adapter'.events = (IF adapter.closed THEN adapter.events
                              ELSE Append(adapter.events, SessionEvent("dead")))
    BY <1>4, ReceiveDoes DEF f
  <2>2. /\ OnlyRuns(Len(adapter.events)) => OnlyRuns(Len(adapter.events))'
        /\ NoTurns(1, Len(adapter.events)) => NoTurns(1, Len(adapter.events))'
        /\ Announced(Len(adapter.events)) => Announced(Len(adapter.events))'
        /\ EndComes => EndComes'
    BY <1>1, <2>1, Notice
  <2>3. /\ Len(agent'.wire) = n - 1
        /\ \A k \in 1 .. n - 1 : agent'.wire[k] = agent.wire[k + 1]
        /\ OnlyErrors => OnlyErrors'
        /\ \A k \in 1 .. n : Begun(k + 1) => Begun(k)'
        /\ \A k \in 1 .. n : OnlyLatest(k) => OnlyLatest(k - 1)'
    BY <1>1, <1>4, <2>1, FrameTaken DEF f
  <2>4. Nowhere => Nowhere'
    BY <1>1, <2>1, <2>2, <2>3 DEF Nowhere, Open
  <2>5. AtAdapter => AtAdapter'
    BY <1>2 DEF AtAdapter
  <2>6. Asked => Asked'
    BY <1>1, <2>1, <2>2, <2>3 DEF Asked
  <2>7. UnderWay => UnderWay'
    BY <1>1, <2>1, <2>2 DEF UnderWay, Open
  <2>8. AtWork => AtWork'
    <3>1. n \in 1 .. n /\ Len(agent'.wire) + 1 = n
      BY <1>3, <2>3
    <3>. QED BY <1>1, <2>3, <2>7, <3>1 DEF AtWork
  <2>9. ASSUME Completes PROVE Completes'
    <3>1. agent.wire[n] = Frame("completed", Latest) /\ OnlyLatest(n - 1) /\ Begun(n)
      BY <2>9 DEF Completes
    <3>2. n # 1
      BY <1>4, <3>1 DEF f, Frame
    <3>3. n - 1 \in 1 .. n - 1 /\ n - 1 \in 1 .. n /\ (n - 1) + 1 = n
      BY <1>3, <3>2, Before
    <3>4. agent'.wire[n - 1] = Frame("completed", Latest)
      BY <2>3, <3>1, <3>3
    <3>5. OnlyLatest(n - 2)' /\ Begun(n - 1)'
      <4>1. (n - 1) - 1 = n - 2
        BY <1>3
      <4>. QED BY <2>3, <3>1, <3>3, <4>1
    <3>6. Len(agent'.wire) = n - 1 /\ agent'.wire # <<>> /\ Len(agent'.wire) - 1 = n - 2
      <4>1. Len(agent'.wire) = n - 1 /\ Len(agent'.wire) # 0
        BY <1>3, <2>3, <3>2
      <4>2. agent'.wire # <<>>
        BY <4>1, Empty
      <4>. QED BY <1>3, <4>1, <4>2
    <3>. QED BY <1>1, <2>7, <2>9, <3>4, <3>5, <3>6 DEF Completes
  <2>10. Ending => Ending'
    BY <1>1, <2>1, <2>2, <2>3 DEF Ending, Open
  <2>11. Placed'
    BY <1>2, <2>4, <2>5, <2>6, <2>8, <2>9, <2>10 DEF Placed
  <2>. QED BY <1>1, <1>2, <2>1, <2>11 DEF Flow
<1>5. CASE f.kind # "error"
  <2>1. AtWork \/ Completes
    <3>1. ~OnlyErrors
      BY <1>3, <1>5 DEF OnlyErrors, f
    <3>. QED BY <1>2, <3>1 DEF Placed, Nowhere, AtAdapter, Asked, Ending
  <2>2. UnderWay
    BY <2>1 DEF AtWork, Completes
  <2>3. CASE f.kind # "completed"
    <3>1. PICK m \in 1 .. n : OnlyLatest(m) /\ (Completes => m = n - 1) /\ (AtWork => m = n)
      <4>1. CASE AtWork
        BY <1>3, <4>1 DEF AtWork, Completes, None
      <4>2. CASE Completes
        <5>1. agent.wire[n] = Frame("completed", Latest) /\ OnlyLatest(n - 1)
          BY <4>2 DEF Completes
        <5>2. n # 1
          BY <2>3, <5>1 DEF f, Frame
        <5>3. n - 1 \in 1 .. n
          BY <1>3, <5>2, Before
        <5>4. ~AtWork
          BY <4>2 DEF AtWork, Completes, None
        <5>. QED BY <5>1, <5>3, <5>4
      <4>. QED BY <2>1, <4>1, <4>2
    <3>2. f.turn = Latest /\ (f.kind = "usage" => adapter.turn = [id |-> Latest, run |-> TRUE])
      <4>1. 1 \in 1 .. m
        BY <1>3, <3>1
      <4>2. Begun(1) => adapter.turn = [id |-> Latest, run |-> TRUE]
        BY DEF Begun
      <4>. QED BY <1>5, <3>1, <4>1, <4>2 DEF OnlyLatest, f
    <3>3. \/ /\ Quiet /\ f.kind # "started"
             /\ adapter'.resolved \subseteq adapter.resolved \cup {Latest}
          \/ Emits(Latest, TRUE) /\ adapter'.resolved = adapter.resolved
      <4>1. Latest \notin adapter.settled
        BY <2>2 DEF UnderWay
      <4>2. f.kind = "usage" => adapter.turn.id = Latest /\ adapter.turn.run = TRUE
        BY <3>2
      <4>. QED BY <1>5, <2>3, <3>2, <4>1, <4>2, ReceiveDoes DEF f
    <3>4. /\ OnlyRuns(Len(adapter.events))'
          /\ adapter'.settled = adapter.settled
          /\ adapter'.turn = [id |-> Latest, run |-> TRUE] => Announced(Len(adapter.events))'
          /\ \/ adapter'.turn = [id |-> Latest, run |-> TRUE]
             \/ adapter'.turn = adapter.turn /\ f.kind # "started"
      <4>1. CASE Quiet /\ f.kind # "started"
        BY <1>1, <2>2, <4>1 DEF Quiet, UnderWay, OnlyRuns, Announced, Runs, IsTurn
      <4>2. CASE Emits(Latest, TRUE)
        <5>1. adapter'.settled = adapter.settled /\ adapter'.turn = [id |-> Latest, run |-> TRUE]
          BY <4>2 DEF Emits
        <5>2. OnlyRuns(Len(adapter.events))' /\ Announced(Len(adapter.events))'
          BY <1>1, <1>2, <2>2, <4>2, EmitsRun DEF UnderWay
        <5>. QED BY <5>1, <5>2
      <4>. QED BY <3>3, <4>1, <4>2
    <3>5. /\ Len(agent'.wire) = n - 1
          /\ \A k \in 1 .. n - 1 : agent'.wire[k] = agent.wire[k + 1]
          /\ \A k \in 1 .. n : Begun(k + 1) => Begun(k)'
          /\ \A k \in 1 .. n : OnlyLatest(k) => OnlyLatest(k - 1)'
      BY <1>1, <3>4, FrameTaken DEF f
    <3>6. UnderWay'
      BY <1>1, <2>2, <3>4 DEF UnderWay, Open
    <3>7. ASSUME AtWork PROVE AtWork'
      <4>1. n \in 1 .. n /\ Len(agent'.wire) + 1 = n /\ m = n
        BY <1>3, <3>1, <3>5, <3>7
      <4>2. Begun(n)' /\ OnlyLatest(n - 1)'
        BY <3>1, <3>5, <3>7, <4>1 DEF AtWork
      <4>. QED BY <1>1, <3>5, <3>6, <3>7, <4>1, <4>2 DEF AtWork
    <3>8. ASSUME Completes PROVE Completes'
      <4>1. agent.wire[n] = Frame("completed", Latest) /\ OnlyLatest(n - 1) /\ Begun(n)
        BY <3>8 DEF Completes
      <4>2. n - 1 \in 1 .. n /\ (n - 1) + 1 = n /\ n - 1 \in 1 .. n - 1
        BY <1>3, <3>1, <3>8
      <4>3. agent'.wire[n - 1] = Frame("completed", Latest)
        BY <3>5, <4>1, <4>2
      <4>4. OnlyLatest(n - 2)' /\ Begun(n - 1)'
        <5>1. (n - 1) - 1 = n - 2
          BY <1>3
        <5>. QED BY <3>5, <4>1, <4>2, <5>1
      <4>5. Len(agent'.wire) = n - 1 /\ agent'.wire # <<>> /\ Len(agent'.wire) - 1 = n - 2
        <5>1. Len(agent'.wire) = n - 1 /\ Len(agent'.wire) # 0
          BY <1>3, <3>5, <4>2
        <5>2. agent'.wire # <<>>
          BY <5>1, Empty
        <5>. QED BY <1>3, <5>1, <5>2
      <4>. QED BY <1>1, <3>6, <3>8, <4>3, <4>4, <4>5 DEF Completes
    <3>9. Placed'
      BY <2>1, <3>7, <3>8 DEF Placed
    <3>10. \A t \in adapter'.resolved : t = Latest \/ t \in adapter'.settled \/ adapter'.closed
      BY <1>2, <3>3, <3>4 DEF Quiet
    <3>. QED BY <1>1, <1>2, <3>9, <3>10 DEF Flow
  <2>4. CASE f.kind = "completed"
    <3>1. Emits(f.turn, FALSE) /\ adapter'.resolved = adapter.resolved
      BY <2>4, ReceiveDoes DEF f
    <3>2. Completes /\ n = 1
      <4>1. ~AtWork
        BY <1>3, <2>4 DEF AtWork, OnlyLatest, f
      <4>2. n = 1
        <5>1. OnlyLatest(n - 1)
          BY <2>1, <4>1 DEF Completes
        <5>2. n # 1 => 1 \in 1 .. n - 1
          BY <1>3, Before
        <5>. QED BY <2>4, <5>1, <5>2 DEF OnlyLatest, f
      <4>. QED BY <2>1, <4>1, <4>2
    <3>3. f.turn = Latest /\ adapter.turn = [id |-> Latest, run |-> TRUE]
      BY <3>2 DEF Completes, Begun, Frame, f
    <3>4. /\ OnlyRuns(Len(adapter.events)) /\ Announced(Len(adapter.events))
          /\ Open /\ adapter.inputs = <<>> /\ agent.asked = <<>> /\ agent.active = None
      BY <3>2, <3>3 DEF Completes, UnderWay
    <3>5. EndComes'
      BY <1>1, <1>2, <3>1, <3>3, <3>4, EmitsEnd
    <3>6. OnlyErrors'
      <4>1. Len(agent'.wire) = 0
        <5>1. agent.wire \in Seq(Frames)
          BY Typed
        <5>2. Len(agent'.wire) = n - 1
          BY <1>1, <5>1, TailIs
        <5>. QED BY <3>2, <5>2
      <4>. QED BY <4>1 DEF OnlyErrors
    <3>7. adapter'.settled = adapter.settled \cup {Latest}
      BY <3>1, <3>3 DEF Emits
    <3>8. Ending'
      BY <1>1, <3>4, <3>5, <3>6, <3>7 DEF Ending, Open
    <3>. QED BY <1>1, <1>2, <3>1, <3>7, <3>8 DEF Flow, Placed
  <2>. QED BY <2>3, <2>4
<1>. QED BY <1>4, <1>5

\* The pipe is one frame longer.
LEMMA FrameAdded ==
    ASSUME Records, NEW f \in Frames, agent'.wire = Append(agent.wire, f),
           adapter' = adapter, Latest' = Latest
    PROVE  /\ Len(agent.wire) \in Nat /\ Len(agent'.wire) = Len(agent.wire) + 1
           /\ \A k \in 1 .. Len(agent.wire) : agent'.wire[k] = agent.wire[k]
           /\ agent'.wire[Len(agent.wire) + 1] = f
           /\ \A k \in 1 .. Len(agent.wire) + 1 : Begun(k) => Begun(k)'
           /\ \A n \in 0 .. Len(agent.wire) : OnlyLatest(n) => OnlyLatest(n)'
<1>1. /\ Len(agent.wire) \in Nat /\ Len(agent'.wire) = Len(agent.wire) + 1
      /\ \A k \in 1 .. Len(agent.wire) : agent'.wire[k] = agent.wire[k]
      /\ agent'.wire[Len(agent.wire) + 1] = f
  BY Typed, AppendIs
<1>2. ASSUME NEW k \in 1 .. Len(agent.wire) + 1, Begun(k) PROVE Begun(k)'
  <2>1. \A j \in 1 .. k - 1 : agent'.wire[j] = agent.wire[j]
    BY <1>1
  <2>. QED BY <1>2, <2>1 DEF Begun
<1>3. ASSUME NEW n \in 0 .. Len(agent.wire), OnlyLatest(n) PROVE OnlyLatest(n)'
  <2>1. \A k \in 1 .. n : agent'.wire[k] = agent.wire[k] /\ k \in 1 .. Len(agent.wire) + 1
    BY <1>1
  <2>. QED BY <1>2, <1>3, <2>1 DEF OnlyLatest
<1>. QED BY <1>1, <1>2, <1>3

LEMMA OneAsked ==
    ASSUME NEW n \in Nat
    PROVE  <<n>> # <<>> /\ <<n>>[1] = n /\ Tail(<<n>>) = <<>>
OBVIOUS

\* Only a turn on its way is asked for, only a turn at work is active.
LEMMA WhenAsked ==
    ASSUME Placed, Lifecycle, agent.asked # <<>>
    PROVE  Asked
<1>1. ~Nowhere /\ ~Ending
  BY DEF Nowhere, Ending
<1>2. ~AtAdapter
  BY DEF AtAdapter, Lifecycle, Silent
<1>3. ~AtWork /\ ~Completes
  BY DEF AtWork, Completes, UnderWay
<1>. QED BY <1>1, <1>2, <1>3 DEF Placed

LEMMA WhenActive ==
    ASSUME Placed, Lifecycle, agent.active # None
    PROVE  AtWork
<1>1. ~Nowhere /\ ~Ending
  BY DEF Nowhere, Ending
<1>2. ~AtAdapter /\ ~Asked
  BY DEF AtAdapter, Asked, Lifecycle, Silent
<1>3. ~Completes
  BY DEF Completes
<1>. QED BY <1>1, <1>2, <1>3 DEF Placed

LEMMA AgentStartsFlow ==
    ASSUME Records, Turnwise, Flow, AgentStarts
    PROVE  Flow'
<1>. SUFFICES ASSUME Serving' PROVE Flow'
  BY DEF Flow
<1>. DEFINE h == agent.asked[1]
<1>1. /\ agent.asked # <<>> /\ Aside /\ h \in Nat
      /\ agent'.asked = Tail(agent.asked) /\ agent'.active = h
      /\ agent'.wire = Append(Append(agent.wire, Frame("response", h)), Frame("started", h))
  BY AgentStartsDoes
<1>2. Latest' = Latest /\ Serving /\ Placed /\ Latest \in Nat
  BY <1>1, LatestIs DEF Aside, Latest, Serving, Flow
<1>3. Asked
  BY <1>1, <1>2, WhenAsked DEF Turnwise
<1>4. h = Latest /\ agent'.asked = <<>> /\ agent'.active = Latest /\ Latest # 0
  <2>1. agent.asked = <<Latest>> /\ session.awaiting # None
    BY <1>3 DEF Asked
  <2>2. Latest # 0
    BY <1>2, <2>1 DEF Flow
  <2>. QED BY <1>1, <1>2, <2>1, <2>2, OneAsked
<1>. PICK r, s : r = Frame("response", h) /\ s = Frame("started", h)
  OBVIOUS
<1>5. r \in Frames /\ r.kind = "response" /\ r.turn = Latest
      /\ s \in Frames /\ s.kind = "started" /\ s.turn = Latest
  BY <1>1, <1>4, FrameIs
<1>. PICK n : n = Len(agent.wire)
  OBVIOUS
<1>6. /\ n \in Nat /\ Len(agent'.wire) = n + 2
      /\ \A k \in 1 .. n : agent'.wire[k] = agent.wire[k]
      /\ agent'.wire[n + 1] = r /\ agent'.wire[n + 2] = s
  <2>1. agent.wire \in Seq(Frames) /\ agent'.wire = Append(Append(agent.wire, r), s)
    BY <1>1, Typed
  <2>. DEFINE w == Append(agent.wire, r)
  <2>2. /\ w \in Seq(Frames) /\ n \in Nat /\ Len(w) = n + 1
        /\ \A k \in 1 .. n : w[k] = agent.wire[k]
        /\ w[n + 1] = r
    BY <1>5, <2>1, AppendIs
  <2>3. /\ Len(agent'.wire) = Len(w) + 1
        /\ \A k \in 1 .. Len(w) : agent'.wire[k] = w[k]
        /\ agent'.wire[Len(w) + 1] = s
    BY <1>5, <2>1, <2>2, AppendIs
  <2>. HIDE DEF w
  <2>. QED BY <2>2, <2>3
<1>7. OnlyLatest(Len(agent.wire))'
  <2>1. \A k \in 1 .. n : agent.wire[k].kind = "error"
    BY <1>3 DEF Asked, OnlyErrors
  <2>2. \A k \in 1 .. Len(agent'.wire) : k \in 1 .. n \/ k = n + 1 \/ k = n + 2
    BY <1>6
  <2>. QED BY <1>2, <1>5, <1>6, <2>1, <2>2 DEF OnlyLatest
<1>8. Begun(Len(agent.wire) + 1)'
  <2>1. n + 2 \in 1 .. Len(agent'.wire) + 1 - 1
    BY <1>6
  <2>. QED BY <1>5, <1>6, <2>1 DEF Begun
<1>9. UnderWay'
  BY <1>1, <1>2, <1>3, <1>4 DEF Aside, Asked, UnderWay, NoTurns, OnlyRuns, Open, IsTurn
<1>10. AtWork'
  BY <1>2, <1>4, <1>7, <1>8, <1>9 DEF AtWork
<1>. QED BY <1>1, <1>2, <1>10 DEF Aside, Flow, Placed, Serving

LEMMA AgentRejectsFlow ==
    ASSUME Records, Turnwise, Flow, AgentRejects
    PROVE  Flow'
<1>. SUFFICES ASSUME Serving' PROVE Flow'
  BY DEF Flow
<1>. DEFINE h == agent.asked[1]
<1>1. /\ agent.asked # <<>> /\ Aside /\ h \in Nat
      /\ agent'.asked = Tail(agent.asked) /\ agent'.active = agent.active
      /\ agent'.wire = Append(agent.wire, Frame("error", h))
  BY AgentRejectsDoes
<1>2. Latest' = Latest /\ Serving /\ Placed /\ Latest \in Nat
  BY <1>1, LatestIs DEF Aside, Latest, Serving, Flow
<1>3. Asked
  BY <1>1, <1>2, WhenAsked DEF Turnwise
<1>4. agent'.asked = <<>>
  BY <1>1, <1>2, <1>3, OneAsked DEF Asked
<1>. PICK r : r = Frame("error", h)
  OBVIOUS
<1>5. r \in Frames /\ r.kind = "error"
  BY <1>1, FrameIs
<1>6. OnlyErrors'
  <2>1. /\ Len(agent.wire) \in Nat /\ Len(agent'.wire) = Len(agent.wire) + 1
        /\ \A k \in 1 .. Len(agent.wire) : agent'.wire[k] = agent.wire[k]
        /\ agent'.wire[Len(agent.wire) + 1] = r
    BY <1>1, <1>5, Typed, AppendIs
  <2>2. \A k \in 1 .. Len(agent'.wire) : k \in 1 .. Len(agent.wire) \/ k = Len(agent.wire) + 1
    BY <2>1
  <2>. QED BY <1>3, <1>5, <2>1, <2>2 DEF Asked, OnlyErrors
<1>7. Nowhere'
  BY <1>1, <1>2, <1>3, <1>4, <1>6 DEF Aside, Asked, Nowhere, OnlyRuns, NoTurns, Open, IsTurn
<1>. QED BY <1>1, <1>2, <1>7 DEF Aside, Flow, Placed, Serving

LEMMA AgentReportsFlow ==
    ASSUME Records, Turnwise, Flow, AgentReports
    PROVE  Flow'
<1>. SUFFICES ASSUME Serving' PROVE Flow'
  BY DEF Flow
<1>1. /\ agent.active # None /\ Aside /\ agent.active \in Nat
      /\ agent'.wire = Append(agent.wire, Frame("usage", agent.active))
      /\ /\ agent'.asked = agent.asked /\ agent'.active = agent.active
         /\ agent'.cut = agent.cut
  BY AgentReportsDoes
<1>2. Latest' = Latest /\ Serving /\ Placed /\ adapter' = adapter
  BY <1>1 DEF Aside, Latest, Serving, Flow
<1>3. AtWork
  BY <1>1, <1>2, WhenActive DEF Turnwise
<1>. PICK r : r = Frame("usage", agent.active)
  OBVIOUS
<1>4. r \in Frames /\ r.kind = "usage" /\ r.turn = Latest
  BY <1>1, <1>3, FrameIs DEF AtWork
<1>. PICK n : n = Len(agent.wire)
  OBVIOUS
<1>5. /\ n \in Nat /\ Len(agent'.wire) = n + 1
      /\ \A k \in 1 .. n : agent'.wire[k] = agent.wire[k]
      /\ agent'.wire[n + 1] = r
      /\ \A k \in 1 .. n + 1 : Begun(k) => Begun(k)'
      /\ \A k \in 0 .. n : OnlyLatest(k) => OnlyLatest(k)'
  BY <1>1, <1>2, <1>4, FrameAdded
<1>6. Begun(n + 1) /\ OnlyLatest(n)
  BY <1>3 DEF AtWork
<1>7. Begun(n + 1)' /\ OnlyLatest(n)'
  <2>1. n + 1 \in 1 .. n + 1 /\ n \in 0 .. n
    BY <1>5
  <2>. QED BY <1>5, <1>6, <2>1
<1>8. OnlyLatest(Len(agent.wire))'
  <2>1. \A k \in 1 .. Len(agent'.wire) : k \in 1 .. n \/ k = n + 1
    BY <1>5
  <2>. QED BY <1>2, <1>4, <1>5, <1>7, <2>1 DEF OnlyLatest
<1>9. Begun(Len(agent.wire) + 1)'
  <2>1. \A j \in 1 .. n : j \in 1 .. Len(agent'.wire)
    BY <1>5
  <2>2. (n + 1) - 1 = n /\ (Len(agent'.wire) + 1) - 1 = Len(agent'.wire)
    BY <1>5
  <2>. QED BY <1>7, <2>1, <2>2 DEF Begun
<1>10. UnderWay'
  BY <1>1, <1>2, <1>3 DEF Aside, AtWork, UnderWay, OnlyRuns, Announced, Open, Runs, IsTurn
<1>11. AtWork'
  BY <1>1, <1>2, <1>3, <1>8, <1>9, <1>10 DEF AtWork
<1>. QED BY <1>1, <1>2, <1>11 DEF Aside, Flow, Placed, Serving

LEMMA AgentEndsFlow ==
    ASSUME Records, Turnwise, Flow, NEW t, t # None, AgentEnds \/ AgentStops(t)
    PROVE  Flow'
<1>. SUFFICES ASSUME Serving' PROVE Flow'
  BY DEF Flow
<1>1. /\ Aside /\ agent'.asked = agent.asked
      /\ \/ /\ agent.active # None /\ agent.active \in Nat /\ agent'.active = None
            /\ agent'.wire = Append(agent.wire, Frame("completed", agent.active))
         \/ /\ agent'.wire = agent.wire /\ agent'.active = agent.active
            /\ agent'.cut = agent.cut
  BY AgentEndsDoes
<1>2. Latest' = Latest /\ Serving /\ Placed /\ adapter' = adapter
  BY <1>1 DEF Aside, Latest, Serving, Flow
<1>3. CASE /\ agent'.wire = agent.wire /\ agent'.active = agent.active
           /\ agent'.cut = agent.cut
  BY <1>1, <1>2, <1>3, SameStage DEF Aside
<1>4. CASE /\ agent.active # None /\ agent.active \in Nat /\ agent'.active = None
           /\ agent'.wire = Append(agent.wire, Frame("completed", agent.active))
  <2>1. AtWork
    BY <1>2, <1>4, WhenActive DEF Turnwise
  <2>. PICK r : r = Frame("completed", Latest)
    OBVIOUS
  <2>2. agent.active = Latest /\ r \in Frames /\ r = Frame("completed", agent.active)
    BY <1>4, <2>1, FrameIs DEF AtWork
  <2>. PICK n : n = Len(agent.wire)
    OBVIOUS
  <2>3. /\ n \in Nat /\ Len(agent'.wire) = n + 1
        /\ agent'.wire[n + 1] = r
        /\ \A k \in 1 .. n + 1 : Begun(k) => Begun(k)'
        /\ \A k \in 0 .. n : OnlyLatest(k) => OnlyLatest(k)'
    BY <1>2, <1>4, <2>2, FrameAdded
  <2>4. Begun(n + 1) /\ OnlyLatest(n)
    BY <2>1 DEF AtWork
  <2>5. Begun(n + 1)' /\ OnlyLatest(n)'
    <3>1. n + 1 \in 1 .. n + 1 /\ n \in 0 .. n
      BY <2>3
    <3>. QED BY <2>3, <2>4, <3>1
  <2>6. /\ Len(agent'.wire) - 1 = n /\ agent'.wire # <<>>
    BY <2>3, Empty
  <2>7. UnderWay'
    BY <1>1, <1>2, <2>1 DEF Aside, AtWork, UnderWay, OnlyRuns, Announced, Open, Runs, IsTurn
  <2>8. agent'.wire[Len(agent'.wire)] = Frame("completed", Latest)'
    BY <1>2, <2>3 DEF Frame
  <2>9. Completes'
    BY <1>4, <2>3, <2>5, <2>6, <2>7, <2>8 DEF Completes
  <2>. QED BY <1>1, <1>2, <2>9 DEF Aside, Flow, Placed, Serving
<1>. QED BY <1>1, <1>3, <1>4

-----------------------------------------------------------------------------
(* The journal. *)

\* What is written stays.
Grows ==
    /\ journal \in Seq(Rows) /\ journal' \in Seq(Rows) /\ Len(journal) <= Len(journal')
    /\ \A k \in 1 .. Len(journal) : journal'[k] = journal[k]

\* No prompt arrives.
NoArrival == Grows /\ \A k \in Len(journal) + 1 .. Len(journal') : ~IsFirst(journal'[k])

LEMMA RowAdded ==
    ASSUME NEW r \in Rows, journal \in Seq(Rows), journal' = Append(journal, r)
    PROVE  /\ Grows /\ Len(journal) \in Nat /\ Len(journal') = Len(journal) + 1
           /\ journal'[Len(journal) + 1] = r
           /\ ~IsFirst(r) => NoArrival
<1>1. /\ journal' \in Seq(Rows) /\ Len(journal) \in Nat /\ Len(journal') = Len(journal) + 1
      /\ \A k \in 1 .. Len(journal) : journal'[k] = journal[k]
      /\ journal'[Len(journal) + 1] = r
  BY AppendIs
<1>2. Grows
  BY <1>1 DEF Grows
<1>3. \A k \in Len(journal) + 1 .. Len(journal') : k = Len(journal) + 1
  BY <1>1
<1>. QED BY <1>1, <1>2, <1>3 DEF NoArrival

LEMMA RowSame ==
    ASSUME journal \in Seq(Rows), journal' = journal
    PROVE  NoArrival
<1>1. Len(journal) \in Nat
  BY LenProperties
<1>2. \A k \in Len(journal) + 1 .. Len(journal) : FALSE
  BY <1>1
<1>. QED BY <1>1, <1>2 DEF NoArrival, Grows

LEMMA TwoRows ==
    ASSUME NEW s \in Seq(Rows), NEW x \in Rows, NEW y \in Rows
    PROVE  /\ Append(Append(s, x), y) \in Seq(Rows) /\ Len(s) \in Nat
           /\ Len(Append(Append(s, x), y)) = Len(s) + 2
           /\ \A k \in 1 .. Len(s) : Append(Append(s, x), y)[k] = s[k]
           /\ Append(Append(s, x), y)[Len(s) + 1] = x
           /\ Append(Append(s, x), y)[Len(s) + 2] = y
<1>. DEFINE v == Append(s, x)
<1>1. /\ v \in Seq(Rows) /\ Len(s) \in Nat /\ Len(v) = Len(s) + 1
      /\ \A k \in 1 .. Len(s) : v[k] = s[k]
      /\ v[Len(s) + 1] = x
  BY AppendIs
<1>. HIDE DEF v
<1>. DEFINE w == Append(v, y)
<1>2. /\ w \in Seq(Rows) /\ Len(w) = Len(v) + 1
      /\ \A k \in 1 .. Len(v) : w[k] = v[k]
      /\ w[Len(v) + 1] = y
  BY <1>1, AppendIs
<1>. HIDE DEF w
<1>3. /\ w \in Seq(Rows) /\ Len(s) \in Nat /\ Len(w) = Len(s) + 2
      /\ \A k \in 1 .. Len(s) : w[k] = s[k]
      /\ w[Len(s) + 1] = x /\ w[Len(s) + 2] = y
  BY <1>1, <1>2
<1>. QED BY <1>3 DEF w, v

\* The row of a turn, and that of the prompt it is for.
LEMMA RunsAdded ==
    ASSUME Records, HandleTurnRuns, Flow
    PROVE  /\ NoArrival
           /\ session.awaiting # None =>
                 /\ journal' = Append(Append(journal, TurnRow(Latest, TRUE)),
                                      Item(session.awaiting, Latest, FALSE))
                 /\ given[Latest] = session.awaiting /\ Latest # 0
           /\ session.awaiting = None => journal' = Append(journal, TurnRow(Latest, TRUE))
           /\ session.awaiting \in Nat /\ Latest \in Nat
<1>1. /\ Serving /\ adapter.events[1].turn = Latest
      /\ \/ session.awaiting = None
            /\ journal' = Append(journal, TurnRow(adapter.events[1].turn, TRUE))
         \/ session.awaiting # None
            /\ journal' = Append(Append(journal, TurnRow(adapter.events[1].turn, TRUE)),
                                 Item(session.awaiting, adapter.events[1].turn, FALSE))
  BY HandleTurnRunsDoes, BeginsLatest DEF Runs
<1>2. session.awaiting \in Nat /\ Latest \in Nat /\ journal \in Seq(Rows)
  BY Typed, LatestIs, AwaitingIs
<1>3. session.awaiting # None => Latest # 0 /\ given[Latest] = session.awaiting
  BY <1>1 DEF Flow
<1>0. PICK r, i : r = TurnRow(Latest, TRUE) /\ i = Item(session.awaiting, Latest, FALSE)
  OBVIOUS
<1>4. r \in Rows /\ ~IsItem(r) /\ i \in Rows /\ i.turn = Latest
  BY <1>0, <1>2, ItemIs DEF TurnRow, Item, Rows, IsItem
<1>5. NoArrival
  <2>1. CASE session.awaiting = None
    BY <1>0, <1>1, <1>2, <1>4, <2>1, RowAdded DEF IsFirst
  <2>2. CASE session.awaiting # None
    <3>1. journal' = Append(Append(journal, r), i)
      BY <1>0, <1>1, <2>2
    <3>4. /\ journal' \in Seq(Rows) /\ Len(journal) \in Nat /\ Len(journal') = Len(journal) + 2
          /\ \A k \in 1 .. Len(journal) : journal'[k] = journal[k]
          /\ journal'[Len(journal) + 1] = r /\ journal'[Len(journal) + 2] = i
      <4>1. journal \in Seq(Rows) /\ r \in Rows /\ i \in Rows
        BY <1>2, <1>4
      <4>. QED BY <3>1, <4>1, TwoRows
    <3>5. Grows
      BY <1>2, <3>4 DEF Grows
    <3>6. \A k \in Len(journal) + 1 .. Len(journal') : k = Len(journal) + 1 \/ k = Len(journal) + 2
      BY <3>4
    <3>7. ~IsFirst(r) /\ ~IsFirst(i)
      BY <1>3, <1>4, <2>2 DEF IsFirst, None
    <3>. QED BY <3>4, <3>5, <3>6, <3>7 DEF NoArrival
  <2>. QED BY <2>1, <2>2
<1>. QED BY <1>1, <1>2, <1>3, <1>5

\* A prompt that is attributed stays so.
LEMMA AttributionKept ==
    ASSUME Records, Known, AttributedToOwnTurn, Grows,
           \A t \in 1 .. Latest : given'[t] = given[t],
           \A k \in Len(journal) + 1 .. Len(journal') :
               IsItem(journal'[k]) /\ ~IsFirst(journal'[k]) =>
                   given'[journal'[k].turn] = journal'[k].of
    PROVE  AttributedToOwnTurn'
<1>. SUFFICES ASSUME NEW k \in DOMAIN journal', IsItem(journal'[k]), ~IsFirst(journal'[k])
              PROVE  given'[journal'[k].turn] = journal'[k].of
  BY DEF AttributedToOwnTurn, IsItem, IsFirst
<1>1. k \in 1 .. Len(journal') /\ Len(journal') \in Nat /\ Len(journal) \in Nat
  BY LenProperties DEF Grows
<1>2. CASE k \in 1 .. Len(journal)
  <2>1. journal'[k] = journal[k] /\ k \in DOMAIN journal
    BY <1>2 DEF Grows
  <2>2. journal[k].turn \in Nat /\ journal[k].turn # 0 /\ journal[k].turn <= Latest
    BY <1>2, <2>1, RowIs DEF Grows, Known, IsFirst, None
  <2>. QED BY <2>1, <2>2, LatestIs DEF AttributedToOwnTurn
<1>3. CASE k \in Len(journal) + 1 .. Len(journal')
  BY <1>3
<1>. QED BY <1>1, <1>2, <1>3

\* Rows no prompt is shown by.
LEMMA NoItems ==
    ASSUME NEW r \in Rows, journal \in Seq(Rows), journal' = Append(journal, r),
           ~IsItem(r) \/ IsFirst(r)
    PROVE  \A k \in Len(journal) + 1 .. Len(journal') :
               ~(IsItem(journal'[k]) /\ ~IsFirst(journal'[k]))
<1>1. /\ Len(journal) \in Nat /\ Len(journal') = Len(journal) + 1
      /\ journal'[Len(journal) + 1] = r
  BY RowAdded
<1>2. \A k \in Len(journal) + 1 .. Len(journal') : k = Len(journal) + 1
  BY <1>1
<1>. QED BY <1>1, <1>2

LEMMA StillAttributed ==
    ASSUME AttributedToOwnTurn, journal' = journal, given' = given
    PROVE  AttributedToOwnTurn'
BY DEF AttributedToOwnTurn, IsItem, IsFirst

LEMMA RowAttribution ==
    ASSUME Records, Known, AttributedToOwnTurn, NEW r \in Rows,
           journal' = Append(journal, r), ~IsItem(r) \/ IsFirst(r),
           \A t \in 1 .. Latest : given'[t] = given[t]
    PROVE  AttributedToOwnTurn'
<1>1. journal \in Seq(Rows)
  BY Typed
<1>2. Grows
  BY <1>1, RowAdded
<1>3. \A k \in Len(journal) + 1 .. Len(journal') :
          ~(IsItem(journal'[k]) /\ ~IsFirst(journal'[k]))
  BY <1>1, NoItems
<1>. QED BY <1>2, <1>3, AttributionKept

LEMMA TurnRowIs ==
    ASSUME NEW t \in Nat, NEW run \in BOOLEAN
    PROVE  TurnRow(t, run) \in Rows /\ ~IsItem(TurnRow(t, run)) /\ TurnRow(t, run).turn = t
BY DEF TurnRow, Rows, IsItem

LEMMA FirstIs ==
    ASSUME NEW p \in Prompts, NEW queued \in BOOLEAN
    PROVE  /\ Item(p, None, queued) \in Rows /\ IsFirst(Item(p, None, queued))
           /\ Item(p, None, queued).of = p /\ Item(p, None, queued).flag = queued
           /\ Item(p, None, queued).turn = None
BY Constants, ItemIs DEF IsFirst, IsItem, Item

LEMMA HandleTurnRunsAttribution ==
    ASSUME Records, Known, Flow, AttributedToOwnTurn, HandleTurnRuns
    PROVE  AttributedToOwnTurn'
<1>1. given' = given /\ journal \in Seq(Rows)
  BY HandleTurnRunsDoes, Typed
<1>2. Latest \in Nat /\ session.awaiting \in Nat
  BY RunsAdded
<1>3. CASE session.awaiting = None
  <2>1. journal' = Append(journal, TurnRow(Latest, TRUE))
    BY <1>3, RunsAdded
  <2>2. TurnRow(Latest, TRUE) \in Rows /\ ~IsItem(TurnRow(Latest, TRUE))
    BY <1>2, TurnRowIs
  <2>. QED BY <1>1, <2>1, <2>2, RowAttribution
<1>4. CASE session.awaiting # None
  <2>0. PICK r, i : r = TurnRow(Latest, TRUE) /\ i = Item(session.awaiting, Latest, FALSE)
    OBVIOUS
  <2>1. /\ r \in Rows /\ ~IsItem(r) /\ i \in Rows
        /\ i.turn = Latest /\ i.of = session.awaiting
    BY <1>2, <2>0, TurnRowIs, ItemIs DEF Item
  <2>2. journal' = Append(Append(journal, r), i) /\ given[Latest] = session.awaiting
    BY <1>4, <2>0, RunsAdded
  <2>3. /\ Len(journal) \in Nat /\ Len(journal') = Len(journal) + 2
        /\ journal'[Len(journal) + 1] = r /\ journal'[Len(journal) + 2] = i
    BY <1>1, <2>1, <2>2, TwoRows
  <2>4. \A k \in Len(journal) + 1 .. Len(journal') : k = Len(journal) + 1 \/ k = Len(journal) + 2
    BY <2>3
  <2>5. \A k \in Len(journal) + 1 .. Len(journal') :
            IsItem(journal'[k]) => given'[journal'[k].turn] = journal'[k].of
    BY <1>1, <2>1, <2>2, <2>3, <2>4
  <2>6. Grows
    BY RunsAdded DEF NoArrival
  <2>. QED BY <1>1, <2>5, <2>6, AttributionKept
<1>. QED BY <1>3, <1>4

LEMMA HandleTurnEndsAttribution ==
    ASSUME Records, Known, AttributedToOwnTurn, HandleTurnEnds
    PROVE  AttributedToOwnTurn'
<1>0. PICK r : r = TurnRow(adapter.events[1].turn, FALSE)
  OBVIOUS
<1>1. r \in Rows /\ ~IsItem(r) /\ journal' = Append(journal, r)
  BY <1>0, HandleTurnEndsDoes, TurnRowIs
<1>2. \A t \in 1 .. Latest : given'[t] = given[t]
  <2>1. CASE session.queue = <<>>
    BY <2>1, HandleTurnEndsDoes
  <2>2. CASE session.queue # <<>>
    BY <2>2, HandleTurnEndsDoes, GivenMore
  <2>. QED BY <2>1, <2>2
<1>. QED BY <1>1, <1>2, RowAttribution

LEMMA PumpFailsAttribution ==
    ASSUME Records, Known, AttributedToOwnTurn, PumpFails
    PROVE  AttributedToOwnTurn'
<1>1. CASE journal' = journal
  BY <1>1, StillAttributed, PumpFailsDoes
<1>2. CASE journal' # journal
  <2>0. PICK r : r = TurnRow(adapter.events[1].turn, TRUE)
    OBVIOUS
  <2>1. r \in Rows /\ ~IsItem(r) /\ journal' = Append(journal, r) /\ given' = given
    BY <1>2, <2>0, PumpFailsDoes, TurnRowIs
  <2>. QED BY <2>1, RowAttribution
<1>. QED BY <1>1, <1>2

LEMMA PromptAttribution ==
    ASSUME Records, Known, AttributedToOwnTurn, NEW p \in Prompts, Prompt(p)
    PROVE  AttributedToOwnTurn'
<1>0. PICK r : r = Item(p, None, Busy(session))
  OBVIOUS
<1>1. Busy(session) \in BOOLEAN
  BY DEF Busy, Pending
<1>2. r \in Rows /\ IsFirst(r) /\ journal' = Append(journal, r)
  BY <1>0, <1>1, PromptDoes, FirstIs
<1>3. \A t \in 1 .. Latest : given'[t] = given[t]
  <2>1. CASE Busy(session)
    BY <2>1, PromptDoes
  <2>2. CASE ~Busy(session)
    BY <2>2, PromptDoes, GivenMore
  <2>. QED BY <2>1, <2>2
<1>. QED BY <1>2, <1>3, RowAttribution

-----------------------------------------------------------------------------
(* The prompts of the journal and those handed to the session. *)

LEMMA ArrivalsKept ==
    ASSUME Grows, NEW k \in 1 .. Len(journal)
    PROVE  Arrivals(k)' = Arrivals(k) /\ \A n : Arrived(n, k)' <=> Arrived(n, k)
<1>1. Len(journal) \in Nat /\ \A j \in 1 .. k : journal'[j] = journal[j]
  BY LenProperties DEF Grows
<1>2. Arrivals(k)' = Arrivals(k)
  BY <1>1 DEF Arrivals, IsFirst, IsItem
<1>3. IsFirst(journal'[k]) <=> IsFirst(journal[k])
  BY <1>1
<1>. QED BY <1>2, <1>3 DEF Arrived

LEMMA NoMoreArrivals ==
    ASSUME NoArrival
    PROVE  Arrivals(Len(journal))' = Arrivals(Len(journal))
<1>1. /\ Len(journal) \in Nat /\ Len(journal') \in Nat /\ Len(journal) <= Len(journal')
      /\ \A j \in 1 .. Len(journal) : journal'[j] = journal[j]
      /\ \A j \in Len(journal) + 1 .. Len(journal') : ~IsFirst(journal'[j])
  BY LenProperties DEF NoArrival, Grows
<1>2. \A j \in 1 .. Len(journal') :
          j \in 1 .. Len(journal) \/ j \in Len(journal) + 1 .. Len(journal')
  BY <1>1
<1>3. 1 .. Len(journal) \subseteq 1 .. Len(journal')
  BY <1>1
<1>4. Arrivals(Len(journal))' = {j \in 1 .. Len(journal') : IsFirst(journal'[j])}
  BY DEF Arrivals, IsFirst, IsItem
<1>5. Arrivals(Len(journal)) = {j \in 1 .. Len(journal) : IsFirst(journal[j])}
  BY DEF Arrivals
<1>. QED BY <1>1, <1>2, <1>3, <1>4, <1>5

LEMMA OneArrival ==
    ASSUME NEW r \in Rows, IsFirst(r), journal \in Seq(Rows), journal' = Append(journal, r)
    PROVE  /\ Cardinality(Arrivals(Len(journal))) \in Nat
           /\ Cardinality(Arrivals(Len(journal)))' = Cardinality(Arrivals(Len(journal))) + 1
           /\ Len(journal) + 1 \in 1 .. Len(journal')
           /\ journal'[Len(journal) + 1] = r
           /\ \A n, k : n = Cardinality(Arrivals(Len(journal))) + 1 /\ k = Len(journal) + 1 =>
                 Arrived(n, k)'
<1>1. /\ Grows /\ Len(journal) \in Nat /\ Len(journal') = Len(journal) + 1
      /\ journal'[Len(journal) + 1] = r
      /\ \A j \in 1 .. Len(journal) : journal'[j] = journal[j]
  BY RowAdded DEF Grows
<1>0. PICK n : n = Len(journal)
  OBVIOUS
<1>2. {j \in 1 .. n + 1 : IsFirst(journal'[j])} = Arrivals(n) \cup {n + 1}
  <2>1. 1 .. n + 1 = (1 .. n) \cup {n + 1}
    BY <1>0, <1>1
  <2>. QED BY <1>0, <1>1, <2>1 DEF Arrivals
<1>3. IsFiniteSet(Arrivals(n)) /\ n + 1 \notin Arrivals(n)
  <2>1. Arrivals(n) \subseteq 1 .. n
    BY DEF Arrivals
  <2>2. IsFiniteSet(1 .. n)
    BY <1>0, <1>1, FS_Interval
  <2>3. n + 1 \notin 1 .. n
    BY <1>0, <1>1
  <2>. QED BY <2>1, <2>2, <2>3, FS_Subset
<1>4. /\ Cardinality(Arrivals(n)) \in Nat
      /\ Cardinality(Arrivals(n) \cup {n + 1}) = Cardinality(Arrivals(n)) + 1
  BY <1>3, FS_CardinalityType, FS_AddElement
<1>5. Arrivals(Len(journal))' = Arrivals(n) \cup {n + 1}
  BY <1>0, <1>1, <1>2 DEF Arrivals, IsFirst, IsItem
<1>6. ASSUME NEW k, k = n + 1
      PROVE  IsFirst(journal'[k]) /\ Arrivals(k)' = Arrivals(n) \cup {n + 1}
  BY <1>0, <1>1, <1>2, <1>6 DEF Arrivals, IsFirst, IsItem
<1>7. \A i, k : i = Cardinality(Arrivals(n)) + 1 /\ k = n + 1 => Arrived(i, k)'
  BY <1>4, <1>6 DEF Arrived
<1>8. n + 1 \in 1 .. n + 1
  BY <1>0, <1>1
<1>. QED BY <1>0, <1>1, <1>4, <1>5, <1>7, <1>8

\* As many are handed over as have arrived, each at its place.
LEMMA JournaledKept ==
    ASSUME Journaled, NoArrival, Handed' = Handed
    PROVE  Journaled'
<1>1. Cardinality(Arrivals(Len(journal)))' = Len(Handed')
  BY NoMoreArrivals DEF Journaled
<1>2. ASSUME NEW n \in 1 .. Len(Handed)
      PROVE  \E k \in 1 .. Len(journal') : Arrived(n, k)' /\ journal'[k].of = Handed[n]
  <2>1. PICK k \in 1 .. Len(journal) : Arrived(n, k) /\ journal[k].of = Handed[n]
    BY <1>2 DEF Journaled
  <2>2. journal'[k] = journal[k] /\ k \in 1 .. Len(journal') /\ Grows
    BY LenProperties DEF NoArrival, Grows
  <2>. QED BY <2>1, <2>2, ArrivalsKept
<1>. QED BY <1>1, <1>2 DEF Journaled

LEMMA JournaledMore ==
    ASSUME Journaled, Handed \in Seq(Prompts), NEW p \in Prompts, Handed' = Append(Handed, p),
           NEW r \in Rows, IsFirst(r), r.of = p,
           journal \in Seq(Rows), journal' = Append(journal, r)
    PROVE  Journaled'
<1>0. PICK m : m = Len(Handed)
  OBVIOUS
<1>1. /\ m \in Nat /\ Len(Handed') = m + 1 /\ Handed'[m + 1] = p
      /\ \A n \in 1 .. m : Handed'[n] = Handed[n]
  BY <1>0, AppendIs
<1>2. /\ Cardinality(Arrivals(Len(journal)))' = m + 1
      /\ Len(journal) + 1 \in 1 .. Len(journal') /\ Len(journal') = Len(journal) + 1
      /\ journal'[Len(journal) + 1] = r
      /\ \A n, k : n = m + 1 /\ k = Len(journal) + 1 => Arrived(n, k)'
  BY <1>0, OneArrival, RowAdded DEF Journaled
<1>3. Grows
  BY RowAdded
<1>4. ASSUME NEW n \in 1 .. m
      PROVE  \E k \in 1 .. Len(journal') : Arrived(n, k)' /\ journal'[k].of = Handed'[n]
  <2>1. PICK k \in 1 .. Len(journal) : Arrived(n, k) /\ journal[k].of = Handed[n]
    BY <1>0, <1>4 DEF Journaled
  <2>2. journal'[k] = journal[k] /\ k \in 1 .. Len(journal')
    BY <1>3, LenProperties DEF Grows
  <2>. QED BY <1>1, <1>3, <2>1, <2>2, ArrivalsKept
<1>5. \E k \in 1 .. Len(journal') : Arrived(m + 1, k)' /\ journal'[k].of = Handed'[m + 1]
  BY <1>1, <1>2
<1>6. \A n \in 1 .. m + 1 : n \in 1 .. m \/ n = m + 1
  BY <1>1
<1>7. \A n \in 1 .. Len(Handed') : \E k \in 1 .. Len(journal') :
          Arrived(n, k)' /\ journal'[k].of = Handed'[n]
  BY <1>1, <1>4, <1>5, <1>6
<1>. QED BY <1>1, <1>2, <1>7 DEF Journaled

LEMMA Moves ==
    ASSUME NEW g \in Seq(Prompts), NEW q \in Seq(Prompts), q # <<>>
    PROVE  Append(g, q[1]) \o Tail(q) = g \o q
OBVIOUS

LEMMA Joins ==
    ASSUME NEW g \in Seq(Prompts), NEW q \in Seq(Prompts), NEW p \in Prompts
    PROVE  /\ g \o Append(q, p) = Append(g \o q, p)
           /\ q = <<>> => Append(g, p) \o q = Append(g \o q, p)
           /\ g \o q \in Seq(Prompts)
OBVIOUS

\* What was given is the beginning of what was handed over.
LEMMA GivenFirst ==
    ASSUME NEW g \in Seq(Prompts), NEW q \in Seq(Prompts)
    PROVE  \A n \in DOMAIN g : n \in 1 .. Len(g \o q) /\ (g \o q)[n] = g[n]
OBVIOUS

LEMMA ServedFirst ==
    ASSUME Records', Journaled'
    PROVE  FirstComeFirstServed'
<1>1. given' \in Seq(Prompts) /\ session'.queue \in Seq(Prompts)
  BY SessionIs DEF Records
<1>2. journal' \in Seq(Rows) /\ DOMAIN journal' = 1 .. Len(journal')
  BY DEF Records
<1>3. ASSUME NEW n \in DOMAIN given'
      PROVE  \E k \in DOMAIN journal' : Arrived(n, k)' /\ journal'[k].of = given'[n]
  <2>1. n \in 1 .. Len(Handed') /\ Handed'[n] = given'[n]
    BY <1>1, <1>3, GivenFirst DEF Handed
  <2>. QED BY <1>2, <2>1 DEF Journaled
<1>. QED BY <1>3 DEF FirstComeFirstServed

LEMMA OrderKept ==
    ASSUME Records', InOrder, Grows,
           Serving' => Serving /\ NoArrival /\ Handed' = Handed,
           ~Serving' /\ ~session'.stopped => ~session.stopped /\ given' = given
    PROVE  InOrder'
<1>1. Serving' => Journaled'
  BY JournaledKept DEF InOrder
<1>2. CASE Serving' \/ session'.stopped
  BY <1>1, <1>2, ServedFirst DEF InOrder, FirstComeFirstServed
<1>3. CASE ~Serving' /\ ~session'.stopped
  <2>1. given' = given /\ ~session.stopped
    BY <1>3
  <2>2. ASSUME NEW n \in DOMAIN given
        PROVE  \E k \in DOMAIN journal' : Arrived(n, k)' /\ journal'[k].of = given[n]
    <3>1. PICK k \in DOMAIN journal : Arrived(n, k) /\ journal[k].of = given[n]
      BY <2>1, <2>2 DEF InOrder, FirstComeFirstServed
    <3>2. k \in 1 .. Len(journal) /\ k \in DOMAIN journal' /\ journal'[k] = journal[k]
      BY <3>1, LenProperties DEF Grows
    <3>. QED BY <3>1, <3>2, ArrivalsKept
  <2>. QED BY <1>1, <1>3, <2>1, <2>2 DEF InOrder, FirstComeFirstServed
<1>. QED BY <1>2, <1>3

LEMMA StillInOrder ==
    ASSUME Records, Records', InOrder, NoArrival, given' = given,
           session'.queue = session.queue, session'.live = session.live,
           session'.stopped = session.stopped
    PROVE  InOrder'
<1>1. Handed' = Handed
  BY DEF Handed
<1>. QED BY <1>1, OrderKept DEF NoArrival, Serving

LEMMA HandleTurnEndsInOrder ==
    ASSUME Records, InOrder, HandleTurnEnds
    PROVE  InOrder'
<1>0. PICK r : r = TurnRow(adapter.events[1].turn, FALSE)
  OBVIOUS
<1>1. /\ r \in Rows /\ ~IsItem(r) /\ journal' = Append(journal, r)
      /\ Serving /\ Records' /\ session'.live = session.live
      /\ session'.stopped = session.stopped
  BY <1>0, HandleTurnEndsDoes, TurnRowIs
<1>2. given \in Seq(Prompts) /\ session.queue \in Seq(Prompts) /\ journal \in Seq(Rows)
  BY Typed
<1>3. Handed' = Handed
  <2>1. CASE session.queue = <<>>
    BY <2>1, HandleTurnEndsDoes DEF Handed
  <2>2. CASE session.queue # <<>>
    <3>1. given' = Append(given, session.queue[1]) /\ session'.queue = Tail(session.queue)
      BY <2>2, HandleTurnEndsDoes
    <3>. QED BY <1>2, <2>2, <3>1, Moves DEF Handed
  <2>. QED BY <2>1, <2>2
<1>4. NoArrival
  BY <1>1, <1>2, RowAdded DEF IsFirst
<1>. QED BY <1>1, <1>3, <1>4, OrderKept DEF Serving, NoArrival

LEMMA PumpFailsInOrder ==
    ASSUME Records, InOrder, PumpFails
    PROVE  InOrder'
<1>1. Records' /\ session'.stopped /\ ~Serving' /\ journal \in Seq(Rows)
  BY PumpFailsDoes, Typed DEF Serving
<1>2. Grows
  <2>1. CASE journal' = journal
    BY <1>1, <2>1, RowSame DEF NoArrival
  <2>2. CASE journal' # journal
    <3>0. PICK r : r = TurnRow(adapter.events[1].turn, TRUE)
      OBVIOUS
    <3>1. r \in Rows /\ journal' = Append(journal, r)
      BY <2>2, <3>0, PumpFailsDoes, TurnRowIs
    <3>. QED BY <1>1, <3>1, RowAdded
  <2>. QED BY <2>1, <2>2
<1>. QED BY <1>1, <1>2, OrderKept

LEMMA PromptInOrder ==
    ASSUME Records, Records', InOrder, session.live, NEW p \in Prompts, Prompt(p)
    PROVE  InOrder'
<1>0. PICK r : r = Item(p, None, Busy(session))
  OBVIOUS
<1>1. Busy(session) \in BOOLEAN
  BY DEF Busy, Pending
<1>2. /\ r \in Rows /\ IsFirst(r) /\ r.of = p /\ journal' = Append(journal, r)
      /\ session'.live = session.live /\ session'.stopped = session.stopped
  BY <1>0, <1>1, PromptDoes, FirstIs
<1>3. given \in Seq(Prompts) /\ session.queue \in Seq(Prompts) /\ journal \in Seq(Rows)
  BY Typed
<1>4. Handed' = Append(Handed, p) /\ Handed \in Seq(Prompts)
  <2>1. CASE Busy(session)
    <3>1. session'.queue = Append(session.queue, p) /\ given' = given
      BY <2>1, PromptDoes
    <3>. QED BY <1>3, <3>1, Joins DEF Handed
  <2>2. CASE ~Busy(session)
    <3>1. session.queue = <<>> /\ session'.queue = session.queue /\ given' = Append(given, p)
      BY <2>2, PromptDoes DEF Busy, Pending
    <3>. QED BY <1>3, <3>1, Joins DEF Handed
  <2>. QED BY <2>1, <2>2
<1>5. CASE ~Serving
  BY <1>2, <1>5 DEF InOrder, FirstComeFirstServed, Serving
<1>6. CASE Serving
  <2>1. Journaled
    BY <1>6 DEF InOrder
  <2>2. Journaled'
    BY <1>2, <1>3, <1>4, <2>1, JournaledMore
  <2>. QED BY <2>2, ServedFirst DEF InOrder
<1>. QED BY <1>5, <1>6

LEMMA HostDiesInOrder ==
    ASSUME Records', InOrder, HostDies, Grows, Records
    PROVE  InOrder'
<1>1. ~session'.live /\ given' = given /\ session'.stopped = session.stopped
  BY HostDiesDoes
<1>2. ~Serving'
  BY <1>1 DEF Serving
<1>. QED BY <1>1, <1>2, OrderKept

-----------------------------------------------------------------------------
(* The prompts marked as queued. *)

Marked(rows) == {p \in Prompts : \E k \in 1 .. Len(rows) :
    /\ IsItem(rows[k]) /\ rows[k].of = p /\ rows[k].flag
    /\ \A j \in k + 1 .. Len(rows) : ~(IsItem(rows[j]) /\ rows[j].of = p)}

LEMMA MarkedIs ==
    ASSUME journal \in Seq(Rows)
    PROVE  MarkedQueued = Marked(journal)
BY DEF MarkedQueued, Marked

\* A row marks its prompt, or takes its mark off.
LEMMA MarkAdded ==
    ASSUME NEW s \in Seq(Rows), NEW r \in Rows
    PROVE  /\ \A p \in Marked(Append(s, r)) :
                 p \in Marked(s) \/ (IsItem(r) /\ r.flag /\ p = r.of)
           /\ IsItem(r) /\ ~r.flag => r.of \notin Marked(Append(s, r))
<1>. DEFINE w == Append(s, r)
<1>1. /\ Len(s) \in Nat /\ Len(w) = Len(s) + 1 /\ w[Len(s) + 1] = r
      /\ \A k \in 1 .. Len(s) : w[k] = s[k]
  BY AppendIs
<1>. HIDE DEF w
<1>2. ASSUME NEW p \in Marked(w)
      PROVE  p \in Marked(s) \/ (IsItem(r) /\ r.flag /\ p = r.of)
  <2>1. PICK k \in 1 .. Len(w) :
            /\ IsItem(w[k]) /\ w[k].of = p /\ w[k].flag
            /\ \A j \in k + 1 .. Len(w) : ~(IsItem(w[j]) /\ w[j].of = p)
    BY <1>2 DEF Marked
  <2>2. CASE k = Len(s) + 1
    BY <1>1, <2>1, <2>2
  <2>3. CASE k \in 1 .. Len(s)
    <3>1. IsItem(s[k]) /\ s[k].of = p /\ s[k].flag
      BY <1>1, <2>1, <2>3
    <3>2. ASSUME NEW j \in k + 1 .. Len(s) PROVE ~(IsItem(s[j]) /\ s[j].of = p)
      <4>1. j \in k + 1 .. Len(w) /\ j \in 1 .. Len(s)
        BY <1>1, <2>3
      <4>. QED BY <1>1, <2>1, <4>1
    <3>. QED BY <1>2, <2>3, <3>1, <3>2 DEF Marked
  <2>4. k = Len(s) + 1 \/ k \in 1 .. Len(s)
    BY <1>1
  <2>. QED BY <2>2, <2>3, <2>4
<1>3. ASSUME IsItem(r), ~r.flag, r.of \in Marked(w)
      PROVE  FALSE
  <2>1. PICK k \in 1 .. Len(w) :
            /\ IsItem(w[k]) /\ w[k].of = r.of /\ w[k].flag
            /\ \A j \in k + 1 .. Len(w) : ~(IsItem(w[j]) /\ w[j].of = r.of)
    BY <1>3 DEF Marked
  <2>2. k = Len(s) + 1 \/ Len(s) + 1 \in k + 1 .. Len(w)
    BY <1>1
  <2>. QED BY <1>1, <1>3, <2>1, <2>2
<1>. QED BY <1>2, <1>3 DEF w

LEMMA RangeIs ==
    ASSUME NEW q \in Seq(Prompts), NEW p \in Prompts
    PROVE  /\ Range(<<>>) = {}
           /\ Range(q) \subseteq Range(Append(q, p)) /\ p \in Range(Append(q, p))
           /\ q # <<>> => Range(q) \subseteq Range(Tail(q)) \cup {q[1]}
<1>1. Range(<<>>) = {}
  BY DEF Range
<1>2. \A k \in 1 .. Len(q) : k \in DOMAIN Append(q, p) /\ Append(q, p)[k] = q[k]
  OBVIOUS
<1>3. Len(q) + 1 \in DOMAIN Append(q, p) /\ Append(q, p)[Len(q) + 1] = p
  OBVIOUS
<1>4. ASSUME q # <<>>, NEW k \in 1 .. Len(q)
      PROVE  q[k] = q[1] \/ (k - 1 \in DOMAIN Tail(q) /\ Tail(q)[k - 1] = q[k])
  BY <1>4
<1>5. DOMAIN q = 1 .. Len(q)
  OBVIOUS
<1>6. Range(q) \subseteq Range(Append(q, p)) /\ p \in Range(Append(q, p))
  BY <1>2, <1>3, <1>5 DEF Range
<1>7. q # <<>> => Range(q) \subseteq Range(Tail(q)) \cup {q[1]}
  <2>. SUFFICES ASSUME q # <<>>, NEW k \in 1 .. Len(q)
                PROVE  q[k] \in Range(Tail(q)) \cup {q[1]}
    BY <1>5 DEF Range
  <2>. QED BY <1>4 DEF Range
<1>. QED BY <1>1, <1>6, <1>7

LEMMA StillMarked ==
    ASSUME QueuedStillWaits, journal' = journal, Serving' => Serving,
           session'.queue = session.queue, session'.awaiting = session.awaiting
    PROVE  QueuedStillWaits'
BY DEF QueuedStillWaits, MarkedQueued, Serving, Range, IsItem

LEMMA HandleTurnRunsMarks ==
    ASSUME Records, Flow, QueuedStillWaits, HandleTurnRuns
    PROVE  QueuedStillWaits'
<1>1. /\ Serving /\ journal \in Seq(Rows) /\ journal' \in Seq(Rows)
      /\ session'.queue = session.queue /\ session'.awaiting = None
  BY Typed, HandleTurnRunsDoes, RunsAdded DEF NoArrival, Grows
<1>0. PICK r, i : r = TurnRow(Latest, TRUE) /\ i = Item(session.awaiting, Latest, FALSE)
  OBVIOUS
<1>2. /\ r \in Rows /\ ~IsItem(r) /\ i \in Rows /\ IsItem(i)
      /\ ~i.flag /\ i.of = session.awaiting
  BY <1>0, RunsAdded, TurnRowIs, ItemIs DEF Item, IsItem
<1>3. Marked(journal) \subseteq Range(session.queue) \cup {session.awaiting}
  BY <1>1, MarkedIs DEF QueuedStillWaits, Serving
<1>4. Marked(journal') \subseteq Range(session.queue) \cup {None}
  <2>1. CASE session.awaiting = None
    <3>1. journal' = Append(journal, r)
      BY <1>0, <2>1, RunsAdded
    <3>. QED BY <1>1, <1>2, <1>3, <2>1, <3>1, MarkAdded
  <2>2. CASE session.awaiting # None
    <3>1. journal' = Append(Append(journal, r), i)
      BY <1>0, <2>2, RunsAdded
    <3>2. Append(journal, r) \in Seq(Rows)
      BY <1>1, <1>2, AppendIs
    <3>3. Marked(Append(journal, r)) \subseteq Marked(journal)
      BY <1>1, <1>2, MarkAdded
    <3>4. /\ Marked(journal') \subseteq Marked(Append(journal, r))
          /\ session.awaiting \notin Marked(journal')
      BY <1>2, <3>1, <3>2, MarkAdded
    <3>. QED BY <1>3, <3>3, <3>4
  <2>. QED BY <2>1, <2>2
<1>5. MarkedQueued' = Marked(journal')
  BY <1>1 DEF MarkedQueued, Marked, IsItem
<1>. QED BY <1>1, <1>4, <1>5 DEF QueuedStillWaits, Range

LEMMA HandleTurnEndsMarks ==
    ASSUME Records, Flow, QueuedStillWaits, HandleTurnEnds
    PROVE  QueuedStillWaits'
<1>0. PICK r : r = TurnRow(adapter.events[1].turn, FALSE)
  OBVIOUS
<1>1. /\ r \in Rows /\ ~IsItem(r) /\ journal' = Append(journal, r)
      /\ Serving /\ session.awaiting = None
      /\ session.queue \in Seq(Prompts) /\ journal \in Seq(Rows) /\ journal' \in Seq(Rows)
  BY <1>0, HandleTurnEndsDoes, TurnRowIs, Typed, EndsLatest, RowMore
<1>2. Marked(journal') \subseteq Range(session.queue) \cup {None}
  BY <1>1, MarkedIs, MarkAdded DEF QueuedStillWaits, Serving
<1>3. Range(session.queue) \subseteq Range(session'.queue) \cup {session'.awaiting}
  <2>1. CASE session.queue = <<>>
    BY <2>1, HandleTurnEndsDoes
  <2>2. CASE session.queue # <<>>
    <3>1. session'.queue = Tail(session.queue) /\ session'.awaiting = session.queue[1]
          /\ session.queue[1] \in Prompts
      BY <2>2, HandleTurnEndsDoes
    <3>. QED BY <1>1, <2>2, <3>1, RangeIs
  <2>. QED BY <2>1, <2>2
<1>4. MarkedQueued' = Marked(journal')
  BY <1>1 DEF MarkedQueued, Marked, IsItem
<1>5. MarkedQueued' \subseteq Prompts
  BY DEF MarkedQueued
<1>6. None \notin Prompts
  BY Constants
<1>7. MarkedQueued' \subseteq Range(session'.queue) \cup {session'.awaiting}
  BY <1>2, <1>3, <1>4, <1>5, <1>6
<1>. QED BY <1>7 DEF QueuedStillWaits, Range

LEMMA PromptMarks ==
    ASSUME Records, QueuedStillWaits, NEW p \in Prompts, Prompt(p)
    PROVE  QueuedStillWaits'
<1>0. PICK r : r = Item(p, None, Busy(session))
  OBVIOUS
<1>1. Busy(session) \in BOOLEAN
  BY DEF Busy, Pending
<1>2. /\ r \in Rows /\ IsItem(r) /\ r.of = p /\ r.flag = Busy(session)
      /\ journal' = Append(journal, r) /\ journal' \in Seq(Rows) /\ journal \in Seq(Rows)
      /\ session'.live = session.live /\ session'.stopped = session.stopped
      /\ session.queue \in Seq(Prompts)
  BY <1>0, <1>1, PromptDoes, FirstIs, Typed DEF IsFirst
<1>3. CASE ~Serving
  BY <1>2, <1>3 DEF QueuedStillWaits, Serving
<1>4. CASE Serving
  <2>1. Marked(journal) \subseteq Range(session.queue) \cup {session.awaiting}
    BY <1>2, <1>4, MarkedIs DEF QueuedStillWaits, Serving
  <2>2. ASSUME Busy(session)
        PROVE  Marked(journal') \subseteq Range(session'.queue) \cup {session'.awaiting}
    <3>1. session'.queue = Append(session.queue, p) /\ session'.awaiting = session.awaiting
      BY <2>2, PromptDoes
    <3>2. Marked(journal') \subseteq Marked(journal) \cup {p}
      BY <1>2, MarkAdded
    <3>3. /\ Range(session.queue) \subseteq Range(session'.queue)
          /\ p \in Range(session'.queue)
      BY <1>2, <3>1, RangeIs
    <3>. QED BY <2>1, <3>1, <3>2, <3>3
  <2>3. ASSUME ~Busy(session)
        PROVE  Marked(journal') \subseteq Range(session'.queue) \cup {session'.awaiting}
    <3>1. session.queue = <<>> /\ session.awaiting = None
      BY <2>3 DEF Busy, Pending
    <3>2. Range(session.queue) = {}
      BY <3>1 DEF Range
    <3>3. Marked(journal) \subseteq Prompts
      BY DEF Marked
    <3>4. Marked(journal) = {}
      BY <2>1, <3>1, <3>2, <3>3, Constants
    <3>5. Marked(journal') \subseteq Marked(journal)
      BY <1>2, <2>3, MarkAdded
    <3>. QED BY <3>4, <3>5
  <2>4. Marked(journal') \subseteq Range(session'.queue) \cup {session'.awaiting}
    BY <2>2, <2>3
  <2>5. MarkedQueued' = Marked(journal')
    <3>1. DOMAIN journal' = 1 .. Len(journal')
      BY <1>2
    <3>. QED BY <3>1 DEF MarkedQueued, Marked, IsItem
  <2>. QED BY <2>4, <2>5 DEF QueuedStillWaits, Range
<1>. QED BY <1>3, <1>4

-----------------------------------------------------------------------------
(* No step of the session breaks its invariant, or takes a row back. *)

LEMMA Unjournaled ==
    ASSUME SessionInvariant, Records', Turnwise', Flow', journal' = journal, given' = given,
           session'.live = session.live, session'.stopped = session.stopped,
           session'.queue = session.queue, session'.awaiting = session.awaiting
    PROVE  SessionInvariant' /\ Grows
<1>1. NoArrival /\ Grows
  BY RowSame, Typed DEF SessionInvariant, NoArrival
<1>2. AttributedToOwnTurn'
  BY StillAttributed DEF SessionInvariant
<1>3. InOrder'
  BY <1>1, StillInOrder DEF SessionInvariant
<1>4. QueuedStillWaits'
  BY StillMarked DEF SessionInvariant, Serving
<1>. QED BY <1>1, <1>2, <1>3, <1>4 DEF SessionInvariant

LEMMA PumpKeeps ==
    ASSUME SessionInvariant, Pump
    PROVE  SessionInvariant' /\ Grows
<1>. USE DEF SessionInvariant
<1>1. CASE HandleTurnRuns
  <2>1. Records' /\ Turnwise' /\ Flow' /\ NoArrival
    BY <1>1, HandleTurnRunsDoes, HandleTurnRunsTurnwise, HandleTurnRunsFlow, RunsAdded
  <2>2. AttributedToOwnTurn' /\ QueuedStillWaits'
    BY <1>1, HandleTurnRunsAttribution, HandleTurnRunsMarks DEF Turnwise
  <2>3. InOrder'
    BY <1>1, <2>1, HandleTurnRunsDoes, StillInOrder
  <2>. QED BY <2>1, <2>2, <2>3 DEF NoArrival
<1>2. CASE HandleTurnEnds
  <2>1. Records' /\ Turnwise' /\ Flow'
    BY <1>2, HandleTurnEndsDoes, HandleTurnEndsTurnwise, HandleTurnEndsFlow
  <2>2. AttributedToOwnTurn' /\ QueuedStillWaits' /\ InOrder'
    BY <1>2, HandleTurnEndsAttribution, HandleTurnEndsMarks, HandleTurnEndsInOrder
       DEF Turnwise
  <2>0. PICK r : r = TurnRow(adapter.events[1].turn, FALSE)
    OBVIOUS
  <2>3. r \in Rows /\ journal' = Append(journal, r) /\ journal \in Seq(Rows)
    BY <1>2, <2>0, HandleTurnEndsDoes, TurnRowIs, Typed
  <2>4. Grows
    BY <2>3, RowAdded
  <2>. QED BY <2>1, <2>2, <2>4
<1>3. CASE HandleSession
  <2>1. Records' /\ Turnwise' /\ Flow'
    BY <1>3, HandleSessionDoes, HandleSessionTurnwise, HandleSessionFlow
  <2>. QED BY <1>3, <2>1, HandleSessionDoes, Unjournaled
<1>. QED BY <1>1, <1>2, <1>3 DEF Pump

LEMMA PumpFailsKeeps ==
    ASSUME SessionInvariant, PumpFails
    PROVE  SessionInvariant' /\ Grows
<1>. USE DEF SessionInvariant
<1>1. Records' /\ Turnwise' /\ session'.stopped
  BY PumpFailsDoes, PumpFailsTurnwise
<1>2. ~Serving'
  BY <1>1 DEF Serving
<1>3. Flow' /\ QueuedStillWaits'
  BY <1>2 DEF Flow, QueuedStillWaits, Serving
<1>4. AttributedToOwnTurn' /\ InOrder'
  BY PumpFailsAttribution, PumpFailsInOrder DEF Turnwise
<1>5. Grows
  <2>1. CASE journal' = journal
    BY <2>1, RowSame, Typed DEF NoArrival
  <2>2. CASE journal' # journal
    <3>0. PICK r : r = TurnRow(adapter.events[1].turn, TRUE)
      OBVIOUS
    <3>1. r \in Rows /\ journal' = Append(journal, r) /\ journal \in Seq(Rows)
      BY <2>2, <3>0, PumpFailsDoes, TurnRowIs, Typed
    <3>. QED BY <3>1, RowAdded
  <2>. QED BY <2>1, <2>2
<1>. QED BY <1>1, <1>3, <1>4, <1>5

LEMMA SessionKeeps ==
    ASSUME SessionInvariant, SessionNext
    PROVE  SessionInvariant' /\ Grows
<1>1. Records /\ Turnwise /\ Flow
  BY DEF SessionInvariant
<1>2. CASE Pump
  BY <1>2, PumpKeeps
<1>3. CASE PumpFails
  BY <1>3, PumpFailsKeeps
<1>4. CASE Boots
  BY <1>1, <1>4, BootsDoes, BootsTurnwise, BootsFlow, Unjournaled
<1>5. CASE BootFails
  <2>1. Records' /\ UNCHANGED <<session, journal, given>>
    BY <1>1, <1>5, BootFailsDoes
  <2>. QED BY <1>1, <1>5, <2>1, DyingTurnwise, DyingFlow, Unjournaled
<1>6. CASE AgentExits
  <2>1. Records' /\ UNCHANGED <<session, journal, given>>
    BY <1>1, <1>6, AgentExitsDoes
  <2>. QED BY <1>1, <1>6, <2>1, DyingTurnwise, DyingFlow, Unjournaled
<1>7. CASE Receive
  BY <1>1, <1>7, ReceiveDoes, ReceiveTurnwise, ReceiveFlow, Unjournaled
<1>8. CASE Resumes
  <2>1. PICK t \in Turns : TurnStartReturns(t)
    BY <1>8 DEF Resumes
  <2>. QED BY <1>1, <2>1, TurnStartReturnsDoes, TurnStartReturnsTurnwise,
              TurnStartReturnsFlow, Unjournaled
<1>9. CASE AgentStarts
  BY <1>1, <1>9, AgentStartsDoes, AgentTurnwise, AgentStartsFlow, Unjournaled DEF Aside, None
<1>10. CASE AgentRejects
  <2>1. Records' /\ Aside
    BY <1>1, <1>10, AgentRejectsDoes
  <2>2. Turnwise' /\ Flow'
    <3>1. 1 # None
      BY DEF None
    <3>. QED BY <1>1, <1>10, <3>1, AgentTurnwise, AgentRejectsFlow
  <2>. QED BY <2>1, <2>2, Unjournaled DEF Aside
<1>11. CASE AgentReports
  BY <1>1, <1>11, AgentReportsDoes, AgentTurnwise, AgentReportsFlow, Unjournaled
     DEF Aside, None
<1>12. CASE AgentEnds \/ Obeys
  <2>1. PICK t : t # None /\ (AgentEnds \/ AgentStops(t))
    <3>1. CASE AgentEnds
      BY <3>1 DEF None
    <3>2. CASE Obeys
      <4>1. PICK t \in Turns : AgentStops(t)
        BY <3>2 DEF Obeys
      <4>2. DOMAIN given = 1 .. Len(given)
        BY <1>1, Typed
      <4>. QED BY <4>1, <4>2 DEF Turns, None
    <3>. QED BY <1>12, <3>1, <3>2
  <2>. QED BY <1>1, <2>1, AgentEndsDoes, AgentTurnwise, AgentEndsFlow, Unjournaled DEF Aside
<1>. QED
  BY <1>2, <1>3, <1>4, <1>5, <1>6, <1>7, <1>8, <1>9, <1>10, <1>11, <1>12
  DEF SessionNext, TakesTurns

LEMMA CancelKeeps ==
    ASSUME SessionInvariant, NEW t, CancelTurn(t)
    PROVE  SessionInvariant' /\ journal' = journal
<1>1. Records /\ Turnwise /\ Flow
  BY DEF SessionInvariant
<1>2. Records' /\ Turnwise' /\ UNCHANGED <<session, journal, given>>
  BY <1>1, CancelTurnDoes, CancelTurnTurnwise
<1>3. Flow'
  <2>1. Latest' = Latest /\ (Serving' => Serving)
    BY <1>2 DEF Latest, Serving
  <2>. QED BY <1>1, <1>2, <2>1, CancelTurnDoes, SameStage
<1>. QED BY <1>2, <1>3, Unjournaled

LEMMA TakesPrompt ==
    ASSUME SessionInvariant, session.live, NEW p \in Prompts, Prompt(p),
           plan' \in Plans, met' \in SUBSET plan'.may
    PROVE  SessionInvariant' /\ Grows
<1>1. Records /\ Turnwise /\ Flow
  BY DEF SessionInvariant
<1>2. Records'
  BY <1>1, PromptDoes DEF Records
<1>3. Turnwise' /\ Flow'
  BY <1>1, PromptTurnwise, PromptFlow
<1>4. InOrder' /\ QueuedStillWaits' /\ AttributedToOwnTurn'
  BY <1>1, <1>2, PromptInOrder, PromptMarks, PromptAttribution DEF SessionInvariant, Turnwise
<1>5. Grows
  <2>0. PICK r : r = Item(p, None, Busy(session))
    OBVIOUS
  <2>1. Busy(session) \in BOOLEAN
    BY DEF Busy, Pending
  <2>2. r \in Rows /\ journal' = Append(journal, r) /\ journal \in Seq(Rows)
    BY <1>1, <2>0, <2>1, PromptDoes, FirstIs, Typed
  <2>. QED BY <2>2, RowAdded
<1>. QED BY <1>2, <1>3, <1>4, <1>5 DEF SessionInvariant

\* A prompt may be journaled as the host dies.
LEMMA CrashKeeps ==
    ASSUME SessionInvariant, HostDies,
           \/ journal' = journal
           \/ \E p \in Prompts : journal' = Append(journal, Item(p, None, Busy(session)))
    PROVE  SessionInvariant' /\ Grows
<1>1. Records /\ Turnwise /\ Flow /\ given' = given /\ journal \in Seq(Rows)
  BY HostDiesDoes, Typed DEF SessionInvariant
<1>2. /\ Grows /\ \A k \in 1 .. Len(journal') : journal'[k].turn <= Latest
      /\ AttributedToOwnTurn'
  <2>1. CASE journal' = journal
    <3>1. Grows
      BY <1>1, <2>1, RowSame DEF NoArrival
    <3>. QED BY <1>1, <2>1, <3>1, StillAttributed DEF SessionInvariant, Turnwise, Known
  <2>2. CASE journal' # journal
    <3>1. PICK p \in Prompts : journal' = Append(journal, Item(p, None, Busy(session)))
      BY <2>2
    <3>2. Busy(session) \in BOOLEAN
      BY DEF Busy, Pending
    <3>0. PICK r : r = Item(p, None, Busy(session))
      OBVIOUS
    <3>3. r \in Rows /\ IsFirst(r) /\ r.turn = 0 /\ journal' = Append(journal, r)
      BY <3>0, <3>1, <3>2, FirstIs DEF None
    <3>4. Grows
      BY <1>1, <3>3, RowAdded
    <3>5. Latest \in Nat
      BY <1>1, LatestIs
    <3>6. \A k \in 1 .. Len(journal') : journal'[k].turn <= Latest
      BY <1>1, <3>3, <3>5, RowKnown DEF Turnwise
    <3>7. AttributedToOwnTurn'
      BY <1>1, <3>3, RowAttribution DEF SessionInvariant, Turnwise
    <3>. QED BY <3>4, <3>6, <3>7
  <2>. QED BY <2>1, <2>2
<1>3. Records'
  BY <1>1, <1>2, HostDiesDoes DEF Records, Grows
<1>4. Turnwise'
  BY <1>1, <1>2, HostDiesTurnwise
<1>5. ~Serving'
  BY <1>1, HostDiesDoes DEF Serving
<1>6. Flow' /\ QueuedStillWaits'
  BY <1>5 DEF Flow, QueuedStillWaits, Serving
<1>7. InOrder'
  BY <1>1, <1>2, <1>3, HostDiesInOrder DEF SessionInvariant
<1>. QED BY <1>2, <1>3, <1>4, <1>6, <1>7 DEF SessionInvariant

LEMMA SessionStill ==
    ASSUME SessionInvariant, UNCHANGED coreVars, plan' \in Plans, met' \in SUBSET plan'.may
    PROVE  SessionInvariant'
<1>1. UNCHANGED <<session, adapter, agent, journal, given>>
  BY DEF coreVars
<1>2. Records'
  BY <1>1 DEF SessionInvariant, Records
<1>3. Turnwise'
  BY <1>1 DEF SessionInvariant, Turnwise, Known, Lifecycle, Awaited, Latest, Silent
<1>4. Flow'
  <2>1. Latest' = Latest /\ (Serving' => Serving)
    BY <1>1 DEF Latest, Serving
  <2>. QED BY <1>1, <2>1, SameStage DEF SessionInvariant
<1>. QED BY <1>1, <1>2, <1>3, <1>4, Unjournaled

-----------------------------------------------------------------------------
(* The pane and the handlers. *)

Entries == [state : {"queued", "inflight", "failed", "gone"}, attempts : 0 .. MaxAttempts]
Copies  == [prompt : Prompts, entry : Entries]
Calls   == [todo : SUBSET Copies, call : {"idle", "sent", "ok", "err"}]

\* A flush sends only what has an attempt left, and waits only for a call.
Delivering ==
    /\ entered \in Nat /\ entered <= plan.prompts
    /\ outbox \in [Prompts -> Entries] /\ flush \in [Flushes -> Calls]
    /\ \A f \in Flushes :
          /\ \A c \in flush[f].todo : c.entry.attempts < MaxAttempts
          /\ flush[f].call # "idle" => flush[f].todo # {}
    /\ receipts \subseteq Prompts /\ cancels \subseteq cancelled
    /\ seen \in Nat /\ seen <= Len(journal)

DeliveryInvariant == SessionInvariant /\ Delivering

\* A set of naturals has a least member.
LEMMA Least ==
    ASSUME NEW S \in SUBSET Nat, S # {}
    PROVE  \E m \in S : \A n \in S : m <= n
<1>. DEFINE F == {0 .. n : n \in S}
<1>1. F \subseteq FiniteSubsetsOf(Nat)
  <2>1. \A n \in S : IsFiniteSet(0 .. n) /\ 0 .. n \subseteq Nat
    BY FS_Interval
  <2>. QED BY <2>1 DEF FiniteSubsetsOf
<1>2. F # {}
  OBVIOUS
<1>3. PICK x \in F : \A y \in F : ~(<<y, x>> \in StrictSubsetOrdering(Nat))
  <2>1. IsWellFoundedOn(StrictSubsetOrdering(Nat), FiniteSubsetsOf(Nat))
    BY FS_StrictSubsetOrderingWellFounded
  <2>. HIDE DEF F
  <2>. QED BY <1>1, <1>2, <2>1, WFMin
<1>4. PICK m \in S : x = 0 .. m
  BY <1>3
<1>5. ASSUME NEW n \in S, n < m
      PROVE  FALSE
  <2>1. m \in 0 .. m /\ m \notin 0 .. n /\ 0 .. n \subseteq 0 .. m
    BY <1>5
  <2>2. 0 .. n # 0 .. m /\ 0 .. m \in SUBSET Nat /\ 0 .. n \in SUBSET Nat
    BY <2>1
  <2>3. <<0 .. n, x>> \in StrictSubsetOrdering(Nat)
    BY <1>4, <2>1, <2>2, Zenon DEF StrictSubsetOrdering
  <2>. QED BY <1>3, <2>3
<1>. QED BY <1>5

LEMMA FirstOf ==
    ASSUME NEW todo \in SUBSET Copies, todo # {}
    PROVE  /\ First(todo) \in todo /\ First(todo).prompt \in Prompts
           /\ First(todo).entry.attempts \in Nat
<1>. DEFINE S == {c.prompt : c \in todo}
<1>1. S \subseteq Nat /\ S # {}
  BY Constants DEF Copies
<1>2. PICK m \in S : \A n \in S : m <= n
  BY <1>1, Least
<1>3. \E c \in todo : \A d \in todo : c.prompt <= d.prompt
  BY <1>2
<1>4. First(todo) \in todo
  BY <1>3 DEF First
<1>. QED BY <1>4 DEF Copies, Entries

LEMMA PlansAre ==
    ASSUME Records
    PROVE  plan.prompts \in 0 .. MaxPrompts /\ MaxPrompts \in Nat /\ MaxAttempts \in Nat
BY SessionBounds, DeliveryBounds DEF Records

LEMMA Updated ==
    ASSUME NEW o \in [Prompts -> Entries], NEW p, NEW entry \in Entries
    PROVE  Update(o, p, entry) \in [Prompts -> Entries]
BY DEF Update

LEMMA SendableIs ==
    ASSUME NEW o \in [Prompts -> Entries]
    PROVE  /\ Sendable(o) \in SUBSET Copies
           /\ \A c \in Sendable(o) : c.entry.attempts < MaxAttempts
BY DEF Sendable, Copy, Copies

\* The loop goes on with one attempt more.
LEMMA ProceedKeeps ==
    ASSUME Delivering, Records, NEW f \in Flushes, NEW o \in [Prompts -> Entries],
           NEW todo \in SUBSET Copies, \A c \in todo : c.entry.attempts < MaxAttempts,
           Proceed(f, todo, o)
    PROVE  /\ outbox' \in [Prompts -> Entries] /\ flush' \in [Flushes -> Calls]
           /\ \A g \in Flushes :
                 /\ \A c \in flush'[g].todo : c.entry.attempts < MaxAttempts
                 /\ flush'[g].call # "idle" => flush'[g].todo # {}
<1>1. CASE todo = {}
  <2>1. flush' = [flush EXCEPT ![f] = Idle] /\ outbox' = o
    BY <1>1 DEF Proceed
  <2>2. Idle \in Calls /\ Idle.todo = {} /\ Idle.call = "idle"
    BY DEF Idle, Calls
  <2>. QED BY <2>1, <2>2 DEF Delivering
<1>2. CASE todo # {}
  <2>0. PICK c : c = First(todo)
    OBVIOUS
  <2>1. c \in todo /\ c.entry.attempts \in Nat /\ c.entry.attempts < MaxAttempts
    BY <1>2, <2>0, FirstOf
  <2>2. /\ flush' = [flush EXCEPT ![f] = [todo |-> todo, call |-> "sent"]]
        /\ outbox' = Update(o, c.prompt,
                            [state |-> "inflight", attempts |-> c.entry.attempts + 1])
    BY <1>2, <2>0 DEF Proceed
  <2>3. [state |-> "inflight", attempts |-> c.entry.attempts + 1] \in Entries
    BY <2>1, PlansAre DEF Entries
  <2>4. [todo |-> todo, call |-> "sent"] \in Calls
    BY DEF Calls
  <2>5. outbox' \in [Prompts -> Entries]
    BY <2>2, <2>3, Updated
  <2>. QED BY <1>2, <2>2, <2>4, <2>5 DEF Delivering
<1>. QED BY <1>1, <1>2

LEMMA FlushKeeps ==
    ASSUME Delivering, Records, NEW o \in [Prompts -> Entries], Flush(o)
    PROVE  /\ outbox' \in [Prompts -> Entries] /\ flush' \in [Flushes -> Calls]
           /\ \A g \in Flushes :
                 /\ \A c \in flush'[g].todo : c.entry.attempts < MaxAttempts
                 /\ flush'[g].call # "idle" => flush'[g].todo # {}
<1>1. PICK f \in Flushes : Proceed(f, Sendable(o), o)
  BY DEF Flush
<1>. QED BY <1>1, ProceedKeeps, SendableIs

\* The prompt a call is for.
LEMMA SendingIs ==
    ASSUME Delivering, NEW f \in Flushes, flush[f].call # "idle"
    PROVE  /\ flush[f].todo \in SUBSET Copies /\ flush[f].todo # {}
           /\ Sending(f) \in Prompts
<1>1. flush[f].todo \in SUBSET Copies /\ flush[f].todo # {}
  BY DEF Delivering, Calls
<1>. QED BY <1>1, FirstOf DEF Sending

\* The rest of Delivering follows for a step of the session or of a handler.
LEMMA HostStep ==
    ASSUME Delivering, Grows, plan' = plan, entered' = entered, outbox' = outbox,
           receipts' \subseteq Prompts, seen' = seen, cancels' \subseteq cancelled',
           \/ flush' = flush
           \/ \E f \in Flushes, result \in {"ok", "err"} :
                 /\ flush' = [flush EXCEPT ![f].call = result]
                 /\ flush[f].call # "idle"
    PROVE  Delivering'
<1>1. seen' \in Nat /\ seen' <= Len(journal')
  BY LenProperties DEF Delivering, Grows
<1>2. CASE flush' = flush
  BY <1>1, <1>2 DEF Delivering
<1>3. CASE \E f \in Flushes, result \in {"ok", "err"} :
              /\ flush' = [flush EXCEPT ![f].call = result]
              /\ flush[f].call # "idle"
  <2>1. PICK f \in Flushes, result \in {"ok", "err"} :
            /\ flush' = [flush EXCEPT ![f].call = result]
            /\ flush[f].call # "idle"
    BY <1>3
  <2>2. [flush[f] EXCEPT !.call = result] \in Calls
    BY DEF Delivering, Calls
  <2>3. [flush[f] EXCEPT !.call = result].todo = flush[f].todo
    BY DEF Delivering, Calls
  <2>4. /\ flush' \in [Flushes -> Calls]
        /\ \A g \in Flushes : flush'[g].todo = flush[g].todo
        /\ \A g \in Flushes : flush'[g].call # "idle" => flush[g].call # "idle"
    BY <2>1, <2>2, <2>3 DEF Delivering
  <2>. QED BY <1>1, <2>4 DEF Delivering
<1>. QED BY <1>2, <1>3

LEMMA PlanStays ==
    ASSUME SessionNext
    PROVE  plan' = plan
BY DEF SessionNext, Pump, Resumes, TakesTurns, Obeys, HandleTurnRuns, HandleTurnEnds,
   HandleSession, PumpFails, Boots, BootFails, AgentExits, TurnStartReturns, Receive,
   AgentStarts, AgentRejects, AgentReports, AgentEnds, AgentStops, Meets, Ordinary

\* The pane's own steps leave the session alone.
LEMMA PaneSession ==
    ASSUME DeliveryInvariant,
           \/ UNCHANGED sessionVars
           \/ UNCHANGED coreVars /\ \E kind \in Circumstances : Meets(kind)
    PROVE  SessionInvariant' /\ plan' = plan /\ journal' = journal
<1>1. UNCHANGED coreVars /\ plan' = plan /\ journal' = journal
  BY DEF sessionVars, coreVars, Meets
<1>2. plan' \in Plans /\ met' \in SUBSET plan'.may
  BY MeetsOne DEF sessionVars, DeliveryInvariant, SessionInvariant, Records
<1>. QED BY <1>1, <1>2, SessionStill DEF DeliveryInvariant

LEMMA OutboxStep ==
    ASSUME DeliveryInvariant,
           \/ SendPrompt
           \/ \E p \in Prompts : RetryPrompt(p) \/ DiscardPrompt(p)
           \/ \E f \in Flushes : Answer(f) \/ Lose(f)
           \/ Commit \/ \E t \in Turns : ClickCancel(t)
    PROVE  DeliveryInvariant'
<1>. DEFINE Flushing == /\ outbox' \in [Prompts -> Entries] /\ flush' \in [Flushes -> Calls]
                        /\ \A g \in Flushes :
                              /\ \A c \in flush'[g].todo : c.entry.attempts < MaxAttempts
                              /\ flush'[g].call # "idle" => flush'[g].todo # {}
<1>0. /\ Delivering /\ Records /\ MaxAttempts \in Nat
      /\ outbox \in [Prompts -> Entries] /\ flush \in [Flushes -> Calls]
      /\ [state |-> "queued", attempts |-> 0] \in Entries /\ Gone \in Entries
  BY PlansAre DEF DeliveryInvariant, SessionInvariant, Delivering, Entries, Gone
<1>1. SessionInvariant' /\ plan' = plan /\ journal' = journal
  BY PaneSession
  DEF SendPrompt, RetryPrompt, DiscardPrompt, Answer, Lose, Commit, ClickCancel, Circumstances
<1>2. CASE SendPrompt
  <2>1. [outbox EXCEPT ![entered + 1] = [state |-> "queued", attempts |-> 0]]
            \in [Prompts -> Entries]
    BY <1>0
  <2>2. Flushing
    BY <1>0, <1>2, <2>1, FlushKeeps DEF SendPrompt
  <2>3. entered' \in Nat /\ entered' <= plan.prompts
    BY <1>0, <1>2, PlansAre DEF SendPrompt, Delivering
  <2>. QED BY <1>0, <1>1, <1>2, <2>2, <2>3 DEF SendPrompt, DeliveryInvariant, Delivering
<1>3. CASE \E p \in Prompts : RetryPrompt(p)
  <2>1. PICK p \in Prompts : RetryPrompt(p)
    BY <1>3
  <2>2. [outbox EXCEPT ![p] = [state |-> "queued", attempts |-> 0]] \in [Prompts -> Entries]
    BY <1>0
  <2>3. Flushing
    BY <1>0, <2>1, <2>2, FlushKeeps DEF RetryPrompt
  <2>. QED BY <1>0, <1>1, <2>1, <2>3 DEF RetryPrompt, DeliveryInvariant, Delivering
<1>4. CASE \E p \in Prompts : DiscardPrompt(p)
  <2>1. PICK p \in Prompts : DiscardPrompt(p)
    BY <1>4
  <2>2. outbox' \in [Prompts -> Entries] /\ flush' = flush
    BY <1>0, <2>1 DEF DiscardPrompt
  <2>. QED BY <1>0, <1>1, <2>1, <2>2 DEF DiscardPrompt, DeliveryInvariant, Delivering
<1>5. CASE \E f \in Flushes : Answer(f)
  <2>1. PICK f \in Flushes : Answer(f)
    BY <1>5
  <2>2. flush[f].call # "idle"
    BY <2>1 DEF Answer
  <2>3. flush[f].todo \in SUBSET Copies /\ Sending(f) \in Prompts
    BY <1>0, <2>2, SendingIs
  <2>4. outbox[Sending(f)] \in Entries
    BY <1>0, <2>3
  <2>5. /\ [outbox[Sending(f)] EXCEPT !.state = "failed"] \in Entries
        /\ [outbox[Sending(f)] EXCEPT !.state = "queued"] \in Entries
    BY <2>4 DEF Entries
  <2>6. Accepted(f, outbox) \in [Prompts -> Entries] /\ Failed(f, outbox) \in [Prompts -> Entries]
    BY <1>0, <2>5, Updated DEF Accepted, Failed
  <2>7. PICK o \in [Prompts -> Entries] :
            Proceed(f, flush[f].todo \ {First(flush[f].todo)}, o)
    BY <2>1, <2>6 DEF Answer
  <2>8. /\ flush[f].todo \ {First(flush[f].todo)} \in SUBSET Copies
        /\ \A c \in flush[f].todo \ {First(flush[f].todo)} : c.entry.attempts < MaxAttempts
    BY <1>0, <2>3 DEF Delivering
  <2>9. Flushing
    BY <1>0, <2>7, <2>8, ProceedKeeps
  <2>. QED BY <1>0, <1>1, <2>1, <2>9 DEF Answer, DeliveryInvariant, Delivering
<1>6. CASE \E f \in Flushes : Lose(f)
  <2>1. PICK f \in Flushes : Lose(f)
    BY <1>6
  <2>2. /\ flush' = [flush EXCEPT ![f].call = "err"] /\ flush[f].call # "idle"
        /\ UNCHANGED <<entered, outbox, receipts, seen, cancels, cancelled>>
    BY <2>1 DEF Lose
  <2>3. Grows
    BY <1>0, <1>1, RowSame, Typed DEF NoArrival
  <2>4. receipts' \subseteq Prompts /\ cancels' \subseteq cancelled'
    BY <1>0, <2>2 DEF Delivering
  <2>. QED BY <1>0, <1>1, <2>2, <2>3, <2>4, HostStep DEF DeliveryInvariant
<1>7. CASE Commit
  <2>1. outbox' \in [Prompts -> Entries]
    BY <1>0, <1>7 DEF Commit
  <2>2. seen' \in Nat /\ seen' <= Len(journal')
    <3>1. Len(journal) \in Nat
      BY <1>0, Typed, LenProperties
    <3>. QED BY <1>0, <1>1, <1>7, <3>1 DEF Commit, Delivering
  <2>. QED BY <1>0, <1>1, <1>7, <2>1, <2>2 DEF Commit, DeliveryInvariant, Delivering
<1>8. CASE \E t \in Turns : ClickCancel(t)
  BY <1>0, <1>1, <1>8 DEF ClickCancel, DeliveryInvariant, Delivering
<1>. QED BY <1>2, <1>3, <1>4, <1>5, <1>6, <1>7, <1>8

LEMMA HandlerStep ==
    ASSUME DeliveryInvariant, NEW f \in Flushes, HandlePrompt(f) \/ ReceiptFails(f)
    PROVE  DeliveryInvariant'
<1>0. /\ Delivering /\ SessionInvariant /\ Records /\ journal \in Seq(Rows)
      /\ plan \in Plans /\ met \in SUBSET plan.may
  BY Typed DEF DeliveryInvariant, SessionInvariant, Records
<1>1. /\ flush[f].call # "idle" /\ UNCHANGED <<entered, outbox, seen, cancels, cancelled>>
      /\ \E result \in {"ok", "err"} : flush' = [flush EXCEPT ![f].call = result]
  BY DEF HandlePrompt, ReceiptFails, Answers
<1>2. Sending(f) \in Prompts
  BY <1>0, <1>1, SendingIs
<1>3. receipts' \subseteq Prompts /\ cancels' \subseteq cancelled'
  BY <1>0, <1>1, <1>2 DEF HandlePrompt, ReceiptFails, Record, Delivering
<1>4. \/ UNCHANGED sessionVars
      \/ /\ Prompt(Sending(f)) /\ session.live
         /\ Ordinary \/ Meets("receipt")
  BY DEF HandlePrompt, ReceiptFails
<1>5. SessionInvariant' /\ Grows /\ plan' = plan
  <2>1. CASE UNCHANGED sessionVars
    BY <1>0, <2>1, PaneSession, RowSame DEF NoArrival
  <2>2. CASE Prompt(Sending(f)) /\ session.live /\ (Ordinary \/ Meets("receipt"))
    <3>1. plan' = plan /\ plan' \in Plans /\ met' \in SUBSET plan'.may
      BY <1>0, <2>2, MeetsOne DEF Ordinary, Meets
    <3>. QED BY <1>0, <1>2, <2>2, <3>1, TakesPrompt
  <2>. QED BY <1>4, <2>1, <2>2
<1>. QED BY <1>0, <1>1, <1>3, <1>5, HostStep DEF DeliveryInvariant

LEMMA OtherStep ==
    ASSUME DeliveryInvariant,
           \/ SessionNext /\ UNCHANGED deliveryVars
           \/ Crash
           \/ \E t \in Turns : HandleCancel(t)
           \/ UNCHANGED vars
    PROVE  DeliveryInvariant'
<1>0. /\ Delivering /\ SessionInvariant /\ Records /\ journal \in Seq(Rows)
      /\ receipts \subseteq Prompts /\ cancels \subseteq cancelled
  BY Typed DEF DeliveryInvariant, SessionInvariant, Delivering
<1>1. CASE SessionNext /\ UNCHANGED deliveryVars
  BY <1>0, <1>1, SessionKeeps, PlanStays, HostStep DEF deliveryVars, DeliveryInvariant
<1>2. CASE Crash
  <2>1. /\ HostDies /\ UNCHANGED deliveryVars
        /\ \/ journal' = journal
           \/ \E p \in Prompts : journal' = Append(journal, Item(p, None, Busy(session)))
    <3>1. ASSUME NEW f \in Flushes, flush[f].call = "sent"
          PROVE  Sending(f) \in Prompts
      BY <1>0, <3>1, SendingIs
    <3>. QED BY <1>2, <3>1 DEF Crash
  <2>2. SessionInvariant' /\ Grows
    BY <1>0, <2>1, CrashKeeps
  <2>3. plan' = plan
    BY <2>1 DEF HostDies, Meets
  <2>. QED BY <1>0, <2>1, <2>2, <2>3, HostStep DEF deliveryVars, DeliveryInvariant
<1>3. CASE \E t \in Turns : HandleCancel(t)
  <2>1. PICK t \in Turns : HandleCancel(t)
    BY <1>3
  <2>2. /\ UNCHANGED <<entered, outbox, flush, receipts, seen, cancelled>>
        /\ cancels' = cancels \ {t}
        /\ CancelTurn(t) \/ UNCHANGED sessionVars
    BY <2>1 DEF HandleCancel
  <2>3. plan' = plan /\ SessionInvariant' /\ journal' = journal
    <3>1. CASE UNCHANGED sessionVars
      BY <3>1, PaneSession
    <3>2. CASE CancelTurn(t)
      BY <1>0, <3>2, CancelKeeps DEF CancelTurn, Ordinary
    <3>. QED BY <2>2, <3>1, <3>2
  <2>4. Grows
    BY <1>0, <2>3, RowSame DEF NoArrival
  <2>5. cancels' \subseteq cancelled'
    BY <1>0, <2>2
  <2>. QED BY <1>0, <2>2, <2>3, <2>4, <2>5, HostStep DEF DeliveryInvariant
<1>4. CASE UNCHANGED vars
  <2>1. /\ UNCHANGED <<entered, outbox, flush, receipts, seen, cancels, cancelled>>
        /\ UNCHANGED sessionVars
    BY <1>4 DEF vars, deliveryVars
  <2>2. plan' = plan /\ SessionInvariant' /\ journal' = journal
    BY <2>1, PaneSession
  <2>3. Grows
    BY <1>0, <2>2, RowSame DEF NoArrival
  <2>. QED BY <1>0, <2>1, <2>2, <2>3, HostStep DEF DeliveryInvariant
<1>. QED BY <1>1, <1>2, <1>3, <1>4

\* No step breaks the invariant of the whole.
LEMMA DeliveryStep ==
    ASSUME DeliveryInvariant, [Next]_vars
    PROVE  DeliveryInvariant'
BY OutboxStep, HandlerStep, OtherStep DEF Next

LEMMA InitRecords ==
    ASSUME Init
    PROVE  Records
<1>1. <<>> \in Seq(Prompts) /\ <<>> \in Seq(Nat) /\ <<>> \in Seq(Events)
      /\ <<>> \in Seq(Frames) /\ <<>> \in Seq(Rows)
  OBVIOUS
<1>2. NoTurn \in States
  BY DEF NoTurn, None, States
<1>3. session \in Sessions
  BY <1>1, <1>2 DEF Init, SessionInit, Sessions
<1>4. adapter \in Adapters
  BY <1>1, <1>2 DEF Init, SessionInit, Adapters
<1>5. agent \in Agents
  BY <1>1 DEF Init, SessionInit, Agents, None
<1>. QED BY <1>1, <1>3, <1>4, <1>5 DEF Init, SessionInit, Records

LEMMA InitFlow ==
    ASSUME Init
    PROVE  Turnwise /\ Flow
<1>1. /\ given = <<>> /\ journal = <<>> /\ Len(<<>>) = 0
      /\ session.live /\ ~session.stopped /\ session.awaiting = None
      /\ session.turn = NoTurn
      /\ adapter.inputs = <<>> /\ ~adapter.starting /\ ~adapter.cancel
      /\ adapter.turn = NoTurn /\ adapter.settled = {} /\ adapter.resolved = {}
      /\ adapter.events = <<>> /\ ~adapter.closed
      /\ agent.asked = <<>> /\ agent.wire = <<>> /\ agent.active = None /\ agent.cut = {}
  BY DEF Init, SessionInit
<1>2. \A k \in 1 .. 0 : FALSE
  OBVIOUS
<1>3. NoTurn.id = 0
  BY DEF NoTurn, None
<1>4. Known
  BY <1>1, <1>2, <1>3 DEF Known, Latest, None
<1>5. Lifecycle /\ Awaited
  BY <1>1 DEF Lifecycle, Silent, Awaited
<1>6. Nowhere
  BY <1>1, <1>2 DEF Nowhere, OnlyErrors, OnlyRuns, NoTurns, Latest
<1>. QED BY <1>1, <1>4, <1>5, <1>6 DEF Turnwise, Flow, Placed

LEMMA InitDelivery ==
    ASSUME Init
    PROVE  DeliveryInvariant
<1>1. /\ given = <<>> /\ journal = <<>> /\ session.queue = <<>> /\ Len(<<>>) = 0
      /\ \A k \in 1 .. 0 : FALSE
  BY DEF Init, SessionInit
<1>2. DOMAIN given = {} /\ DOMAIN journal = {}
  BY <1>1
<1>3. FirstComeFirstServed /\ QueuedStillWaits /\ AttributedToOwnTurn
  BY <1>2 DEF FirstComeFirstServed, QueuedStillWaits, MarkedQueued, AttributedToOwnTurn
<1>4. Journaled
  <2>1. Handed = <<>>
    BY <1>1 DEF Handed
  <2>2. Arrivals(0) = {}
    BY DEF Arrivals
  <2>. QED BY <1>1, <2>1, <2>2, FS_EmptySet DEF Journaled
<1>5. SessionInvariant
  BY <1>3, <1>4, InitRecords, InitFlow DEF SessionInvariant, InOrder
<1>6. plan.prompts \in 0 .. MaxPrompts /\ MaxPrompts \in Nat /\ MaxAttempts \in Nat
  BY InitRecords, PlansAre
<1>7. Gone \in Entries /\ Idle \in Calls /\ Idle.todo = {} /\ Idle.call = "idle"
  BY <1>6 DEF Gone, Entries, Idle, Calls
<1>8. Delivering
  BY <1>1, <1>6, <1>7 DEF Init, Delivering
<1>. QED BY <1>5, <1>8 DEF DeliveryInvariant

THEOREM DeliveryInvariantHolds == Spec => []DeliveryInvariant
<1>1. Init => DeliveryInvariant
  BY InitDelivery
<1>2. DeliveryInvariant /\ [Next]_vars => DeliveryInvariant'
  BY DeliveryStep
<1>. QED BY <1>1, <1>2, PTL DEF Spec

-----------------------------------------------------------------------------
(* What it says. *)

LEMMA TypesFollow ==
    ASSUME DeliveryInvariant
    PROVE  TypeOK
<1>1. Records /\ Known /\ Delivering
  BY DEF DeliveryInvariant, SessionInvariant, Turnwise
<1>2. Turns = 1 .. Latest /\ Latest \in Nat
  BY <1>1, Typed, LatestIs DEF Turns, Latest
<1>3. /\ session \in Sessions /\ session.turn.id \in Nat /\ session.turn.id <= Latest
      /\ adapter \in Adapters /\ adapter.turn.id \in Nat /\ adapter.turn.id <= Latest
  BY <1>1, Typed DEF Known
<1>4. session.turn \in TurnStates
  BY <1>2, <1>3, SessionIs DEF TurnStates, States, None
<1>5. adapter.turn \in TurnStates
  BY <1>2, <1>3, AdapterIs DEF TurnStates, States, None
<1>6. session \in [live : BOOLEAN, stopped : BOOLEAN, queue : Seq(Prompts),
                   awaiting : Prompts \cup {None}, turn : TurnStates,
                   status : {"starting", "idle", "running", "dead"}]
  BY <1>3, <1>4 DEF Sessions
<1>7. adapter.inputs \in Seq(Turns) /\ agent.asked \in Seq(Turns)
  <2>1. ASSUME NEW s \in Seq(Nat), \A k \in 1 .. Len(s) : s[k] \in Turns
        PROVE  s \in Seq(Turns)
    BY <2>1
  <2>. QED BY <1>1, <1>2, <2>1, Typed DEF Known
<1>8. adapter.boot \in {"booting", "ready", "failed"} /\ adapter.settled \subseteq Turns
  BY <1>1, <1>2, <1>3, AdapterIs DEF Known
<1>9. agent.active \in Turns \cup {None} /\ agent.cut \subseteq Turns
  BY <1>1, <1>2, Typed DEF Known, None
<1>10. SessionTypeOK
  BY <1>1, <1>5, <1>6, <1>7, <1>8, <1>9 DEF SessionTypeOK, Records
<1>. QED BY <1>1, <1>10 DEF TypeOK, Delivering, Entries, Calls

\* One turn at a time: the latest has one place.
LEMMA OneTurn ==
    ASSUME SessionInvariant
    PROVE  OneTurnAtATime
<1>1. Records /\ Lifecycle /\ Flow /\ Len(<<>>) = 0
  BY DEF SessionInvariant, Turnwise
<1>2. CASE Serving
  <2>1. Placed
    BY <1>1, <1>2 DEF Flow
  <2>2. Len(<<Latest>>) = 1
    OBVIOUS
  <2>3. CASE AtAdapter
    <3>1. adapter.inputs = <<Latest>> /\ agent.asked = <<>> /\ agent.active = None
      BY <1>1, <2>3 DEF AtAdapter, Lifecycle, Silent
    <3>2. Len(adapter.inputs) = 1 /\ Len(agent.asked) = 0
      BY <1>1, <2>2, <3>1
    <3>. QED BY <3>1, <3>2 DEF OneTurnAtATime
  <2>4. CASE Asked
    BY <1>1, <2>2, <2>4 DEF OneTurnAtATime, Asked
  <2>5. CASE Nowhere \/ Ending \/ Completes \/ AtWork
    <3>1. adapter.inputs = <<>> /\ agent.asked = <<>>
      BY <2>5 DEF Nowhere, Ending, Completes, AtWork, UnderWay
    <3>. QED BY <1>1, <3>1 DEF OneTurnAtATime
  <2>. QED BY <2>1, <2>3, <2>4, <2>5 DEF Placed
<1>3. CASE ~Serving
  <2>1. CASE ~session.live
    <3>1. adapter.inputs = <<>> /\ agent.asked = <<>> /\ agent.active = None
      BY <1>1, <2>1 DEF Lifecycle, Silent
    <3>2. Len(adapter.inputs) = 0 /\ Len(agent.asked) = 0
      BY <1>1, <3>1
    <3>. QED BY <3>1, <3>2 DEF OneTurnAtATime
  <2>2. CASE session.stopped
    BY <2>2 DEF OneTurnAtATime
  <2>. QED BY <1>3, <2>1, <2>2 DEF Serving
<1>. QED BY <1>2, <1>3

LEMMA CancelFollows ==
    ASSUME SessionInvariant
    PROVE  CancelNotHeld
<1>1. Awaited
  BY DEF SessionInvariant, Turnwise
<1>2. Latest # 0 => given # <<>>
  BY DEF Latest
<1>. QED BY <1>1, <1>2 DEF CancelNotHeld, Awaited, Latest

\* Session, adapter, agent and outbox stay in their types (LiveSession,
\* CodexAdapter, Outbox): an entry never counts more than maxAttempts attempts.
THEOREM TypesHold == Spec => []TypeOK
<1>1. DeliveryInvariant => TypeOK
  BY TypesFollow
<1>. QED BY <1>1, DeliveryInvariantHolds, PTL

\* Prompts reach the agent once and in the order of the journal, whatever
\* arrives between the end of a turn and the start of the next
\* (LiveSession.prompt and its queue behind commands.prompt).
THEOREM ServedInOrder == Spec => []ServedOnceInOrder
<1>1. DeliveryInvariant /\ AtMostOnce => ServedOnceInOrder
  BY DEF DeliveryInvariant, SessionInvariant, InOrder, ServedOnceInOrder
<1>. QED BY <1>1, DeliveryInvariantHolds, GivenOnce, PTL

\* A prompt is shown under the turn it started, whichever late, repeated or
\* missing events the agent's earlier turns have (LiveSession's attribution
\* behind CodexAdapter.emitTurnState).
THEOREM OwnTurnHolds == Spec => []AttributedToOwnTurn
<1>1. DeliveryInvariant => AttributedToOwnTurn
  BY DEF DeliveryInvariant, SessionInvariant
<1>. QED BY <1>1, DeliveryInvariantHolds, PTL

\* The agent has one turn at a time, what is shown as queued still waits, and
\* a cancel is held for the turn that starts and for no other (LiveSession's
\* queue, CodexAdapter.cancelTurn).
THEOREM TurnsAreDisciplined == Spec => []TurnDiscipline
<1>1. DeliveryInvariant => TurnDiscipline
  BY OneTurn, CancelFollows DEF DeliveryInvariant, SessionInvariant, TurnDiscipline
<1>. QED BY <1>1, DeliveryInvariantHolds, PTL
=============================================================================

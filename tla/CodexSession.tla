---------------------------- MODULE CodexSession ----------------------------
(***************************************************************************)
(* A live chat session of the host and the codex agent behind it:          *)
(* LiveSession (the FIFO prompt queue, attribution of prompts to turns,    *)
(* failure), CodexAdapter (bootstrap, turn/start, cancel before a turn     *)
(* runs, turns that settled) and, as far as the adapter sees it, the codex *)
(* app-server at the other end of the pipe.                                *)
(* (packages/chat-runtime/src/sessions/live-session,                       *)
(* packages/chat-runtime/src/harness/codex.)                               *)
(*                                                                         *)
(* The three run at their own pace.  The adapter's EventQueue and the pipe *)
(* are sequences; a turn/start response settles a promise whose            *)
(* continuation runs later than the notifications read in the same chunk.  *)
(* The app-server names every turn anew: turn t is the one started for     *)
(* given[t].  Approvals, items and deltas of the agent are left out, as    *)
(* are sessions with an observer.                                          *)
(***************************************************************************)
EXTENDS Naturals, Sequences, FiniteSets, Functions

CONSTANTS
    MaxPrompts, \* bound: prompts 1 .. MaxPrompts
    Plans       \* bound: what one behaviour may meet, see Meets

Circumstances ==
    {"fail", "boot", "exit", "reject", "crash", "loss", "retry", "cancel", "usage",
     "receipt"}

ASSUME SessionBounds ==
    /\ MaxPrompts \in Nat
    /\ Plans \subseteq
          [prompts : 0 .. MaxPrompts, flushes : Nat, idle : BOOLEAN, may : SUBSET Circumstances]

Prompts == 1 .. MaxPrompts
None    == 0

VARIABLES
    session, \* LiveSession and its place in the registry
    adapter, \* CodexAdapter and its EventQueue
    agent,   \* the pipe and the app-server
    journal, \* the user_message and turn events in chat.db
    given,   \* history: the prompts passed to adapter.prompt
    plan,    \* the bounds of this behaviour
    met      \* the circumstances it has met

\* Turns that have been asked for.
Turns == DOMAIN given

coreVars    == <<session, adapter, agent, journal, given>>
sessionVars == <<coreVars, plan, met>>

(***************************************************************************)
(* Journal rows and adapter events.                                        *)
(***************************************************************************)
Item(p, t, queued) == [kind |-> "item", of |-> p, turn |-> t, flag |-> queued]
TurnRow(t, run)    == [kind |-> "turn", of |-> t, turn |-> t, flag |-> run]

TurnEvent(t, run)   == [kind |-> "turn", turn |-> t, run |-> run, status |-> "none"]
SessionEvent(state) == [kind |-> "session", turn |-> None, run |-> FALSE, status |-> state]
NoTurn == [id |-> None, run |-> FALSE]

\* EventQueue.push: a closed queue drops.
Push(a, e) == IF a.closed THEN a ELSE [a EXCEPT !.events = Append(@, e)]

\* A behaviour begins with a new session, or with one that has booted and has
\* not been prompted.
SessionInit ==
    /\ plan \in Plans /\ met = {}
    /\ session = [live |-> TRUE, stopped |-> FALSE, queue |-> <<>>,
                  awaiting |-> None, turn |-> NoTurn,
                  status |-> IF plan.idle THEN "idle" ELSE "starting"]
    /\ adapter = [boot |-> IF plan.idle THEN "ready" ELSE "booting", inputs |-> <<>>,
                  starting |-> FALSE, cancel |-> FALSE, turn |-> NoTurn, settled |-> {},
                  resolved |-> {}, events |-> <<>>, closed |-> FALSE]
    /\ agent = [asked |-> <<>>, wire |-> <<>>, active |-> None,
                stops |-> {}, cut |-> {}]
    /\ journal = <<>> /\ given = <<>>

\* Each circumstance of the plan happens at most once.
Meets(kind) ==
    /\ kind \in plan.may \ met
    /\ met' = met \cup {kind} /\ UNCHANGED plan

Ordinary == UNCHANGED <<plan, met>>

(***************************************************************************)
(* LiveSession: prompts.                                                   *)
(***************************************************************************)
Pending(s) == s.queue # <<>> \/ s.awaiting # None

\* Mutant: a prompt that was delivered but has no turn yet does not count.
BusyOnceRunning(s) == s.turn.run \/ s.queue # <<>>

Busy(s) == s.turn.run \/ Pending(s)

\* adapter.prompt(): kept until the thread exists, else turn/start is sent.
\* After an exit the request is rejected and its notice dropped.
Deliver(p, s, a) ==
    LET t == Len(given) + 1
    IN  /\ session' = [s EXCEPT !.awaiting = p]
        /\ given' = Append(given, p)
        /\ IF a.boot # "ready"
           THEN adapter' = [a EXCEPT !.inputs = Append(@, t)] /\ UNCHANGED agent
           ELSE /\ adapter' = [a EXCEPT !.starting = TRUE]
                /\ agent' = IF a.closed THEN agent
                            ELSE [agent EXCEPT !.asked = Append(@, t)]

\* LiveSession.prompt().
Prompt(p) ==
    /\ journal' = Append(journal, Item(p, None, Busy(session)))
    /\ IF Busy(session)
       THEN /\ session' = [session EXCEPT !.queue = Append(@, p)]
            /\ UNCHANGED <<adapter, agent, given>>
       ELSE Deliver(p, session, adapter)

(***************************************************************************)
(* LiveSession: the event pump.                                            *)
(***************************************************************************)
Pumps == session.live /\ ~session.stopped /\ adapter.events # <<>>
Event == Head(adapter.events)
Popped == [adapter EXCEPT !.events = Tail(@)]
Seen   == [session EXCEPT !.turn = [id |-> Event.turn, run |-> Event.run]]

HandleTurnRuns ==
    /\ Pumps /\ Event.kind = "turn" /\ Event.run
    /\ journal' = journal \o <<TurnRow(Event.turn, TRUE)>>
                  \o (IF session.awaiting = None THEN <<>>
                      ELSE <<Item(session.awaiting, Event.turn, FALSE)>>)
    /\ session' = [Seen EXCEPT !.awaiting = None]
    /\ adapter' = Popped
    /\ UNCHANGED <<agent, given>> /\ Ordinary

\* Mutant: the queue is served when a turn starts, not when it ends.
ServesOnStart ==
    /\ Pumps /\ Event.kind = "turn" /\ ~Event.run
    /\ journal' = Append(journal, TurnRow(Event.turn, FALSE))
    /\ session' = Seen /\ adapter' = Popped
    /\ UNCHANGED <<agent, given>> /\ Ordinary

\* Mutant: the queue is served from its end.
ServesNewest ==
    /\ Pumps /\ Event.kind = "turn" /\ ~Event.run
    /\ journal' = Append(journal, TurnRow(Event.turn, FALSE))
    /\ IF session.queue = <<>>
       THEN session' = Seen /\ adapter' = Popped /\ UNCHANGED <<agent, given>>
       ELSE Deliver(session.queue[Len(session.queue)],
                    [Seen EXCEPT !.queue = SubSeq(@, 1, Len(@) - 1)], Popped)
    /\ Ordinary

HandleTurnEnds ==
    /\ Pumps /\ Event.kind = "turn" /\ ~Event.run
    /\ journal' = Append(journal, TurnRow(Event.turn, FALSE))
    /\ IF session.queue = <<>>
       THEN session' = Seen /\ adapter' = Popped /\ UNCHANGED <<agent, given>>
       ELSE Deliver(Head(session.queue), [Seen EXCEPT !.queue = Tail(@)], Popped)
    /\ Ordinary

Merged(s) == IF Pending(s) THEN "running" ELSE Event.status

\* emitSession(): pending work outranks the status the adapter reports.
HandleSession ==
    /\ Pumps /\ Event.kind = "session"
    /\ session' = [session EXCEPT !.status = Merged(session)]
    /\ adapter' = Popped
    /\ UNCHANGED <<agent, journal, given>> /\ Ordinary

\* An append that throws ends the pump: fail() drops what was queued. The turn
\* may be journaled and the prompt's attribution not; when the append of fail()
\* throws too, the status stays.
PumpFails ==
    /\ Pumps /\ Meets("fail")
    /\ LET s == IF Event.kind = "turn" THEN Seen
                ELSE [session EXCEPT !.status = Merged(session)]
       IN  \E status \in {"dead", s.status} :
               session' = [s EXCEPT !.stopped = TRUE, !.queue = <<>>,
                             !.awaiting = None, !.status = status]
    /\ journal' \in {journal}
          \cup (IF Event.kind = "turn" /\ Event.run /\ session.awaiting # None
                THEN {Append(journal, TurnRow(Event.turn, TRUE))} ELSE {})
    /\ adapter' = Popped
    /\ UNCHANGED <<agent, given>>

(***************************************************************************)
(* CodexAdapter: turns.                                                    *)
(***************************************************************************)
Ask(g, t) == [g EXCEPT !.stops = @ \cup {t}]

Emitted(a, t, run) ==
    [Push(a, TurnEvent(t, run)) EXCEPT
        !.turn = [id |-> t, run |-> run],
        !.settled = IF run THEN @ ELSE @ \cup {t},
        !.starting = FALSE, !.cancel = FALSE]

\* Mutant: a turn that settled may run again.
EmitStale(t, run, a, g) ==
    /\ adapter' = Emitted(a, t, run)
    /\ agent' = IF run /\ a.cancel THEN Ask(g, t) ELSE g

\* emitTurnState(): a cancel that waited for the turn interrupts it now.
EmitTurnState(t, run, a, g) ==
    IF run /\ t \in a.settled THEN adapter' = a /\ agent' = g
    ELSE /\ adapter' = Emitted(a, t, run)
         /\ agent' = IF run /\ a.cancel THEN Ask(g, t) ELSE g

\* LiveSession.cancelTurn(turnId), then CodexAdapter.cancelTurn(): the id is
\* compared with LiveSession's current turn, the interrupt goes to the
\* adapter's, or waits for the one that is starting.
CancelTurn(t) ==
    /\ IF session.turn.id \notin {None, t} \/ adapter.boot # "ready"
       THEN UNCHANGED <<adapter, agent>>
       ELSE IF adapter.turn.run
            THEN /\ adapter' = [adapter EXCEPT !.cancel = FALSE]
                 /\ agent' = IF adapter.closed THEN agent ELSE Ask(agent, adapter.turn.id)
            ELSE /\ adapter' = [adapter EXCEPT !.cancel = @ \/ adapter.starting]
                 /\ UNCHANGED agent
    /\ UNCHANGED <<session, journal, given>> /\ Ordinary

\* The end of bootstrap(): the thread exists. Prompts that came before it are
\* sent; LiveSession lets one at a time through, see OneTurnAtATime.
Boots ==
    /\ session.live /\ adapter.boot = "booting"
    /\ adapter' = [Push(adapter, SessionEvent("idle")) EXCEPT
                     !.boot = "ready", !.inputs = <<>>, !.starting = adapter.inputs # <<>>]
    /\ agent' = [agent EXCEPT !.asked = @ \o adapter.inputs]
    /\ UNCHANGED <<session, journal, given>> /\ Ordinary

Dies(a) == [Push(a, SessionEvent("dead")) EXCEPT !.closed = TRUE]

\* The version gate, or any request of bootstrap() that fails.
BootFails ==
    /\ session.live /\ adapter.boot = "booting" /\ Meets("boot")
    /\ adapter' = [Dies(adapter) EXCEPT !.boot = "failed"]
    /\ UNCHANGED <<session, agent, journal, given>>

\* The app-server exits: handleExit(). Requests that wait are rejected.
AgentExits ==
    /\ session.live /\ ~adapter.closed /\ Meets("exit")
    /\ adapter' = [Dies(adapter) EXCEPT
                     !.boot = IF @ = "booting" THEN "failed" ELSE @]
    /\ agent' = [agent EXCEPT !.asked = <<>>, !.wire = <<>>, !.active = None, !.stops = {}]
    /\ UNCHANGED <<session, journal, given>>

\* startTurn() goes on after its response.
TurnStartReturns(t) ==
    /\ t \in adapter.resolved
    /\ EmitTurnState(t, TRUE, [adapter EXCEPT !.resolved = @ \ {t}], agent)
    /\ UNCHANGED <<session, journal, given>> /\ Ordinary

Receive ==
    /\ session.live /\ agent.wire # <<>>
    /\ LET frame == Head(agent.wire)
           g     == [agent EXCEPT !.wire = Tail(@)]
       IN  CASE frame.kind = "response" ->
                    /\ adapter' = [adapter EXCEPT !.resolved = @ \cup {frame.turn}]
                    /\ agent' = g
             [] frame.kind = "error" ->
                    /\ adapter' = Push(adapter, SessionEvent("dead"))
                    /\ agent' = g
             [] frame.kind = "usage" ->
                    IF adapter.turn = NoTurn THEN adapter' = adapter /\ agent' = g
                    ELSE EmitTurnState(adapter.turn.id, adapter.turn.run, adapter, g)
             [] frame.kind \in {"started", "completed"} ->
                    EmitTurnState(frame.turn, frame.kind = "started", adapter, g)
    /\ UNCHANGED <<session, journal, given>> /\ Ordinary

(***************************************************************************)
(* The app-server, as the recorded fixtures and the adapter use it: it     *)
(* answers turn/start, announces the turn, reports usage while it runs and *)
(* announces its end.                                                      *)
(***************************************************************************)
Frame(kind, t) == [kind |-> kind, turn |-> t]

AgentStarts ==
    /\ agent.asked # <<>> /\ agent.active = None
    /\ LET t == Head(agent.asked)
       IN  agent' = [agent EXCEPT !.asked = Tail(@), !.active = t,
                       !.wire = @ \o <<Frame("response", t), Frame("started", t)>>]
    /\ UNCHANGED <<session, adapter, journal, given>> /\ Ordinary

\* turn/start is answered with an error.
AgentRejects ==
    /\ agent.asked # <<>> /\ Meets("reject")
    /\ agent' = [agent EXCEPT !.asked = Tail(@),
                   !.wire = Append(@, Frame("error", Head(agent.asked)))]
    /\ UNCHANGED <<session, adapter, journal, given>>

AgentReports ==
    /\ agent.active # None /\ Meets("usage")
    /\ agent' = [agent EXCEPT !.wire = Append(@, Frame("usage", agent.active))]
    /\ UNCHANGED <<session, adapter, journal, given>>

AgentEnds ==
    /\ agent.active # None
    /\ agent' = [agent EXCEPT !.active = None,
                   !.wire = Append(@, Frame("completed", agent.active))]
    /\ UNCHANGED <<session, adapter, journal, given>> /\ Ordinary

\* turn/interrupt; for a turn that is over it is answered with an error.
AgentStops(t) ==
    /\ t \in agent.stops
    /\ agent' = IF agent.active = t
                THEN [agent EXCEPT !.stops = @ \ {t}, !.active = None, !.cut = @ \cup {t},
                        !.wire = Append(@, Frame("completed", t))]
                ELSE [agent EXCEPT !.stops = @ \ {t}]
    /\ UNCHANGED <<session, adapter, journal, given>> /\ Ordinary

\* The host process ends, and the agent with it. Nothing re-opens the session.
HostDies ==
    /\ session.live /\ Meets("crash")
    /\ session' = [session EXCEPT !.live = FALSE, !.queue = <<>>, !.awaiting = None]
    /\ adapter' = [adapter EXCEPT !.closed = TRUE, !.inputs = <<>>,
                     !.resolved = {}, !.events = <<>>]
    /\ agent' = [agent EXCEPT !.asked = <<>>, !.wire = <<>>, !.active = None, !.stops = {}]
    /\ UNCHANGED given

Pump       == HandleTurnRuns \/ HandleTurnEnds \/ HandleSession
Resumes    == \E t \in Turns : TurnStartReturns(t)
TakesTurns == AgentStarts \/ AgentEnds
Obeys      == \E t \in Turns : AgentStops(t)

SessionNext ==
    \/ Pump \/ Boots \/ Receive \/ Resumes
    \/ TakesTurns \/ Obeys \/ AgentReports
    \/ PumpFails \/ BootFails \/ AgentExits \/ AgentRejects

\* Each of these is a loop or a task that takes one thing after the other.
SessionFairness ==
    /\ WF_sessionVars(Pump) /\ WF_sessionVars(Boots) /\ WF_sessionVars(Receive)
    /\ WF_sessionVars(Resumes) /\ WF_sessionVars(TakesTurns) /\ WF_sessionVars(Obeys)

(***************************************************************************)
(* Properties.                                                             *)
(***************************************************************************)
TurnStates == [id : Turns \cup {None}, run : BOOLEAN]
SessionTypeOK ==
    /\ session \in [live : BOOLEAN, stopped : BOOLEAN, queue : Seq(Prompts),
                    awaiting : Prompts \cup {None}, turn : TurnStates,
                    status : {"starting", "idle", "running", "dead"}]
    /\ adapter.boot \in {"booting", "ready", "failed"} /\ adapter.inputs \in Seq(Turns)
    /\ adapter.turn \in TurnStates /\ adapter.settled \subseteq Turns
    /\ agent.asked \in Seq(Turns) /\ agent.active \in Turns \cup {None}
    /\ agent.cut \subseteq Turns /\ given \in Seq(Prompts)
    /\ plan \in Plans /\ met \subseteq plan.may

IsItem(r)  == r.kind = "item"
IsFirst(r) == IsItem(r) /\ r.turn = None

\* The prompts of the journal in its order: the n-th is that of row k.
Arrivals(k)   == {j \in 1 .. k : IsFirst(journal[j])}
Arrived(n, k) == IsFirst(journal[k]) /\ Cardinality(Arrivals(k)) = n

\* Prompts reach the agent in the order they were journaled, none skipped and
\* none twice: the queue hands one over when a turn ends, and one that arrives
\* between the end of a turn and the start of the next cannot pass it.
FirstComeFirstServed ==
    ~session.stopped =>
        \A n \in DOMAIN given : \E k \in DOMAIN journal :
            Arrived(n, k) /\ journal[k].of = given[n]

\* No prompt is given to the agent twice, whatever is sent again; only a
\* receipt that could not be written lets a prompt run a second time.
AtMostOnce == "receipt" \in met \/ IsInjective(given)

\* Both: the agent is given each prompt once and in the order of the journal.
ServedOnceInOrder == FirstComeFirstServed /\ AtMostOnce

\* A prompt is shown under the turn it started: LiveSession attributes the
\* prompt that waits to the next turn that runs, so no late or repeated event
\* of an earlier turn may look like one.
AttributedToOwnTurn ==
    \A k \in DOMAIN journal :
        IsItem(journal[k]) /\ ~IsFirst(journal[k]) =>
            given[journal[k].turn] = journal[k].of

\* The agent is never asked for a turn while it has one or another request.
OneTurnAtATime ==
    ~session.stopped =>
        Len(adapter.inputs) + Len(agent.asked) + (IF agent.active = None THEN 0 ELSE 1) <= 1

\* What the transcript marks as queued is still to come: no prompt that left
\* the queue is overtaken by another before its turn takes the mark off.
MarkedQueued == {p \in Prompts : \E k \in DOMAIN journal :
    /\ IsItem(journal[k]) /\ journal[k].of = p /\ journal[k].flag
    /\ \A j \in k + 1 .. Len(journal) : ~(IsItem(journal[j]) /\ journal[j].of = p)}
QueuedStillWaits ==
    session.live /\ ~session.stopped =>
        MarkedQueued \subseteq Range(session.queue) \cup {session.awaiting}

\* A cancel that waits, waits for the turn of the prompt given last; it is not
\* held against a later one (codex-resilience.test.ts:254 and 277).
CancelNotHeld ==
    adapter.cancel =>
        given # <<>> /\ Len(given) \notin adapter.settled \cup {adapter.turn.id}

\* The three: one turn at a time, the queue behind it, the cancel on it.
TurnDiscipline == OneTurnAtATime /\ QueuedStillWaits /\ CancelNotHeld
=============================================================================

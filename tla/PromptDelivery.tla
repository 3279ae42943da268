--------------------------- MODULE PromptDelivery ---------------------------
(***************************************************************************)
(* A prompt's way from the composer to the agent: the pane's Outbox (send, *)
(* retry, discard, concurrent flushes), the HTTP call that may be lost on  *)
(* either way, commands.prompt behind CommandDedupe's receipts, the live   *)
(* session of CodexSession, and the echo by which the pane learns that the *)
(* prompt is in the journal; and a cancel's way to the turn it is for.     *)
(* (packages/chat/src/{core/outbox,react}, packages/chat-runtime/src/      *)
(* commands.)                                                              *)
(*                                                                         *)
(* Prompts are numbered in the order the user enters them. A prompt stands *)
(* for its clientId and its commandId. The echo stream is the journal from *)
(* `seen` on: ChatStream shows that a pane gets it in order, without holes.*)
(***************************************************************************)
EXTENDS CodexSession

CONSTANTS
    MaxAttempts, \* Outbox.maxAttempts
    MaxFlushes   \* bound: calls of flush() at work at once, see also plan.flushes

ASSUME DeliveryBounds == MaxAttempts \in Nat /\ MaxFlushes \in Nat

Flushes == 1 .. MaxFlushes

VARIABLES
    entered,   \* prompts the user has sent
    outbox,    \* prompt -> its entry; "gone" when the map has none
    flush,     \* flush() -> the entries it has left, and its pending call
    receipts,  \* chat_command_receipts, by prompt
    seen,      \* journal rows the pane has committed
    cancels,   \* cancelTurn calls on their way
    cancelled  \* history: turns the user cancelled

deliveryVars == <<entered, outbox, flush, receipts, seen, cancels, cancelled>>
vars == <<sessionVars, deliveryVars>>

Gone == [state |-> "gone", attempts |-> 0]
Idle == [todo |-> {}, call |-> "idle"]

Init ==
    /\ SessionInit
    /\ entered = 0 /\ outbox = [p \in Prompts |-> Gone] /\ flush = [f \in Flushes |-> Idle]
    /\ receipts = {} /\ seen = 0 /\ cancels = {} /\ cancelled = {}

(***************************************************************************)
(* Outbox.                                                                 *)
(***************************************************************************)
\* update(): only an entry that is still there.
Update(o, p, entry) == IF o[p] = Gone THEN o ELSE [o EXCEPT ![p] = entry]

\* The entries as they are now, by prompt.
Copy(o) == {[prompt |-> p, entry |-> o[p]] : p \in Prompts}

\* Mutant: one attempt more.
SendableAtLimit(o) ==
    {c \in Copy(o) : c.entry.state \in {"queued", "failed"} /\ c.entry.attempts <= MaxAttempts}

\* flush() iterates a copy of the entries: what it skips is decided by, and
\* what it counts starts from, the entries as they were when it began.
Sendable(o) ==
    {c \in Copy(o) : c.entry.state \in {"queued", "failed"} /\ c.entry.attempts < MaxAttempts}

\* The map is in the order of the prompts.
First(todo) == CHOOSE c \in todo : \A d \in todo : c.prompt <= d.prompt

\* The loop up to its next await.
Proceed(f, todo, o) ==
    IF todo = {} THEN flush' = [flush EXCEPT ![f] = Idle] /\ outbox' = o
    ELSE LET c == First(todo)
         IN  /\ flush' = [flush EXCEPT ![f] = [todo |-> todo, call |-> "sent"]]
             /\ outbox' = Update(o, c.prompt,
                                 [state |-> "inflight", attempts |-> c.entry.attempts + 1])

Flush(o) == \E f \in Flushes :
    /\ f <= plan.flushes /\ flush[f] = Idle
    /\ \A g \in Flushes : g < f => flush[g] # Idle
    /\ Proceed(f, Sendable(o), o)

\* sendPrompt().
SendPrompt ==
    /\ entered < plan.prompts /\ entered' = entered + 1
    /\ Flush([outbox EXCEPT ![entered + 1] = [state |-> "queued", attempts |-> 0]])
    /\ UNCHANGED <<sessionVars, receipts, seen, cancels, cancelled>>

\* retryPrompt(); the button shows on failed entries.
RetryPrompt(p) ==
    /\ outbox[p].state = "failed" /\ Meets("retry")
    /\ Flush([outbox EXCEPT ![p] = [state |-> "queued", attempts |-> 0]])
    /\ UNCHANGED <<coreVars, entered, receipts, seen, cancels, cancelled>>

DiscardPrompt(p) ==
    /\ outbox[p].state = "failed" /\ Meets("retry")
    /\ outbox' = [outbox EXCEPT ![p] = Gone]
    /\ UNCHANGED <<coreVars, entered, flush, receipts, seen, cancels, cancelled>>

Sending(f) == First(flush[f].todo).prompt

\* Mutant: a call that fails leaves the entry in flight.
LeavesInflight(f, o) == o

\* The catch of flush().
Failed(f, o) == Update(o, Sending(f), [o[Sending(f)] EXCEPT !.state = "failed"])

Accepted(f, o) ==
    IF o[Sending(f)].state = "inflight"
    THEN Update(o, Sending(f), [o[Sending(f)] EXCEPT !.state = "queued"]) ELSE o

\* flush() goes on after its await.
Answer(f) ==
    /\ flush[f].call \in {"ok", "err"}
    /\ Proceed(f, flush[f].todo \ {First(flush[f].todo)},
               IF flush[f].call = "ok" THEN Accepted(f, outbox) ELSE Failed(f, outbox))
    /\ UNCHANGED <<sessionVars, entered, receipts, seen, cancels, cancelled>>

\* A call is lost before the host has it, or its answer is.
Lose(f) ==
    /\ flush[f].call \in {"sent", "ok"} /\ Meets("loss")
    /\ flush' = [flush EXCEPT ![f].call = "err"]
    /\ UNCHANGED <<coreVars, entered, outbox, receipts, seen, cancels, cancelled>>

(***************************************************************************)
(* The host.                                                               *)
(***************************************************************************)
Answers(f, result) == flush' = [flush EXCEPT ![f].call = result]

Record(p) == receipts' = receipts \cup {p}

\* commands.prompt(): a receipt answers; else the live session takes the
\* prompt, and then the receipt is written; without one the call fails.
HandlePrompt(f) ==
    /\ flush[f].call = "sent"
    /\ LET p == Sending(f)
       IN  CASE p \in receipts -> Answers(f, "ok") /\ UNCHANGED <<sessionVars, receipts>>
             [] p \notin receipts /\ session.live ->
                    Prompt(p) /\ Record(p) /\ Answers(f, "ok") /\ Ordinary
             [] OTHER -> Answers(f, "err") /\ UNCHANGED <<sessionVars, receipts>>
    /\ UNCHANGED <<entered, outbox, seen, cancels, cancelled>>

\* The insert of the receipt throws: the prompt has run, the call fails.
ReceiptFails(f) ==
    /\ flush[f].call = "sent" /\ Sending(f) \notin receipts /\ session.live
    /\ Meets("receipt") /\ Prompt(Sending(f)) /\ Answers(f, "err")
    /\ UNCHANGED <<entered, outbox, receipts, seen, cancels, cancelled>>

\* The process ends between two handlers, or inside one: the prompt journaled
\* and its receipt not.
Crash ==
    /\ HostDies
    /\ \/ UNCHANGED journal
       \/ \E f \in Flushes :
             /\ flush[f].call = "sent" /\ Sending(f) \notin receipts
             /\ journal' = Append(journal, Item(Sending(f), None, Busy(session)))
    /\ UNCHANGED deliveryVars

\* A frame of the stream is committed: confirmEchoes(), then the snapshot.
Commit ==
    /\ seen < Len(journal) /\ seen' = seen + 1
    /\ outbox' = IF IsItem(journal[seen + 1])
                 THEN [outbox EXCEPT ![journal[seen + 1].of] = Gone] ELSE outbox
    /\ UNCHANGED <<sessionVars, entered, flush, receipts, cancels, cancelled>>

(***************************************************************************)
(* Cancels.                                                                *)
(***************************************************************************)
\* The pane shows turn t as running.
ShownRunning(t) ==
    \E k \in 1 .. seen :
        /\ journal[k] = TurnRow(t, TRUE)
        /\ \A j \in k + 1 .. seen : journal[j] # TurnRow(t, FALSE)

ClickCancel(t) ==
    /\ ShownRunning(t) /\ Meets("cancel")
    /\ cancels' = cancels \cup {t} /\ cancelled' = cancelled \cup {t}
    /\ UNCHANGED <<coreVars, entered, outbox, flush, receipts, seen>>

HandleCancel(t) ==
    /\ t \in cancels /\ cancels' = cancels \ {t}
    /\ IF session.live THEN CancelTurn(t) ELSE UNCHANGED sessionVars
    /\ UNCHANGED <<entered, outbox, flush, receipts, seen, cancelled>>

Next ==
    \/ SendPrompt \/ Commit \/ Crash
    \/ \E p \in Prompts : RetryPrompt(p) \/ DiscardPrompt(p)
    \/ \E t \in Turns : ClickCancel(t) \/ HandleCancel(t)
    \/ \E f \in Flushes : Answer(f) \/ Lose(f) \/ HandlePrompt(f) \/ ReceiptFails(f)
    \/ SessionNext /\ UNCHANGED deliveryVars

\* Handlers run, HTTP calls end, the stream delivers, the agent ends its
\* turns. The user, losses and mishaps owe nothing.
Fairness ==
    /\ WF_vars(Commit)
    /\ \A f \in Flushes : WF_vars(HandlePrompt(f) \/ Answer(f))
    /\ WF_vars(\E t \in Turns : HandleCancel(t))
    /\ SessionFairness

Spec     == Init /\ [][Next]_vars
FairSpec == Spec /\ Fairness

(***************************************************************************)
(* Properties.                                                             *)
(***************************************************************************)
\* An entry counts at most maxAttempts attempts; the rest are types.
TypeOK ==
    /\ SessionTypeOK
    /\ outbox \in [Prompts -> [state : {"queued", "inflight", "failed", "gone"},
                               attempts : 0 .. MaxAttempts]]
    /\ \A f \in Flushes : flush[f].call \in {"idle", "sent", "ok", "err"}
    /\ receipts \subseteq Prompts /\ cancels \subseteq cancelled /\ seen <= Len(journal)

\* No entry says "Sending" for ever: again and again each is confirmed by its
\* echo or shows as failed, whatever calls and answers were lost.
OutboxSettles == []<>(\A p \in Prompts : outbox[p].state \in {"gone", "failed"})

Hurt     == met \cap {"fail", "boot", "exit", "reject", "crash"} # {}
Prompted == {p \in Prompts : \E k \in DOMAIN journal : IsItem(journal[k]) /\ journal[k].of = p}
Answered == {given[t] : t \in {t \in Turns : \E k \in DOMAIN journal : journal[k] = TurnRow(t, FALSE)}}

\* While agent, pump and host live, every prompt in the journal is answered
\* by a turn of its own: the prompts are few, so all are at some time.
EveryPromptIsAnswered == []<>(Hurt \/ Prompted \subseteq Answered)

\* "cancelTurn for a turn that is no longer running is a no-op"
\* (live-session.test.ts:199): only turns the user cancelled are interrupted.
CancelHitsItsTurn == agent.cut \subseteq cancelled
=============================================================================

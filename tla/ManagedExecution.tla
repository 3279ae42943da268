--------------------------- MODULE ManagedExecution ---------------------------
(* The executions behind the runs of one automation, through three layers of    *)
(* host-service: the runtime with its database (automation-runtime.ts), the     *)
(* driver that owns the provider (native-driver.ts), and the operations of the  *)
(* chat runtime with their own database (managed-operations.ts).                *)
(*                                                                              *)
(* Databases survive a crash, everything else is lost.  A step is a stretch of  *)
(* synchronous code between two awaits; where two writes of one stretch could   *)
(* be separated by a crash they are two steps or a crash of their own.          *)
EXTENDS Naturals

CONSTANTS Runs,       \* the runs the automation may come to have, in their order
          MaxDowns    \* bound: how often the host stops or crashes

ASSUME RunsAssumption == Runs \subseteq Nat
ASSUME MaxDownsAssumption == MaxDowns \in Nat

VARIABLES
    run,    \* host database: execution_runs, its operations and its question
    op,     \* chat database: chat_managed_operations
    mem,    \* memory of runtime and driver, per run
    work,   \* what goes on in the workspace on behalf of the run
    host,   \* "up", "stopping", "disposing", "down"
    downs,  \* stops and crashes so far
    count   \* how often preparation ran and the prompt was sent

vars == <<run, op, mem, work, host, downs, count>>

Final    == {"succeeded", "failed", "skipped", "cancelled", "needs_result"}
Outcomes == {"completed", "failed", "interrupted"}
Reports  == {"completed", "failed"}

NoRun == [status |-> "none", cancel |-> FALSE, report |-> "none", busy |-> FALSE,
          prepare |-> "none", dispatch |-> "none", ask |-> "none"]
NoOp  == [state |-> "none", outcome |-> "none", quiet |-> FALSE, report |-> "none"]

\* pump: how far pumpExecution has come; abort: its abort controller; handle: in
\* `handles`; owned, told, asked: the driver's entry; stop: a stop is awaited.
NoMem == [pump |-> "none", abort |-> "none", handle |-> FALSE, owned |-> FALSE,
          told |-> FALSE, asked |-> FALSE, stop |-> "no"]

Init ==
    /\ run = [r \in Runs |-> NoRun]
    /\ op = [r \in Runs |-> NoOp]
    /\ mem = [r \in Runs |-> NoMem]
    /\ work = [r \in Runs |-> "none"]
    /\ host = "up" /\ downs = 0
    /\ count = [r \in Runs |-> [prepared |-> 0, prompted |-> 0]]

Alive == host # "down"

-------------------------------------------------------------------------------
(* What the handlers do to a row.                                               *)

Ended(x) == x.status \in Final

MarkUnknown(x) == IF Ended(x) THEN x ELSE [x EXCEPT !.status = "unknown"]

Finalize(x, status) ==
    IF Ended(x) /\ ~(x.status = "needs_result" /\ status # "needs_result") THEN x
    ELSE [x EXCEPT !.status = status, !.busy = FALSE]

\* Mutant: an open question does not keep a reported completion from succeeding.
SettleWithQuestion(x, outcome) ==
    Finalize(x, CASE x.cancel \/ outcome = "interrupted" -> "cancelled"
                  [] ~x.cancel /\ outcome = "failed" -> "failed"
                  [] OTHER -> CASE x.report = "none" -> "needs_result"
                                [] x.report = "completed" -> "succeeded"
                                [] x.report = "failed" -> "failed")

\* Mutant: only an interrupted turn is taken for a cancelled one.
SettleByOutcome(x, outcome) ==
    Finalize(x, CASE outcome = "interrupted" -> "cancelled"
                  [] outcome = "failed" -> "failed"
                  [] OTHER -> CASE x.report = "none" -> "needs_result"
                                [] x.report = "completed" /\ x.ask = "pending" -> "needs_result"
                                [] x.report = "completed" /\ x.ask # "pending" -> "succeeded"
                                [] x.report = "failed" -> "failed")

\* observeExecution, the provider has ended and nothing of it runs any more.
Settle(x, outcome) ==
    Finalize(x, CASE x.cancel \/ outcome = "interrupted" -> "cancelled"
                  [] ~x.cancel /\ outcome = "failed" -> "failed"
                  [] OTHER -> CASE x.report = "none" -> "needs_result"
                                [] x.report = "completed" /\ x.ask = "pending" -> "needs_result"
                                [] x.report = "completed" /\ x.ask # "pending" -> "succeeded"
                                [] x.report = "failed" -> "failed")

\* observeExecution, "started".
Running(x) ==
    IF x.cancel \/ Ended(x) THEN x
    ELSE [x EXCEPT !.status = "running", !.dispatch = "acknowledged"]

Attached(r) == work[r] \in {"working", "idle", "lost"}

\* The operation has ended; quiet: its session was disposed of.
Over(o, outcome, quiet) == [o EXCEPT !.state = "ended", !.outcome = outcome, !.quiet = quiet]

\* An operation nobody can vouch for.
Lost(o) == [o EXCEPT !.state = "unknown", !.quiet = FALSE]

\* The driver's finalize: a stop is shared, or begun, or known to be impossible.
BeginStop(r, x, m, outcome) ==
    /\ mem' = [mem EXCEPT ![r] = IF m.stop = "no" /\ Attached(r) THEN [m EXCEPT !.stop = outcome]
                                                               ELSE m]
    /\ run' = [run EXCEPT ![r] = IF Attached(r) THEN x ELSE MarkUnknown(x)]
    /\ op' = [op EXCEPT ![r] = IF Attached(r) THEN @ ELSE Lost(@)]

\* cancelExecution for a run that has neither controller nor handle.
NeverStarted(x) == x.prepare \in {"pending", "completed"} /\ x.dispatch = "pending"

\* Mutant: a cancel releases whatever this process does not hold.
CancelUnheldEnds(x) == Finalize(x, "cancelled")

CancelUnheld(x) == IF NeverStarted(x) THEN Finalize(x, "cancelled") ELSE MarkUnknown(x)

-------------------------------------------------------------------------------
(* The pump: prepare the target, claim the dispatch, start the provider.        *)

\* acceptExecution: refused while an execution holds the automation.  A run has
\* the next number.
Accept(r) ==
    /\ Alive /\ run[r].status = "none"
    /\ \A s \in Runs : s < r => run[s].status # "none"
    /\ \A s \in Runs : ~run[s].busy
    /\ run' = [run EXCEPT ![r] = [NoRun EXCEPT !.status = "preparing", !.busy = TRUE,
                                               !.prepare = "pending", !.dispatch = "pending"]]
    /\ UNCHANGED <<op, mem, work, host, downs, count>>

\* Mutant: a preparation that was claimed and not confirmed is run again.
LaunchUnconfirmed(r) ==
    LET x == run[r] IN
    /\ host = "up" /\ mem[r].pump = "none" /\ ~mem[r].handle
    /\ x.busy /\ ~x.cancel /\ x.dispatch = "pending"
    /\ IF x.prepare # "completed"
         THEN /\ run' = [run EXCEPT ![r].prepare = "dispatching"]
              /\ mem' = [mem EXCEPT ![r].pump = "preparing", ![r].abort = "armed"]
              /\ work' = [work EXCEPT ![r] = "script"]
              /\ count' = [count EXCEPT ![r].prepared = @ + 1]
         ELSE /\ mem' = [mem EXCEPT ![r].pump = "restoring"]
              /\ UNCHANGED <<run, work, count>>
    /\ UNCHANGED <<op, host, downs>>

\* launchPump, by the call that accepted the run or by a reconciliation.
Launch(r) ==
    LET x == run[r] IN
    /\ host = "up" /\ mem[r].pump = "none" /\ ~mem[r].handle
    /\ x.busy /\ ~x.cancel /\ x.status # "unknown" /\ NeverStarted(x)
    /\ IF x.prepare = "pending"
         THEN /\ run' = [run EXCEPT ![r].prepare = "dispatching"]
              /\ mem' = [mem EXCEPT ![r].pump = "preparing", ![r].abort = "armed"]
              /\ work' = [work EXCEPT ![r] = "script"]
              /\ count' = [count EXCEPT ![r].prepared = @ + 1]
         ELSE /\ mem' = [mem EXCEPT ![r].pump = "restoring"]
              /\ UNCHANGED <<run, work, count>>
    /\ UNCHANGED <<op, host, downs>>

\* prepareExecution rejects.  After an abort only an error that vouches for
\* stopped scripts cancels the run.
PrepareFails(r) ==
    LET m == mem[r] IN
    /\ Alive /\ m.pump = "preparing"
    /\ mem' = [mem EXCEPT ![r].pump = "none", ![r].abort = "none"]
    /\ \/ m.abort = "aborted" /\ run' = [run EXCEPT ![r] = Finalize(@, "cancelled")]
          /\ work' = [work EXCEPT ![r] = "none"]
       \/ m.abort = "armed" /\ work' = [work EXCEPT ![r] = "none"]
          /\ \E status \in {"failed", "skipped"} : run' = [run EXCEPT ![r] = Finalize(@, status)]
       \/ run' = [run EXCEPT ![r] = MarkUnknown(@)] /\ work' = [work EXCEPT ![r] = "orphan"]
    /\ UNCHANGED <<op, host, downs, count>>

Prepared(r) ==
    /\ Alive /\ mem[r].pump = "preparing"
    /\ run' = [run EXCEPT ![r].prepare = "completed"]
    /\ mem' = [mem EXCEPT ![r].pump = "ready", ![r].abort = "none"]
    /\ work' = [work EXCEPT ![r] = "none"]
    /\ UNCHANGED <<op, host, downs, count>>

\* restorePreparedExecution: the target of an earlier preparation, checked again,
\* is as it was, is not, or cannot be judged.
Restored(r) ==
    /\ Alive /\ mem[r].pump = "restoring"
    /\ \/ mem' = [mem EXCEPT ![r].pump = IF host = "up" THEN "ready" ELSE "none"] /\ UNCHANGED run
       \/ /\ mem' = [mem EXCEPT ![r].pump = "none"]
          /\ \E x \in {Finalize(run[r], "failed"), MarkUnknown(run[r])} :
               run' = [run EXCEPT ![r] = x]
    /\ UNCHANGED <<op, work, host, downs, count>>

\* The last look before the dispatch is claimed.
Claim(r) ==
    LET x == run[r] IN
    /\ Alive /\ mem[r].pump = "ready"
    /\ IF host = "up" /\ ~x.cancel /\ x.dispatch = "pending"
         THEN /\ run' = [run EXCEPT ![r].dispatch = "dispatching"]
              /\ mem' = [mem EXCEPT ![r].pump = "starting"]
         ELSE /\ run' = [run EXCEPT ![r] = IF host = "up" /\ x.cancel THEN CancelUnheld(x) ELSE x]
              /\ mem' = [mem EXCEPT ![r].pump = "none"]
    /\ UNCHANGED <<op, work, host, downs, count>>

\* Mutant: the state of the prompt is written to the state of the operation.
JournalPending(r) ==
    /\ Alive /\ mem[r].pump = "starting"
    /\ op' = [op EXCEPT ![r] = [NoOp EXCEPT !.state = "pending"]]
    /\ mem' = [mem EXCEPT ![r].pump = "sending", ![r].owned = TRUE]
    /\ UNCHANGED <<run, work, host, downs, count>>

\* driver.start up to the row of the operation; it may refuse before that (a
\* session to be reused is occupied).
Journal(r) ==
    /\ Alive /\ mem[r].pump = "starting"
    /\ \/ /\ op' = [op EXCEPT ![r] = [NoOp EXCEPT !.state = "accepted"]]
          /\ mem' = [mem EXCEPT ![r].pump = "sending", ![r].owned = TRUE]
          /\ UNCHANGED run
       \/ /\ mem' = [mem EXCEPT ![r].pump = "none"]
          /\ run' = [run EXCEPT ![r] = MarkUnknown(@)]
          /\ UNCHANGED op
    /\ UNCHANGED <<work, host, downs, count>>

\* The session is created and the prompt sent, or one of the two throws.
Send(r) ==
    /\ Alive /\ mem[r].pump = "sending"
    /\ count' = [count EXCEPT ![r].prompted = @ + 1]
    /\ \/ /\ op' = [op EXCEPT ![r].state = "running"]
          /\ mem' = [mem EXCEPT ![r].pump = "acknowledging"]
          /\ work' = [work EXCEPT ![r] = "working"]
          /\ UNCHANGED run
       \/ /\ op' = [op EXCEPT ![r] = Lost(@)]
          /\ mem' = [mem EXCEPT ![r].pump = "none"]
          /\ run' = [run EXCEPT ![r] = MarkUnknown(@)]
          /\ \E left \in {"none", "lost"} : work' = [work EXCEPT ![r] = left]
    /\ UNCHANGED <<host, downs>>

\* driver.start has returned: keep the handle of a run that has not ended, and
\* carry out a cancel that came meanwhile.
Acknowledge(r) ==
    LET x == [run[r] EXCEPT !.dispatch = "acknowledged",
                            !.status = IF @ = "preparing" THEN "running" ELSE @]
        m == [mem[r] EXCEPT !.pump = "none", !.handle = ~Ended(x)]
    IN /\ Alive /\ mem[r].pump = "acknowledging"
       /\ IF m.handle /\ x.cancel
            THEN BeginStop(r, x, m, "interrupted")
            ELSE /\ run' = [run EXCEPT ![r] = x] /\ mem' = [mem EXCEPT ![r] = m]
                 /\ UNCHANGED op
       /\ UNCHANGED <<work, host, downs, count>>

-------------------------------------------------------------------------------
(* The provider, seen through the driver.                                       *)

Owned(r) == Alive /\ mem[r].owned /\ work[r] = "working"

\* A session being disposed of emits no more events; its tools may still call.
Heard(r) == Owned(r) /\ mem[r].stop = "no"

Started(r) ==
    /\ Heard(r) /\ ~mem[r].told
    /\ mem' = [mem EXCEPT ![r].told = TRUE]
    /\ run' = [run EXCEPT ![r] = Running(@)]
    /\ UNCHANGED <<op, work, host, downs, count>>

\* The tool report_result: once, to both databases.
Report(r) ==
    /\ Owned(r) /\ mem[r].told /\ op[r].report = "none"
    /\ \E report \in Reports : /\ op' = [op EXCEPT ![r].report = report]
                               /\ run' = [run EXCEPT ![r].report = report]
    /\ UNCHANGED <<mem, work, host, downs, count>>

\* A permission is requested or the tool request_input called (bound: once).
Ask(r) ==
    /\ Owned(r) /\ mem[r].told /\ run[r].ask = "none"
    /\ mem' = [mem EXCEPT ![r].asked = TRUE]
    /\ run' = [run EXCEPT ![r] = IF Ended(@) THEN @
                                 ELSE [@ EXCEPT !.ask = "pending", !.status = "waiting"]]
    /\ UNCHANGED <<op, work, host, downs, count>>

\* The turn is over, which says nothing yet of what it leaves running: the
\* execution is unknown until its session is disposed of.
TurnEnds(r) ==
    /\ Heard(r)
    /\ \E outcome \in Outcomes :
         /\ op' = [op EXCEPT ![r] = Over(@, outcome, FALSE)]
         /\ mem' = [mem EXCEPT ![r].stop = outcome]
    /\ run' = [run EXCEPT ![r] = MarkUnknown(@)]
    /\ work' = [work EXCEPT ![r] = "idle"]
    /\ UNCHANGED <<host, downs, count>>

SessionDies(r) ==
    /\ Heard(r)
    /\ op' = [op EXCEPT ![r] = Lost(@)]
    /\ run' = [run EXCEPT ![r] = MarkUnknown(@)]
    /\ work' = [work EXCEPT ![r] = "lost"]
    /\ UNCHANGED <<mem, host, downs, count>>

\* An outcome already in the journal is not replaced.
StopOutcome(r) == IF op[r].outcome = "none" THEN mem[r].stop ELSE op[r].outcome

\* trustedTerminal: the journal has the end of the turn, as reported before the
\* stop or by the interrupt a cancel begins with.  What dispose says of processes
\* still running is not looked at then: what the turn has started may go on.
TrustedEnd(r) == op[r].state = "ended" \/ run[r].cancel

\* live.dispose has returned: with an end the journal trusts, or the provider's
\* certificate that nothing runs, the execution ends and the driver lets go of it.
StopEnds(r) ==
    LET o == op[r] IN
    /\ Alive /\ mem[r].stop # "no"
    /\ \/ /\ op' = [op EXCEPT ![r] = Over(o, StopOutcome(r), TRUE)]
          /\ run' = [run EXCEPT ![r] = Settle(@, StopOutcome(r))]
          /\ mem' = [mem EXCEPT ![r] = [NoMem EXCEPT !.pump = mem[r].pump]]
          /\ \/ o.state # "ended" /\ work' = [work EXCEPT ![r] = "none"]
             \/ TrustedEnd(r) /\ work' = [work EXCEPT ![r] = "leftover"]
       \/ /\ o.state # "ended"
          /\ op' = [op EXCEPT ![r] = Lost(o)]
          /\ run' = [run EXCEPT ![r] = MarkUnknown(@)]
          /\ mem' = [mem EXCEPT ![r].stop = "no"]
          /\ work' = [work EXCEPT ![r] = "orphan"]
    /\ UNCHANGED <<host, downs, count>>

-------------------------------------------------------------------------------
(* The user.                                                                    *)

RequestCancel(r) ==
    LET x == [run[r] EXCEPT !.cancel = TRUE, !.status = "stopping"]  m == mem[r] IN
    /\ Alive /\ run[r].status # "none" /\ ~Ended(run[r])
    /\ CASE m.abort # "none" ->
              /\ run' = [run EXCEPT ![r] = x] /\ mem' = [mem EXCEPT ![r].abort = "aborted"]
              /\ UNCHANGED op
         [] m.abort = "none" /\ m.handle -> BeginStop(r, x, m, "interrupted")
         [] m.abort = "none" /\ ~m.handle ->
              run' = [run EXCEPT ![r] = CancelUnheld(x)] /\ UNCHANGED <<mem, op>>
    /\ UNCHANGED <<work, host, downs, count>>

\* The answer is claimed, then handed to the driver; without one, or for a
\* question the driver no longer holds, its delivery is unconfirmed.
Answer(r) ==
    LET x == run[r]  reached == mem[r].handle /\ mem[r].asked IN
    /\ Alive /\ x.ask = "pending" /\ ~x.cancel /\ ~Ended(x)
    /\ run' = [run EXCEPT ![r].ask = IF reached THEN "delivered" ELSE "unconfirmed",
                          ![r].status = IF reached THEN "running" ELSE "unknown"]
    /\ mem' = [mem EXCEPT ![r].asked = @ /\ ~reached]
    /\ UNCHANGED <<op, work, host, downs, count>>

-------------------------------------------------------------------------------
(* The host: reconciliation, graceful stop, crash, restart.                     *)

\* Mutant: an interrupted preparation is left for its pump to finish.
ReconcileDispatched(r) ==
    LET x == run[r]  o == op[r] IN
    /\ host = "up" /\ x.busy /\ mem[r].pump = "none" /\ ~mem[r].handle
    /\ x.prepare = "completed" /\ x.dispatch # "pending"
    /\ IF o.state = "ended" /\ o.quiet
         THEN run' = [run EXCEPT ![r] = Settle(x, o.outcome)]
         ELSE /\ ~(o.state \in {"accepted", "running"} /\ Attached(r))
              /\ run' = [run EXCEPT ![r] = MarkUnknown(x)]
    /\ run' # run
    /\ UNCHANGED <<op, mem, work, host, downs, count>>

\* reconcile, for an execution this process does not hold.
Reconcile(r) ==
    LET x == run[r]  o == op[r] IN
    /\ host = "up" /\ x.busy /\ mem[r].pump = "none" /\ ~mem[r].handle
    /\ \/ x.prepare = "dispatching" /\ run' = [run EXCEPT ![r] = MarkUnknown(x)]
       \/ /\ x.prepare = "completed" /\ x.dispatch # "pending"
          /\ IF o.state = "ended" /\ o.quiet
               THEN run' = [run EXCEPT ![r] =
                       Settle([x EXCEPT !.report = IF @ = "none" THEN o.report ELSE @], o.outcome)]
               ELSE /\ ~(o.state \in {"accepted", "running"} /\ Attached(r))
                    /\ run' = [run EXCEPT ![r] = MarkUnknown(x)]
    /\ run' # run
    /\ UNCHANGED <<op, mem, work, host, downs, count>>

\* stop(): nothing more is dispatched, preparations are aborted.
HostStops ==
    /\ host = "up" /\ downs < MaxDowns
    /\ host' = "stopping" /\ downs' = downs + 1
    /\ mem' = [r \in Runs |-> IF mem[r].abort = "none" THEN mem[r]
                                                      ELSE [mem[r] EXCEPT !.abort = "aborted"]]
    /\ UNCHANGED <<run, op, work, count>>

\* driver.dispose, once the pumps are drained: every operation is stopped.
Dispose ==
    /\ host = "stopping" /\ \A r \in Runs : mem[r].pump = "none"
    /\ host' = "disposing"
    /\ LET fresh == {r \in Runs : mem[r].owned /\ mem[r].stop = "no"} IN
       /\ mem' = [r \in Runs |-> IF r \in fresh /\ Attached(r)
                                   THEN [mem[r] EXCEPT !.stop = "interrupted"] ELSE mem[r]]
       /\ run' = [r \in Runs |-> IF r \in fresh /\ ~Attached(r) THEN MarkUnknown(run[r]) ELSE run[r]]
       /\ op' = [r \in Runs |-> IF r \in fresh /\ ~Attached(r) THEN Lost(op[r]) ELSE op[r]]
    /\ UNCHANGED <<work, downs, count>>

\* Memory is gone; what was running may go on by itself, and so may what the
\* ended turns of `behind` had started.
Down(orphans, behind) ==
    /\ host' = "down"
    /\ mem' = [r \in Runs |-> NoMem]
    /\ work' = [r \in Runs |-> IF r \in behind \/ work[r] = "leftover" THEN "leftover"
                               ELSE IF r \in orphans /\ work[r] # "none" THEN "orphan"
                               ELSE "none"]

HostLeaves ==
    /\ host = "disposing" /\ \A r \in Runs : mem[r].stop = "no"
    /\ \E orphans \in SUBSET Runs : Down(orphans, {})
    /\ UNCHANGED <<run, op, downs, count>>

HostCrashes ==
    /\ Alive /\ downs < MaxDowns
    /\ \E orphans \in SUBSET Runs : Down(orphans, {})
    /\ downs' = downs + 1
    /\ UNCHANGED <<run, op, count>>

\* The process dies between the commit of a cancel, or of an answer, and what
\* the handler does next.
DiesInHandler(r) ==
    LET x == run[r] IN
    /\ Alive /\ downs < MaxDowns /\ x.status # "none" /\ ~Ended(x)
    /\ \/ run' = [run EXCEPT ![r].cancel = TRUE, ![r].status = "stopping"]
       \/ x.ask = "pending" /\ ~x.cancel /\ run' = [run EXCEPT ![r].ask = "answered"]
    /\ \E orphans \in SUBSET Runs : Down(orphans, {})
    /\ downs' = downs + 1
    /\ UNCHANGED <<op, count>>

\* The process dies after the driver has written to the database of the chat
\* runtime and before the runtime has written to its own: a report, the end of
\* a turn, a confirmed stop.
DiesBetweenDatabases(r) ==
    LET o == op[r] IN
    /\ Alive /\ downs < MaxDowns
    /\ \/ /\ Owned(r) /\ mem[r].told /\ o.report = "none"
          /\ \E report \in Reports : op' = [op EXCEPT ![r].report = report]
          /\ \E orphans \in SUBSET Runs : Down(orphans, {})
       \/ /\ Heard(r)
          /\ \E outcome \in Outcomes : op' = [op EXCEPT ![r] = Over(o, outcome, FALSE)]
          /\ \E orphans \in SUBSET Runs : Down(orphans, {})
       \/ /\ mem[r].stop # "no"
          /\ op' = [op EXCEPT ![r] = Over(o, StopOutcome(r), TRUE)]
          /\ \E orphans \in SUBSET (Runs \ {r}) :
               \/ o.state # "ended" /\ Down(orphans, {})
               \/ TrustedEnd(r) /\ Down(orphans, {r})
    /\ downs' = downs + 1
    /\ UNCHANGED <<run, count>>

HostStarts ==
    /\ host = "down" /\ host' = "up"
    /\ UNCHANGED <<run, op, mem, work, downs, count>>

-------------------------------------------------------------------------------
Pump(r) ==
    \/ Launch(r) \/ PrepareFails(r) \/ Prepared(r) \/ Restored(r) \/ Claim(r)
    \/ Journal(r) \/ Send(r) \/ Acknowledge(r)

Provider(r) == Started(r) \/ Report(r) \/ Ask(r) \/ TurnEnds(r) \/ SessionDies(r)

Next ==
    \/ \E r \in Runs : \/ Accept(r) \/ Pump(r) \/ Provider(r) \/ StopEnds(r)
                       \/ RequestCancel(r) \/ Answer(r) \/ Reconcile(r)
                       \/ DiesInHandler(r) \/ DiesBetweenDatabases(r)
    \/ HostStops \/ Dispose \/ HostLeaves \/ HostCrashes \/ HostStarts

\* Timers and promises of a live host come due, scripts have time limits, the
\* supervisor restarts the host, and an agent nobody keeps waiting ends its turn.
Fairness ==
    /\ \A r \in Runs : /\ WF_vars(Pump(r)) /\ WF_vars(StopEnds(r)) /\ WF_vars(Reconcile(r))
                       /\ WF_vars(TurnEnds(r) /\ ~mem[r].asked)
    /\ WF_vars(Dispose) /\ WF_vars(HostLeaves) /\ WF_vars(HostStarts)

Spec == Init /\ [][Next]_vars /\ Fairness

-------------------------------------------------------------------------------
(* Properties.                                                                  *)

Rows == [status : Final \cup {"none", "preparing", "running", "waiting", "stopping", "unknown"},
         cancel : BOOLEAN, report : Reports \cup {"none"}, busy : BOOLEAN,
         prepare : {"none", "pending", "dispatching", "completed"},
         dispatch : {"none", "pending", "dispatching", "acknowledged"},
         ask : {"none", "pending", "answered", "delivered", "unconfirmed"}]
Ops  == [state : {"none", "accepted", "running", "ended", "unknown"},
         outcome : Outcomes \cup {"none"}, quiet : BOOLEAN, report : Reports \cup {"none"}]
Mems == [pump : {"none", "preparing", "restoring", "ready", "starting", "sending", "acknowledging"},
         abort : {"none", "armed", "aborted"}, handle : BOOLEAN, owned : BOOLEAN,
         told : BOOLEAN, asked : BOOLEAN, stop : Outcomes \cup {"no"}]

\* The variables have the shapes of their tables and maps.
TypeOK ==
    /\ run \in [Runs -> Rows] /\ op \in [Runs -> Ops] /\ mem \in [Runs -> Mems]
    /\ work \in [Runs -> {"none", "script", "working", "idle", "lost", "orphan", "leftover"}]
    /\ host \in {"up", "stopping", "disposing", "down"} /\ downs \in 0 .. MaxDowns
    /\ count \in [Runs -> [prepared : Nat, prompted : Nat]]

\* Whatever crashes, restarts and retries: the scripts that prepare a target run
\* once and the agent is prompted once for a run (the claims of pumpExecution,
\* the reconciliation after a restart).
RunsOnce == \A r \in Runs : count[r].prepared <= 1 /\ count[r].prompted <= 1

\* As long as scripts, an agent, or a session that may have one are at work for a
\* run, the run holds the automation and the workspace (finalizeExecution releases
\* only on evidence).  The evidence is the end of the turn, not of what it has
\* started: behind an end the journal has, and only there, something may be left.
BusyWhileAtWork ==
    \A r \in Runs :
      /\ work[r] \notin {"none", "leftover"} =>
            run[r].busy /\ \A s \in Runs \ {r} : ~run[s].busy
      /\ work[r] = "leftover" => op[r].state = "ended" /\ op[r].quiet

\* A run succeeds only after the provider's turn completed, its session was
\* disposed of, the agent reported completion, no question was left open, and
\* nobody had asked to cancel it.
SuccessIsEarned ==
    \A r \in Runs : run[r].status = "succeeded" =>
        /\ op[r].state = "ended" /\ op[r].quiet /\ op[r].outcome = "completed"
        /\ run[r].report = "completed" /\ op[r].report = "completed"
        /\ run[r].ask # "pending" /\ ~run[r].cancel

\* An accepted cancel decides the end: the run may stay unknown, and once it has
\* ended it is cancelled (a late report, end or failure does not overrule it).
CancelDecides == \A r \in Runs : run[r].cancel /\ Ended(run[r]) => run[r].status = "cancelled"

\* A cancel that was committed before the dispatch, and whose handling the host
\* did not survive: no reconciliation takes it up.
CancelForgotten(r) == run[r].cancel /\ NeverStarted(run[r])

\* An answer has put a run whose session had died back to "running".
Misled(r) == mem[r].handle /\ work[r] \in {"lost", "orphan"}

\* A run on its way comes to rest: it ends, waits for an answer, or is shown as
\* unknown; the two exceptions are named above.
Settles ==
    \A r \in Runs : run[r].status \in {"preparing", "running", "stopping"} ~>
        \/ Ended(run[r]) \/ run[r].status \in {"unknown", "waiting"}
        \/ CancelForgotten(r) \/ Misled(r)
===============================================================================

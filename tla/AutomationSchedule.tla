-------------------------- MODULE AutomationSchedule --------------------------
(* The schedule of one automation in host-service (automation-runtime.ts with   *)
(* automation-schedule.ts of packages/shared): what the tick of every second    *)
(* does with it, what its user changes meanwhile, and how the end of a run      *)
(* moves it on.  The tick runs in one stretch of synchronous code per row, so   *)
(* the row and its history change together.                                     *)
EXTENDS Naturals, FiniteSets

CONSTANTS Definitions,  \* definitions a user may confirm
          Window,       \* missedRunWindowSeconds
          None,         \* a column that is null
          MaxTime,      \* bound: the clock stops there
          MaxEdits,     \* bound: commands of the user
          MaxMishaps    \* bound: how often the clock is set back, or the host started again

Kinds == {"once", "interval", "afterCompletion"}

\* ends, rounds: a value no run reaches stands for "no end", "no limit".
ASSUME DefinitionsAssumption ==
    /\ \A d \in Definitions :
         /\ d.kind \in Kinds
         /\ {d.starts, d.gap, d.rounds, d.ends} \subseteq Nat
         /\ d.kind = "interval" => d.gap > 0
    /\ {Window, MaxTime, MaxEdits, MaxMishaps} \subseteq Nat /\ None \notin Nat

VARIABLES
    now,        \* the clock of the host
    row,        \* the row in `automations`, with its current definition
    ledger,     \* its scheduled rows in `automation_runs`
    active,     \* the execution that holds the automation, if any
    confirmed,  \* has its user enabled the definition in force?
    halted,     \* a continuous batch has failed and nothing activated it since
    timer,      \* of the next tick: "starting" during the first one, "set", "lost"
    edits,      \* commands so far
    mishaps     \* how often the clock was set back, or the host started again

rowVars == <<row, ledger, active, confirmed, halted>>
vars == <<now, row, ledger, active, confirmed, halted, timer, edits, mishaps>>

\* Milliseconds tell an occurrence from the command, or from the end of a run,
\* that comes after its decision; this guard of theirs stands for them.
Fresh == \A e \in ledger : e.planned # now

Continuous(d) == d.kind = "afterCompletion" /\ d.gap = 0

-------------------------------------------------------------------------------
(* automation-schedule.ts: the first occurrence after a cursor.                 *)

Later(a, b) == IF a > b THEN a ELSE b

Within(d, at) == IF at < d.ends THEN at ELSE None

\* The cursor of a continuous schedule is one less than an instant: `after` is
\* therefore the first instant that may be returned.
IntervalFrom(d, after) ==
    IF after <= d.starts THEN d.starts
    ELSE d.starts + ((after - 1 - d.starts) \div d.gap + 1) * d.gap

CompletionAt(d, last) == IF last = None THEN d.starts ELSE Later(d.starts, last + d.gap)

Occurrence(d, after, last) ==
    CASE d.kind = "once"            -> IF d.starts >= after THEN Within(d, d.starts) ELSE None
      [] d.kind = "interval"        -> Within(d, IntervalFrom(d, after))
      [] d.kind = "afterCompletion" -> IF CompletionAt(d, last) >= after
                                         THEN Within(d, CompletionAt(d, last)) ELSE None

\* scheduleAfterCompletion: a continuous schedule may go on at the same instant.
AfterCompletion(d, at) == Occurrence(d, IF d.gap = 0 THEN at ELSE at + 1, at)

\* Mutant: it waits for any run under way.
WaitsForAny(d) == d.kind = "afterCompletion" /\ active # "none"

\* activationSchedule: a schedule that runs after completion waits for the
\* scheduled run under way.
Waits(d) == d.kind = "afterCompletion" /\ active = "scheduled"

Activation(r, at) ==
    LET d == r.def IN
    [r EXCEPT !.next = IF Waits(d) THEN None
                       ELSE IF d.kind = "afterCompletion" THEN AfterCompletion(d, at)
                       ELSE Occurrence(d, at + 1, None),
              !.from = IF Continuous(d) THEN at ELSE at + 1,
              !.last = IF d.kind = "afterCompletion" /\ ~Waits(d) THEN at ELSE @,
              !.resume = None]

Exhausted(r) == r.used >= r.def.rounds

-------------------------------------------------------------------------------
\* create: a new automation is paused.
Init ==
    /\ now = 0
    /\ \E d \in Definitions :
         row = [def |-> d, state |-> "paused", next |-> Occurrence(d, 1, None), from |-> 1,
                last |-> None, resume |-> None, used |-> 0]
    /\ ledger = {} /\ active = "none"
    /\ confirmed = FALSE /\ halted = FALSE
    /\ timer = "set" /\ edits = 0 /\ mishaps = 0

-------------------------------------------------------------------------------
(* The tick, in the order of its loops: pauses that have come to their end, then *)
(* what is due.                                                                  *)

\* The two queries.
Rested == row.state = "paused" /\ row.resume # None /\ row.resume <= now
Due == row.state = "enabled" /\ row.next # None /\ row.next <= now

\* Mutant: the row is given the name of the event.
ResumeNamed ==
    /\ Rested
    /\ row' = [Activation(row, row.resume) EXCEPT !.state = "resumed"]
    /\ UNCHANGED <<now, ledger, active, confirmed, halted, edits, mishaps, timer>>

\* A pause comes to its end.  A fixed schedule resumes from the instant named,
\* one that runs after completion from now.
Resume ==
    LET r == Activation(row, IF row.def.kind = "afterCompletion" THEN now ELSE row.resume) IN
    /\ Rested
    /\ row' = IF r.def.kind = "once" /\ r.next = None THEN r
              ELSE IF (r.next # None \/ Waits(r.def)) /\ ~Exhausted(r)
                THEN [r EXCEPT !.state = "enabled"]
                ELSE [r EXCEPT !.state = "finished", !.next = None]
    /\ halted' = (halted /\ row'.state # "enabled")
    /\ UNCHANGED <<now, ledger, active, confirmed, edits, mishaps, timer>>

\* Why an occurrence does not become a run: too late, or superseded by another
\* that is due as well, or the automation is occupied.
MoreDue(at) ==
    LET after == Occurrence(row.def, at + 1, row.last) IN
    row.used + 1 < row.def.rounds /\ after # None /\ after <= now

Verdict(at) ==
    CASE now >= row.def.ends                                    -> "end_boundary"
      [] now < row.def.ends /\ now - at > Window                -> "missed_window"
      [] now < row.def.ends /\ now - at <= Window /\ MoreDue(at) -> "coalesced"
      [] OTHER -> IF active # "none" THEN "overlap" ELSE "accepted"

\* The row after the occurrence at `at` has been accepted or skipped.
Advanced(at, accepted) ==
    LET d == row.def
        used == row.used + 1
        relative == d.kind = "afterCompletion"
        next == IF relative /\ ~accepted THEN AfterCompletion(d, now)
                ELSE Occurrence(d, at + 1, row.last)
        over == \/ used >= d.rounds
                \/ next = None /\ ~(relative /\ accepted)
        halt == ~over /\ Continuous(d) /\ ~accepted
    IN [row EXCEPT !.used = used, !.from = at + 1,
                   !.next = IF over \/ halt \/ (relative /\ accepted) THEN None ELSE next,
                   !.last = IF relative /\ ~accepted THEN now ELSE @,
                   !.state = IF over THEN "finished" ELSE IF halt THEN "paused" ELSE @]

\* Mutant: an occurrence that meets a run waits for its end.
DecideWhenFree(at) ==
    /\ active = "none"
    /\ ledger' = ledger \cup {[planned |-> at, verdict |-> Verdict(at)]}
    /\ row' = Advanced(at, Verdict(at) = "accepted")
    /\ active' = IF Verdict(at) = "accepted" THEN "scheduled" ELSE active
    /\ halted' = (halted \/ row'.state = "paused")

\* The unique indexes on the instant and on the key refuse a second row.
Decide(at) ==
    /\ \A e \in ledger : e.planned # at
    /\ ledger' = ledger \cup {[planned |-> at, verdict |-> Verdict(at)]}
    /\ row' = Advanced(at, Verdict(at) = "accepted")
    /\ active' = IF Verdict(at) = "accepted" THEN "scheduled" ELSE active
    /\ halted' = (halted \/ row'.state = "paused")

\* processDueAutomation, one turn of its loop: SCHEDULER_BATCH turns make a tick.
ProcessDue ==
    LET at == Occurrence(row.def, row.from, row.last) IN
    /\ Due
    /\ IF Exhausted(row) \/ at = None
         THEN row' = [row EXCEPT !.state = "finished", !.next = None]
              /\ UNCHANGED <<ledger, active, halted>>
       ELSE IF at > now
         THEN row' = [row EXCEPT !.next = at] /\ UNCHANGED <<ledger, active, halted>>
         ELSE Decide(at)
    /\ UNCHANGED <<now, confirmed, edits, mishaps, timer>>

\* The tick of this row's turn; without a timer there is none.
Tick == timer # "lost" /\ (Resume \/ ProcessDue)

-------------------------------------------------------------------------------
(* The host.                                                                    *)

Mishap == mishaps < MaxMishaps /\ mishaps' = mishaps + 1

\* start() awaits a first tick before it sets the timer of the others.
HostStarts ==
    /\ Mishap
    /\ timer' = "starting"
    /\ UNCHANGED <<now, rowVars, edits>>

\* The insert of a decision is refused, and the tick rejects.
Refused ==
    LET at == Occurrence(row.def, row.from, row.last) IN
    /\ Due /\ ~Exhausted(row) /\ at # None /\ at <= now
    /\ \E e \in ledger : e.planned = at

\* When it is the first one, start() rejects with it and is only logged: the
\* service counts as started, and no timer is set.
FirstTickEnds ==
    /\ timer = "starting" /\ (Refused \/ ~(Due \/ Rested))
    /\ timer' = IF Refused THEN "lost" ELSE "set"
    /\ UNCHANGED <<now, rowVars, edits, mishaps>>

-------------------------------------------------------------------------------
(* Executions.                                                                  *)

\* Mutant: a failure does not stop a continuous batch.
PlannedRegardless(good) ==
    LET next == AfterCompletion(row.def, now)
        over == Exhausted(row) \/ next = None
    IN [row EXCEPT !.last = now,
                   !.next = IF row.state = "enabled" /\ ~over THEN next ELSE None,
                   !.state = IF @ = "enabled" /\ over THEN "finished" ELSE @]

\* The row after the end of a scheduled run; good: it succeeded, or its check
\* said no.
Planned(good) ==
    LET next == AfterCompletion(row.def, now)
        halt == Continuous(row.def) /\ ~good
        over == Exhausted(row) \/ next = None
    IN [row EXCEPT !.last = now,
                   !.next = IF row.state = "enabled" /\ ~halt /\ ~over THEN next ELSE None,
                   !.state = IF halt THEN "paused"
                             ELSE IF @ = "enabled" /\ over THEN "finished" ELSE @]

\* finalizeExecution: only the end of a scheduled run moves a schedule on.
RunEnds(good) ==
    /\ active # "none" /\ Fresh
    /\ active' = "none"
    /\ IF active = "scheduled" /\ row.def.kind = "afterCompletion" /\ row.state # "archived"
         THEN /\ row' = Planned(good)
              /\ halted' = (halted \/ (Continuous(row.def) /\ ~good))
         ELSE UNCHANGED <<row, halted>>
    /\ UNCHANGED <<now, ledger, confirmed, edits, mishaps, timer>>

-------------------------------------------------------------------------------
(* The user.  A confirmation is bound to the version of the row, so it is worth *)
(* nothing after any other command; it is given and used in one step here.      *)

Command == edits < MaxEdits /\ edits' = edits + 1

RunNow ==
    /\ Command /\ row.state # "archived" /\ active = "none"
    /\ active' = "manual"
    /\ UNCHANGED <<now, row, ledger, confirmed, halted, mishaps, timer>>

\* update, with a change of anything but the name: a new prompt or target pauses
\* and plans anew as a new schedule does.  It also takes an archived automation.
Update(d) ==
    /\ Command /\ d.rounds >= row.used
    /\ row' = [row EXCEPT !.def = d, !.state = "paused", !.resume = None,
                          !.next = Occurrence(d, now + 1, None), !.from = now + 1]
    /\ confirmed' = FALSE
    /\ UNCHANGED <<now, ledger, active, halted, mishaps, timer>>

Enable ==
    LET r == Activation(row, now) IN
    /\ Command /\ Fresh /\ row.state # "archived"
    /\ ~(row.def.kind = "once" /\ row.def.starts <= now) /\ ~Exhausted(row)
    /\ r.next # None \/ Waits(row.def)
    /\ row' = [r EXCEPT !.state = "enabled"]
    /\ confirmed' = TRUE /\ halted' = FALSE
    /\ UNCHANGED <<now, ledger, active, mishaps, timer>>

\* With an end, or without; nothing refuses an end in the past.
Pause(t) ==
    /\ Command /\ row.state # "archived"
    /\ row' = [row EXCEPT !.state = "paused", !.resume = t]
    /\ UNCHANGED <<now, ledger, active, confirmed, halted, mishaps, timer>>

Archive ==
    /\ Command
    /\ row' = [row EXCEPT !.state = "archived", !.next = None, !.resume = None]
    /\ UNCHANGED <<now, ledger, active, confirmed, halted, mishaps, timer>>

-------------------------------------------------------------------------------
Time ==
    /\ now < MaxTime /\ now' = now + 1
    /\ UNCHANGED <<rowVars, edits, mishaps, timer>>

ClockSetBack ==
    /\ Mishap
    /\ \E t \in 0 .. MaxTime : t < now /\ now' = t
    /\ UNCHANGED <<rowVars, edits, timer>>

User ==
    \/ RunNow \/ Enable \/ Archive
    \/ \E d \in Definitions : Update(d)
    \/ \E t \in (0 .. MaxTime) \cup {None} : Pause(t)

Next ==
    \/ Time \/ ClockSetBack \/ HostStarts \/ FirstTickEnds \/ Tick \/ User
    \/ \E good \in BOOLEAN : RunEnds(good)

\* The first tick of a host is taken, and those that follow return every second
\* as long as there is a timer.  A run need not end: it may stay unknown.
Spec ==
    Init /\ [][Next]_vars /\ WF_vars(Tick) /\ WF_vars(FirstTickEnds) /\ WF_vars(Time)

-------------------------------------------------------------------------------
(* Properties.                                                                  *)

Verdicts == {"accepted", "end_boundary", "missed_window", "coalesced", "overlap"}

\* The variables have the types of their columns.
TypeOK ==
    /\ now \in 0 .. MaxTime
    /\ row \in [def : Definitions, state : {"enabled", "paused", "finished", "archived"},
                next : Nat \cup {None}, from : Nat, last : Nat \cup {None},
                resume : Nat \cup {None}, used : Nat]
    /\ ledger \subseteq [planned : Nat, verdict : Verdicts]
    /\ active \in {"none", "scheduled", "manual"}
    /\ confirmed \in BOOLEAN /\ halted \in BOOLEAN
    /\ timer \in {"starting", "set", "lost"}
    /\ edits \in 0 .. MaxEdits /\ mishaps \in 0 .. MaxMishaps

\* "Enabled" keeps its promise: rounds are left, and there is an occurrence the
\* tick will see or a scheduled run whose end will plan one (the races of
\* pause, update, enable and resume with the end of a run).  A schedule that is
\* over plans nothing, and every round used is in the history.
RowCoherent ==
    /\ row.state = "enabled" => /\ ~Exhausted(row) /\ row.resume = None
                                /\ \/ row.next # None
                                   \/ row.def.kind = "afterCompletion" /\ active = "scheduled"
    /\ row.state \in {"finished", "archived"} => row.next = None /\ row.resume = None
    /\ row.used = Cardinality(ledger)

\* "连续零间隔批次遇到失败则暂停剩余轮次" (spec.md:97): whatever edits, pauses and
\* ends of runs come together, a continuous batch that has failed does not go on
\* until its user enables it, or a pause comes to the end its user gave it.
FailedBatchRests == halted => row.state # "enabled"

\* After the clock was set back, or a pause given an end in the past, the cursor
\* may come to an instant that is in the history: the insert is refused, now and
\* in every tick that follows ("时钟回拨不重置已处理进度", spec.md:87).
Wedged == \E e \in ledger : e.planned = Occurrence(row.def, row.from, row.last)

\* A first tick that is refused leaves no timer behind, so nothing is decided or
\* resumed before the host is started again; a later tick keeps its timer.
TimerLost == timer = "lost"

\* Whatever is due is decided within the next ticks, and a pause that has an end
\* ends, but for the rows and the hosts named above.
DueIsDecided ==
    /\ Due ~> ~Due \/ Wedged \/ TimerLost
    /\ Rested ~> ~Rested \/ TimerLost

\* "确认保存不等于授权未来持续执行" and "只有用户明确确认新约定才恢复" (spec.md:47, 53):
\* what runs unattended is what its user enabled.
EnabledAsConfirmed == row.state = "enabled" => confirmed
===============================================================================

------------------------- MODULE ManagedExecutionProofs ------------------------
(* What the run of ManagedExecution checks on two runs and one crash, for every *)
(* set of runs and any number of crashes and restarts.                          *)
(*                                                                              *)
(* Nearly every step changes the records of one run only.  Consistent says how  *)
(* the records of one run agree: the row, the operation in the other database,  *)
(* the memory of the process, what is at work in the workspace, and how often   *)
(* scripts and the agent were started.  OneHolder relates the runs: one of them *)
(* at most holds the automation.  Both together are inductive.                  *)
EXTENDS ManagedExecution, TLAPS

\* The dispatch has been claimed: from then on only evidence ends the run.
Claimed(x) == x.dispatch \in {"dispatching", "acknowledged"}

\* The claims are made in order, and each one once.
InOrder(x, c) ==
    /\ x.status = "none" <=> x.prepare = "none"
    /\ x.prepare = "none" <=> x.dispatch = "none"
    /\ Claimed(x) => x.prepare = "completed"
    /\ x.ask # "none" => Claimed(x)
    /\ x.prepare \in {"none", "pending"} => c.prepared = 0
    /\ ~Claimed(x) => c.prompted = 0
    /\ c.prepared <= 1 /\ c.prompted <= 1

\* Where the pump stands tells which claims have been made.
PumpAgrees(x, o, m, c) ==
    /\ m.pump = "preparing" <=> m.abort # "none"
    /\ m.pump = "preparing" => x.prepare = "dispatching" /\ x.busy
    /\ m.pump \in {"restoring", "ready"} => x.prepare = "completed" /\ x.dispatch = "pending"
                                            /\ (x.busy \/ x.cancel)
    /\ m.pump \in {"starting", "sending"} => /\ Claimed(x) /\ x.busy /\ ~m.handle
                                             /\ c.prompted = 0 /\ o.report = "none"
    /\ m.pump = "acknowledging" => Claimed(x) /\ (o.quiet => Ended(x))
    /\ m.pump = "restoring" /\ x.cancel => Ended(x)
    /\ m.abort = "armed" => ~x.cancel

\* Nothing is at work for a run that was never started or has ended, but for what
\* an ended turn has left.
WorkAgrees(x, m, w) ==
    /\ w = "script" <=> m.pump = "preparing"
    /\ w \notin {"none", "leftover"} => x.busy /\ (x.prepare = "dispatching" \/ Claimed(x))
    /\ w \in {"working", "idle", "lost"} => Claimed(x) /\ m.pump \in {"acknowledging", "none"}
    /\ m.pump \in {"restoring", "ready", "starting", "sending"} => w = "none"
    /\ m.stop # "no" => w \in {"working", "idle", "lost"}

\* What the driver holds and journals belongs to a claimed dispatch, and an
\* operation that is over and quiet has left no session behind.
OperationAgrees(x, o, m, w) ==
    /\ ~Claimed(x) => o = NoOp /\ ~m.owned /\ ~m.handle
    /\ m.pump = "starting" => ~m.owned
    /\ o.quiet => /\ o.state = "ended" /\ o.outcome # "none" /\ w \in {"none", "leftover"}
                  /\ ~m.owned /\ ~m.handle /\ m.pump \in {"none", "acknowledging"}
    /\ w = "leftover" => o.quiet
    /\ o.state = "ended" => o.outcome # "none"
    /\ x.report # "none" => x.report = o.report

\* The end of a run.
EndAgrees(x, o) ==
    /\ x.busy <=> x.status # "none" /\ ~Ended(x)
    /\ x.cancel /\ Ended(x) => x.status = "cancelled"
    /\ x.status = "succeeded" => /\ o.quiet /\ o.outcome = "completed"
                                 /\ x.report = "completed" /\ x.ask # "pending" /\ ~x.cancel

Consistent(x, o, m, w, c) ==
    /\ InOrder(x, c) /\ PumpAgrees(x, o, m, c) /\ WorkAgrees(x, m, w)
    /\ OperationAgrees(x, o, m, w) /\ EndAgrees(x, o)

OneHolder == \A r, s \in Runs : run[r].busy /\ run[s].busy => r = s

Invariant ==
    /\ TypeOK /\ OneHolder
    /\ \A r \in Runs : Consistent(run[r], op[r], mem[r], work[r], count[r])

-------------------------------------------------------------------------------
(* Frames: what one run, or all of them, must show for the invariant to hold.   *)

Works  == {"none", "script", "working", "idle", "lost", "orphan", "leftover"}
Counts == [prepared : Nat, prompted : Nat]

\* The types of the records of one run.
LEMMA Typing ==
    ASSUME Invariant, NEW r \in Runs
    PROVE  /\ run[r] \in Rows /\ op[r] \in Ops /\ mem[r] \in Mems
           /\ work[r] \in Works /\ count[r] \in Counts
           /\ Consistent(run[r], op[r], mem[r], work[r], count[r])
  BY DEF Invariant, TypeOK, Works, Counts

\* A step of the host: every run keeps its records consistent, and none comes to
\* hold the automation.
LEMMA HostStep ==
    ASSUME Invariant,
           run' \in [Runs -> Rows], op' \in [Runs -> Ops], mem' \in [Runs -> Mems],
           work' \in [Runs -> Works], count' \in [Runs -> Counts],
           host' \in {"up", "stopping", "disposing", "down"}, downs' \in 0 .. MaxDowns,
           \A s \in Runs : /\ Consistent(run'[s], op'[s], mem'[s], work'[s], count'[s])
                           /\ run'[s].busy => run[s].busy
    PROVE  Invariant'
  <1>1. OneHolder'
    BY DEF Invariant, OneHolder
  <1>2. TypeOK'
    BY DEF TypeOK, Works, Counts
  <1> QED
    BY <1>1, <1>2 DEF Invariant

\* A step of one run.
LEMMA RunStep ==
    ASSUME Invariant, NEW r \in Runs, NEW x \in Rows, NEW o \in Ops, NEW m \in Mems,
           NEW w \in Works, NEW c \in Counts,
           run' = [run EXCEPT ![r] = x], op' = [op EXCEPT ![r] = o],
           mem' = [mem EXCEPT ![r] = m], work' = [work EXCEPT ![r] = w],
           count' = [count EXCEPT ![r] = c], UNCHANGED <<host, downs>>,
           Consistent(x, o, m, w, c),
           x.busy => run[r].busy \/ \A s \in Runs : ~run[s].busy
    PROVE  Invariant'
  <1>1. TypeOK'
    BY DEF Invariant, TypeOK, Works, Counts
  <1>2. OneHolder'
    <2>1. ASSUME NEW s \in Runs, s # r, run'[s].busy, x.busy PROVE FALSE
      BY <2>1 DEF Invariant, OneHolder, TypeOK
    <2>2. \A s \in Runs : run'[s] = IF s = r THEN x ELSE run[s]
      BY DEF Invariant, TypeOK
    <2> QED BY <2>1, <2>2 DEF Invariant, OneHolder
  <1>3. ASSUME NEW s \in Runs
        PROVE  Consistent(run'[s], op'[s], mem'[s], work'[s], count'[s])
    <2>1. CASE s = r
      BY <2>1 DEF Invariant, TypeOK
    <2>2. CASE s # r
      BY <2>2 DEF Invariant, TypeOK
    <2> QED BY <2>1, <2>2
  <1> QED
    BY <1>1, <1>2, <1>3 DEF Invariant

\* A variable that stays as it is, as a step of one run.
LEMMA Stays ==
    ASSUME NEW S, NEW f \in [Runs -> S], NEW r \in Runs
    PROVE  f = [f EXCEPT ![r] = f[r]]
  OBVIOUS

\* What is not assigned stays, for every variable of a run.
LEMMA Frame ==
    ASSUME Invariant, NEW r \in Runs
    PROVE  /\ run = [run EXCEPT ![r] = run[r]] /\ op = [op EXCEPT ![r] = op[r]]
           /\ mem = [mem EXCEPT ![r] = mem[r]] /\ work = [work EXCEPT ![r] = work[r]]
           /\ count = [count EXCEPT ![r] = count[r]]
  BY Stays DEF Invariant, TypeOK

\* The handlers' effects on a row and on an operation keep their types.
LEMMA FinalizeType ==
    ASSUME NEW x \in Rows, NEW status \in Final PROVE Finalize(x, status) \in Rows
  BY DEF Finalize, Rows

LEMMA MarkUnknownType == ASSUME NEW x \in Rows PROVE MarkUnknown(x) \in Rows
  BY DEF MarkUnknown, Rows

LEMMA CancelUnheldType == ASSUME NEW x \in Rows PROVE CancelUnheld(x) \in Rows
  BY FinalizeType, MarkUnknownType DEF CancelUnheld, Final

LEMMA LostType == ASSUME NEW o \in Ops PROVE Lost(o) \in Ops
  BY DEF Lost, Ops

\* Settle ends the run: as cancelled once that was asked for, and as succeeded
\* only on a completed turn, a report of completion and no open question.
LEMMA SettleStatus ==
    ASSUME NEW x \in Rows, NEW outcome \in Outcomes
    PROVE  \E status \in Final :
             /\ Settle(x, outcome) = Finalize(x, status)
             /\ x.cancel => status = "cancelled"
             /\ status = "succeeded" => /\ outcome = "completed" /\ x.report = "completed"
                                        /\ x.ask # "pending" /\ ~x.cancel
  BY DEF Settle, Rows, Reports, Outcomes, Final

-------------------------------------------------------------------------------
(* The pump.                                                                    *)

\* A run is accepted while no other holds the automation.
LEMMA AcceptKeeps == ASSUME Invariant, NEW r \in Runs, Accept(r) PROVE Invariant'
  <1> DEFINE x == run[r]  o == op[r]  m == mem[r]  w == work[r]  c == count[r]
             x2 == [NoRun EXCEPT !.status = "preparing", !.busy = TRUE,
                                 !.prepare = "pending", !.dispatch = "pending"]
  <1>1. /\ x \in Rows /\ o \in Ops /\ m \in Mems /\ w \in Works /\ c \in Counts
        /\ Consistent(x, o, m, w, c)
    BY Typing
  <1>2. x.status = "none" /\ \A s \in Runs : ~run[s].busy
    BY DEF Accept
  <1>3. /\ run' = [run EXCEPT ![r] = x2] /\ op' = [op EXCEPT ![r] = o]
        /\ mem' = [mem EXCEPT ![r] = m] /\ work' = [work EXCEPT ![r] = w]
        /\ count' = [count EXCEPT ![r] = c] /\ UNCHANGED <<host, downs>>
    BY Frame DEF Accept
  <1> HIDE DEF x, o, m, w, c
  <1>4. x2 \in Rows
    BY DEF Rows, NoRun
  <1>5. Consistent(x2, o, m, w, c)
     BY <1>1, <1>2 DEF Consistent, InOrder, PumpAgrees, WorkAgrees, OperationAgrees,
                  EndAgrees, Claimed, Ended, Final, NoRun, Rows, Ops, Mems, Counts
  <1> HIDE DEF x2
  <1> QED
    BY <1>1, <1>2, <1>3, <1>4, <1>5, RunStep

\* Launch claims the preparation, or goes on from a target already prepared.
LEMMA LaunchKeeps == ASSUME Invariant, NEW r \in Runs, Launch(r) PROVE Invariant'
  <1> DEFINE x == run[r]  o == op[r]  m == mem[r]  w == work[r]  c == count[r]
  <1>1. /\ x \in Rows /\ o \in Ops /\ m \in Mems /\ w \in Works /\ c \in Counts
        /\ Consistent(x, o, m, w, c)
    BY Typing
  <1>2. /\ run = [run EXCEPT ![r] = x] /\ op = [op EXCEPT ![r] = o]
        /\ mem = [mem EXCEPT ![r] = m] /\ work = [work EXCEPT ![r] = w]
        /\ count = [count EXCEPT ![r] = c]
    BY Frame
  <1>3. CASE x.prepare = "pending"
    <2> DEFINE x2 == [x EXCEPT !.prepare = "dispatching"]
               m2 == [m EXCEPT !.pump = "preparing", !.abort = "armed"]
               w2 == "script"
               c2 == [c EXCEPT !.prepared = c.prepared + 1]
    <2>1. m.pump = "none" /\ x.busy /\ ~x.cancel /\ NeverStarted(x)
      BY <1>3 DEF Launch
    <2>2. /\ run' = [run EXCEPT ![r] = x2] /\ op' = [op EXCEPT ![r] = o]
          /\ mem' = [mem EXCEPT ![r] = m2] /\ work' = [work EXCEPT ![r] = w2]
          /\ count' = [count EXCEPT ![r] = c2] /\ UNCHANGED <<host, downs>>
      BY <1>3, <1>2 DEF Launch
    <2> HIDE DEF x, o, m, w, c
    <2>3. x2 \in Rows
      BY <1>1 DEF Rows
    <2>4. m2 \in Mems
      BY <1>1 DEF Mems
    <2>5. w2 \in Works
      BY  DEF Works
    <2>6. c2 \in Counts
      BY <1>1 DEF Counts
    <2>7. Consistent(x2, o, m2, w2, c2)
      BY <1>1, <1>3, <2>1
         DEF Consistent, InOrder, PumpAgrees, WorkAgrees, OperationAgrees, EndAgrees,
             Claimed, Ended, Final, NoOp, Rows, Ops, Mems, Counts, NeverStarted
    <2>8. x2.busy => x.busy
      BY <1>1, <1>3, <2>1 DEF Rows, NeverStarted, Ended, Final
    <2> HIDE DEF x2, m2, w2, c2
    <2> QED
      BY <1>1, <2>2, <2>3, <2>4, <2>5, <2>6, <2>7, <2>8, RunStep DEF x
  <1>4. CASE x.prepare # "pending"
    <2> DEFINE m2 == [m EXCEPT !.pump = "restoring"]
    <2>1. m.pump = "none" /\ x.busy /\ ~x.cancel /\ NeverStarted(x)
      BY <1>4 DEF Launch
    <2>2. /\ run' = [run EXCEPT ![r] = x] /\ op' = [op EXCEPT ![r] = o]
          /\ mem' = [mem EXCEPT ![r] = m2] /\ work' = [work EXCEPT ![r] = w]
          /\ count' = [count EXCEPT ![r] = c] /\ UNCHANGED <<host, downs>>
      BY <1>4, <1>2 DEF Launch
    <2> HIDE DEF x, o, m, w, c
    <2>3. m2 \in Mems
      BY <1>1 DEF Mems
    <2>4. Consistent(x, o, m2, w, c)
      BY <1>1, <1>4, <2>1
         DEF Consistent, InOrder, PumpAgrees, WorkAgrees, OperationAgrees, EndAgrees,
             Claimed, Ended, Final, NoOp, Rows, Ops, Mems, Counts, NeverStarted
    <2> HIDE DEF m2
    <2> QED
      BY <1>1, <2>2, <2>3, <2>4, RunStep DEF x
  <1> QED
    BY <1>3, <1>4 DEF Launch

\* A preparation that failed releases the run, unless nobody vouches for its
\* scripts.
LEMMA PrepareFailsKeeps == ASSUME Invariant, NEW r \in Runs, PrepareFails(r) PROVE Invariant'
  <1> DEFINE x == run[r]  o == op[r]  m == mem[r]  w == work[r]  c == count[r]
  <1>1. /\ x \in Rows /\ o \in Ops /\ m \in Mems /\ w \in Works /\ c \in Counts
        /\ Consistent(x, o, m, w, c)
    BY Typing
  <1>2. /\ run = [run EXCEPT ![r] = x] /\ op = [op EXCEPT ![r] = o]
        /\ mem = [mem EXCEPT ![r] = m] /\ work = [work EXCEPT ![r] = w]
        /\ count = [count EXCEPT ![r] = c]
    BY Frame
  <1>3. CASE /\ m.abort = "aborted" /\ run' = [run EXCEPT ![r] = Finalize(x, "cancelled")]
             /\ work' = [work EXCEPT ![r] = "none"]
    <2> DEFINE x2 == Finalize(x, "cancelled")
               m2 == [m EXCEPT !.pump = "none", !.abort = "none"]
               w2 == "none"
    <2>1. m.pump = "preparing"
      BY <1>3 DEF PrepareFails
    <2>2. /\ run' = [run EXCEPT ![r] = x2] /\ op' = [op EXCEPT ![r] = o]
          /\ mem' = [mem EXCEPT ![r] = m2] /\ work' = [work EXCEPT ![r] = w2]
          /\ count' = [count EXCEPT ![r] = c] /\ UNCHANGED <<host, downs>>
      BY <1>3, <1>2 DEF PrepareFails
    <2> HIDE DEF x, o, m, w, c
    <2>3. x2 \in Rows
      BY <1>1, FinalizeType DEF Final
    <2>4. m2 \in Mems
      BY <1>1 DEF Mems
    <2>5. w2 \in Works
      BY  DEF Works
    <2>6. Consistent(x2, o, m2, w2, c)
      BY <1>1, <1>3, <2>1
         DEF Consistent, InOrder, PumpAgrees, WorkAgrees, OperationAgrees, EndAgrees,
             Claimed, Ended, Final, NoOp, Rows, Ops, Mems, Counts, Finalize
    <2>7. x2.busy => x.busy
      BY <1>1, <1>3, <2>1 DEF Rows, Finalize, Ended, Final
    <2> HIDE DEF x2, m2, w2
    <2> QED
      BY <1>1, <2>2, <2>3, <2>4, <2>5, <2>6, <2>7, RunStep DEF x
  <1>4. ASSUME NEW status \in {"failed", "skipped"}, m.abort = "armed",
               run' = [run EXCEPT ![r] = Finalize(x, status)], work' = [work EXCEPT ![r] = "none"]
        PROVE  Invariant'
    <2> DEFINE x2 == Finalize(x, status)
               m2 == [m EXCEPT !.pump = "none", !.abort = "none"]
               w2 == "none"
    <2>1. m.pump = "preparing"
      BY <1>4 DEF PrepareFails
    <2>2. /\ run' = [run EXCEPT ![r] = x2] /\ op' = [op EXCEPT ![r] = o]
          /\ mem' = [mem EXCEPT ![r] = m2] /\ work' = [work EXCEPT ![r] = w2]
          /\ count' = [count EXCEPT ![r] = c] /\ UNCHANGED <<host, downs>>
      BY <1>4, <1>2 DEF PrepareFails
    <2> HIDE DEF x, o, m, w, c
    <2>3. x2 \in Rows
      BY <1>1, <1>4, FinalizeType DEF Final
    <2>4. m2 \in Mems
      BY <1>1 DEF Mems
    <2>5. w2 \in Works
      BY <1>4 DEF Works
    <2>6. Consistent(x2, o, m2, w2, c)
      BY <1>1, <1>4, <2>1
         DEF Consistent, InOrder, PumpAgrees, WorkAgrees, OperationAgrees, EndAgrees,
             Claimed, Ended, Final, NoOp, Rows, Ops, Mems, Counts, Finalize
    <2>7. x2.busy => x.busy
      BY <1>1, <1>4, <2>1 DEF Rows, Finalize, Ended, Final
    <2> HIDE DEF x2, m2, w2
    <2> QED
      BY <1>1, <2>2, <2>3, <2>4, <2>5, <2>6, <2>7, RunStep DEF x
  <1>5. CASE /\ run' = [run EXCEPT ![r] = MarkUnknown(x)]
             /\ work' = [work EXCEPT ![r] = "orphan"]
    <2> DEFINE x2 == MarkUnknown(x)
               m2 == [m EXCEPT !.pump = "none", !.abort = "none"]
               w2 == "orphan"
    <2>1. m.pump = "preparing"
      BY <1>5 DEF PrepareFails
    <2>2. /\ run' = [run EXCEPT ![r] = x2] /\ op' = [op EXCEPT ![r] = o]
          /\ mem' = [mem EXCEPT ![r] = m2] /\ work' = [work EXCEPT ![r] = w2]
          /\ count' = [count EXCEPT ![r] = c] /\ UNCHANGED <<host, downs>>
      BY <1>5, <1>2 DEF PrepareFails
    <2> HIDE DEF x, o, m, w, c
    <2>3. x2 \in Rows
      BY <1>1, MarkUnknownType
    <2>4. m2 \in Mems
      BY <1>1 DEF Mems
    <2>5. w2 \in Works
      BY  DEF Works
    <2>6. Consistent(x2, o, m2, w2, c)
      BY <1>1, <1>5, <2>1
         DEF Consistent, InOrder, PumpAgrees, WorkAgrees, OperationAgrees, EndAgrees,
             Claimed, Ended, Final, NoOp, Rows, Ops, Mems, Counts, MarkUnknown
    <2>7. x2.busy => x.busy
      BY <1>1, <1>5, <2>1 DEF Rows, MarkUnknown, Ended, Final
    <2> HIDE DEF x2, m2, w2
    <2> QED
      BY <1>1, <2>2, <2>3, <2>4, <2>5, <2>6, <2>7, RunStep DEF x
  <1> QED
    BY <1>3, <1>4, <1>5 DEF PrepareFails

\* The target is prepared.
LEMMA PreparedKeeps == ASSUME Invariant, NEW r \in Runs, Prepared(r) PROVE Invariant'
  <1> DEFINE x == run[r]  o == op[r]  m == mem[r]  w == work[r]  c == count[r]
  <1>1. /\ x \in Rows /\ o \in Ops /\ m \in Mems /\ w \in Works /\ c \in Counts
        /\ Consistent(x, o, m, w, c)
    BY Typing
  <1>2. /\ run = [run EXCEPT ![r] = x] /\ op = [op EXCEPT ![r] = o]
        /\ mem = [mem EXCEPT ![r] = m] /\ work = [work EXCEPT ![r] = w]
        /\ count = [count EXCEPT ![r] = c]
    BY Frame
  <1>3. Invariant'
    <2> DEFINE x2 == [x EXCEPT !.prepare = "completed"]
               m2 == [m EXCEPT !.pump = "ready", !.abort = "none"]
               w2 == "none"
    <2>1. m.pump = "preparing"
      BY DEF Prepared
    <2>2. /\ run' = [run EXCEPT ![r] = x2] /\ op' = [op EXCEPT ![r] = o]
          /\ mem' = [mem EXCEPT ![r] = m2] /\ work' = [work EXCEPT ![r] = w2]
          /\ count' = [count EXCEPT ![r] = c] /\ UNCHANGED <<host, downs>>
      BY <1>2 DEF Prepared
    <2> HIDE DEF x, o, m, w, c
    <2>3. x2 \in Rows
      BY <1>1 DEF Rows
    <2>4. m2 \in Mems
      BY <1>1 DEF Mems
    <2>5. w2 \in Works
      BY  DEF Works
    <2>6. Consistent(x2, o, m2, w2, c)
      BY <1>1, <2>1
         DEF Consistent, InOrder, PumpAgrees, WorkAgrees, OperationAgrees, EndAgrees,
             Claimed, Ended, Final, NoOp, Rows, Ops, Mems, Counts
    <2>7. x2.busy => x.busy
      BY <1>1, <2>1 DEF Rows, Ended, Final
    <2> HIDE DEF x2, m2, w2
    <2> QED
      BY <1>1, <2>2, <2>3, <2>4, <2>5, <2>6, <2>7, RunStep DEF x
  <1> QED
    BY <1>3

\* An earlier target is good for the run, or the run fails or is unknown.
LEMMA RestoredKeeps == ASSUME Invariant, NEW r \in Runs, Restored(r) PROVE Invariant'
  <1> DEFINE x == run[r]  o == op[r]  m == mem[r]  w == work[r]  c == count[r]
  <1>1. /\ x \in Rows /\ o \in Ops /\ m \in Mems /\ w \in Works /\ c \in Counts
        /\ Consistent(x, o, m, w, c)
    BY Typing
  <1>2. /\ run = [run EXCEPT ![r] = x] /\ op = [op EXCEPT ![r] = o]
        /\ mem = [mem EXCEPT ![r] = m] /\ work = [work EXCEPT ![r] = w]
        /\ count = [count EXCEPT ![r] = c]
    BY Frame
  <1>3. CASE /\ UNCHANGED run
             /\ mem' = [mem EXCEPT ![r].pump = IF host = "up" THEN "ready" ELSE "none"]
    <2> DEFINE m2 == [m EXCEPT !.pump = IF host = "up" THEN "ready" ELSE "none"]
    <2>1. m.pump = "restoring"
      BY <1>3 DEF Restored
    <2>2. /\ run' = [run EXCEPT ![r] = x] /\ op' = [op EXCEPT ![r] = o]
          /\ mem' = [mem EXCEPT ![r] = m2] /\ work' = [work EXCEPT ![r] = w]
          /\ count' = [count EXCEPT ![r] = c] /\ UNCHANGED <<host, downs>>
      BY <1>3, <1>2 DEF Restored
    <2> HIDE DEF x, o, m, w, c
    <2>3. m2 \in Mems
      BY <1>1 DEF Mems
    <2>4. Consistent(x, o, m2, w, c)
      BY <1>1, <1>3, <2>1
         DEF Consistent, InOrder, PumpAgrees, WorkAgrees, OperationAgrees, EndAgrees,
             Claimed, Ended, Final, NoOp, Rows, Ops, Mems, Counts
    <2> HIDE DEF m2
    <2> QED
      BY <1>1, <2>2, <2>3, <2>4, RunStep DEF x
  <1>4. CASE /\ run' = [run EXCEPT ![r] = Finalize(x, "failed")]
             /\ mem' = [mem EXCEPT ![r].pump = "none"]
    <2> DEFINE x2 == Finalize(x, "failed")
               m2 == [m EXCEPT !.pump = "none"]
    <2>1. m.pump = "restoring"
      BY <1>4 DEF Restored
    <2>2. /\ run' = [run EXCEPT ![r] = x2] /\ op' = [op EXCEPT ![r] = o]
          /\ mem' = [mem EXCEPT ![r] = m2] /\ work' = [work EXCEPT ![r] = w]
          /\ count' = [count EXCEPT ![r] = c] /\ UNCHANGED <<host, downs>>
      BY <1>4, <1>2 DEF Restored
    <2> HIDE DEF x, o, m, w, c
    <2>3. x2 \in Rows
      BY <1>1, FinalizeType DEF Final
    <2>4. m2 \in Mems
      BY <1>1 DEF Mems
    <2>5. Consistent(x2, o, m2, w, c)
      BY <1>1, <1>4, <2>1
         DEF Consistent, InOrder, PumpAgrees, WorkAgrees, OperationAgrees, EndAgrees,
             Claimed, Ended, Final, NoOp, Rows, Ops, Mems, Counts, Finalize
    <2>6. x2.busy => x.busy
      BY <1>1, <1>4, <2>1 DEF Rows, Finalize, Ended, Final
    <2> HIDE DEF x2, m2
    <2> QED
      BY <1>1, <2>2, <2>3, <2>4, <2>5, <2>6, RunStep DEF x
  <1>5. CASE /\ run' = [run EXCEPT ![r] = MarkUnknown(x)]
             /\ mem' = [mem EXCEPT ![r].pump = "none"]
    <2> DEFINE x2 == MarkUnknown(x)
               m2 == [m EXCEPT !.pump = "none"]
    <2>1. m.pump = "restoring"
      BY <1>5 DEF Restored
    <2>2. /\ run' = [run EXCEPT ![r] = x2] /\ op' = [op EXCEPT ![r] = o]
          /\ mem' = [mem EXCEPT ![r] = m2] /\ work' = [work EXCEPT ![r] = w]
          /\ count' = [count EXCEPT ![r] = c] /\ UNCHANGED <<host, downs>>
      BY <1>5, <1>2 DEF Restored
    <2> HIDE DEF x, o, m, w, c
    <2>3. x2 \in Rows
      BY <1>1, MarkUnknownType
    <2>4. m2 \in Mems
      BY <1>1 DEF Mems
    <2>5. Consistent(x2, o, m2, w, c)
      BY <1>1, <1>5, <2>1
         DEF Consistent, InOrder, PumpAgrees, WorkAgrees, OperationAgrees, EndAgrees,
             Claimed, Ended, Final, NoOp, Rows, Ops, Mems, Counts, MarkUnknown
    <2>6. x2.busy => x.busy
      BY <1>1, <1>5, <2>1 DEF Rows, MarkUnknown, Ended, Final
    <2> HIDE DEF x2, m2
    <2> QED
      BY <1>1, <2>2, <2>3, <2>4, <2>5, <2>6, RunStep DEF x
  <1> QED
    BY <1>3, <1>4, <1>5 DEF Restored

\* The dispatch is claimed, or given up.
LEMMA ClaimKeeps == ASSUME Invariant, NEW r \in Runs, Claim(r) PROVE Invariant'
  <1> DEFINE x == run[r]  o == op[r]  m == mem[r]  w == work[r]  c == count[r]
  <1>1. /\ x \in Rows /\ o \in Ops /\ m \in Mems /\ w \in Works /\ c \in Counts
        /\ Consistent(x, o, m, w, c)
    BY Typing
  <1>2. /\ run = [run EXCEPT ![r] = x] /\ op = [op EXCEPT ![r] = o]
        /\ mem = [mem EXCEPT ![r] = m] /\ work = [work EXCEPT ![r] = w]
        /\ count = [count EXCEPT ![r] = c]
    BY Frame
  <1>3. CASE host = "up" /\ ~x.cancel /\ x.dispatch = "pending"
    <2> DEFINE x2 == [x EXCEPT !.dispatch = "dispatching"]
               m2 == [m EXCEPT !.pump = "starting"]
    <2>1. m.pump = "ready"
      BY <1>3 DEF Claim
    <2>2. /\ run' = [run EXCEPT ![r] = x2] /\ op' = [op EXCEPT ![r] = o]
          /\ mem' = [mem EXCEPT ![r] = m2] /\ work' = [work EXCEPT ![r] = w]
          /\ count' = [count EXCEPT ![r] = c] /\ UNCHANGED <<host, downs>>
      BY <1>3, <1>2 DEF Claim
    <2> HIDE DEF x, o, m, w, c
    <2>3. x2 \in Rows
      BY <1>1 DEF Rows
    <2>4. m2 \in Mems
      BY <1>1 DEF Mems
    <2>5. Consistent(x2, o, m2, w, c)
      BY <1>1, <1>3, <2>1
         DEF Consistent, InOrder, PumpAgrees, WorkAgrees, OperationAgrees, EndAgrees,
             Claimed, Ended, Final, NoOp, Rows, Ops, Mems, Counts, NoOp
    <2>6. x2.busy => x.busy
      BY <1>1, <1>3, <2>1 DEF Rows, NoOp, Ended, Final
    <2> HIDE DEF x2, m2
    <2> QED
      BY <1>1, <2>2, <2>3, <2>4, <2>5, <2>6, RunStep DEF x
  <1>4. CASE host = "up" /\ x.cancel
    <2> DEFINE x2 == CancelUnheld(x)
               m2 == [m EXCEPT !.pump = "none"]
    <2>1. m.pump = "ready"
      BY <1>4 DEF Claim
    <2>2. /\ run' = [run EXCEPT ![r] = x2] /\ op' = [op EXCEPT ![r] = o]
          /\ mem' = [mem EXCEPT ![r] = m2] /\ work' = [work EXCEPT ![r] = w]
          /\ count' = [count EXCEPT ![r] = c] /\ UNCHANGED <<host, downs>>
      BY <1>4, <1>2 DEF Claim
    <2> HIDE DEF x, o, m, w, c
    <2>3. x2 \in Rows
      BY <1>1, CancelUnheldType
    <2>4. m2 \in Mems
      BY <1>1 DEF Mems
    <2>5. Consistent(x2, o, m2, w, c)
      BY <1>1, <1>4, <2>1
         DEF Consistent, InOrder, PumpAgrees, WorkAgrees, OperationAgrees, EndAgrees,
             Claimed, Ended, Final, NoOp, Rows, Ops, Mems, Counts, CancelUnheld,
             NeverStarted, Finalize, MarkUnknown
    <2>6. x2.busy => x.busy
      BY <1>1, <1>4, <2>1 DEF Rows, CancelUnheld, NeverStarted, Finalize, MarkUnknown,
                              Ended, Final
    <2> HIDE DEF x2, m2
    <2> QED
      BY <1>1, <2>2, <2>3, <2>4, <2>5, <2>6, RunStep DEF x
  <1>5. CASE ~(host = "up" /\ x.cancel) /\ ~(host = "up" /\ ~x.cancel /\ x.dispatch = "pending")
    <2> DEFINE m2 == [m EXCEPT !.pump = "none"]
    <2>1. m.pump = "ready"
      BY <1>5 DEF Claim
    <2>2. /\ run' = [run EXCEPT ![r] = x] /\ op' = [op EXCEPT ![r] = o]
          /\ mem' = [mem EXCEPT ![r] = m2] /\ work' = [work EXCEPT ![r] = w]
          /\ count' = [count EXCEPT ![r] = c] /\ UNCHANGED <<host, downs>>
      BY <1>5, <1>2 DEF Claim
    <2> HIDE DEF x, o, m, w, c
    <2>3. m2 \in Mems
      BY <1>1 DEF Mems
    <2>4. Consistent(x, o, m2, w, c)
      BY <1>1, <1>5, <2>1
         DEF Consistent, InOrder, PumpAgrees, WorkAgrees, OperationAgrees, EndAgrees,
             Claimed, Ended, Final, NoOp, Rows, Ops, Mems, Counts
    <2> HIDE DEF m2
    <2> QED
      BY <1>1, <2>2, <2>3, <2>4, RunStep DEF x
  <1> QED
    BY <1>3, <1>4, <1>5 DEF Claim

\* The driver journals the operation, or refuses the run.
LEMMA JournalKeeps == ASSUME Invariant, NEW r \in Runs, Journal(r) PROVE Invariant'
  <1> DEFINE x == run[r]  o == op[r]  m == mem[r]  w == work[r]  c == count[r]
  <1>1. /\ x \in Rows /\ o \in Ops /\ m \in Mems /\ w \in Works /\ c \in Counts
        /\ Consistent(x, o, m, w, c)
    BY Typing
  <1>2. /\ run = [run EXCEPT ![r] = x] /\ op = [op EXCEPT ![r] = o]
        /\ mem = [mem EXCEPT ![r] = m] /\ work = [work EXCEPT ![r] = w]
        /\ count = [count EXCEPT ![r] = c]
    BY Frame
  <1>3. CASE /\ op' = [op EXCEPT ![r] = [NoOp EXCEPT !.state = "accepted"]]
             /\ mem' = [mem EXCEPT ![r].pump = "sending", ![r].owned = TRUE] /\ UNCHANGED run
    <2> DEFINE o2 == [NoOp EXCEPT !.state = "accepted"]
               m2 == [m EXCEPT !.pump = "sending", !.owned = TRUE]
    <2>1. m.pump = "starting"
      BY <1>3 DEF Journal
    <2>2. /\ run' = [run EXCEPT ![r] = x] /\ op' = [op EXCEPT ![r] = o2]
          /\ mem' = [mem EXCEPT ![r] = m2] /\ work' = [work EXCEPT ![r] = w]
          /\ count' = [count EXCEPT ![r] = c] /\ UNCHANGED <<host, downs>>
      BY <1>3, <1>2 DEF Journal
    <2> HIDE DEF x, o, m, w, c
    <2>3. o2 \in Ops
      BY <1>1 DEF Ops, NoOp, Outcomes, Reports
    <2>4. m2 \in Mems
      BY <1>1 DEF Mems
    <2>5. Consistent(x, o2, m2, w, c)
      BY <1>1, <1>3, <2>1
         DEF Consistent, InOrder, PumpAgrees, WorkAgrees, OperationAgrees, EndAgrees,
             Claimed, Ended, Final, NoOp, Rows, Ops, Mems, Counts, NoOp
    <2> HIDE DEF o2, m2
    <2> QED
      BY <1>1, <2>2, <2>3, <2>4, <2>5, RunStep DEF x
  <1>4. CASE /\ run' = [run EXCEPT ![r] = MarkUnknown(x)] /\ UNCHANGED op
             /\ mem' = [mem EXCEPT ![r].pump = "none"]
    <2> DEFINE x2 == MarkUnknown(x)
               m2 == [m EXCEPT !.pump = "none"]
    <2>1. m.pump = "starting"
      BY <1>4 DEF Journal
    <2>2. /\ run' = [run EXCEPT ![r] = x2] /\ op' = [op EXCEPT ![r] = o]
          /\ mem' = [mem EXCEPT ![r] = m2] /\ work' = [work EXCEPT ![r] = w]
          /\ count' = [count EXCEPT ![r] = c] /\ UNCHANGED <<host, downs>>
      BY <1>4, <1>2 DEF Journal
    <2> HIDE DEF x, o, m, w, c
    <2>3. x2 \in Rows
      BY <1>1, MarkUnknownType
    <2>4. m2 \in Mems
      BY <1>1 DEF Mems
    <2>5. Consistent(x2, o, m2, w, c)
      BY <1>1, <1>4, <2>1
         DEF Consistent, InOrder, PumpAgrees, WorkAgrees, OperationAgrees, EndAgrees,
             Claimed, Ended, Final, NoOp, Rows, Ops, Mems, Counts, MarkUnknown
    <2>6. x2.busy => x.busy
      BY <1>1, <1>4, <2>1 DEF Rows, MarkUnknown, Ended, Final
    <2> HIDE DEF x2, m2
    <2> QED
      BY <1>1, <2>2, <2>3, <2>4, <2>5, <2>6, RunStep DEF x
  <1> QED
    BY <1>3, <1>4 DEF Journal

\* The agent is prompted, or nobody knows.
LEMMA SendKeeps == ASSUME Invariant, NEW r \in Runs, Send(r) PROVE Invariant'
  <1> DEFINE x == run[r]  o == op[r]  m == mem[r]  w == work[r]  c == count[r]
  <1>1. /\ x \in Rows /\ o \in Ops /\ m \in Mems /\ w \in Works /\ c \in Counts
        /\ Consistent(x, o, m, w, c)
    BY Typing
  <1>2. /\ run = [run EXCEPT ![r] = x] /\ op = [op EXCEPT ![r] = o]
        /\ mem = [mem EXCEPT ![r] = m] /\ work = [work EXCEPT ![r] = w]
        /\ count = [count EXCEPT ![r] = c]
    BY Frame
  <1>3. CASE /\ op' = [op EXCEPT ![r].state = "running"] /\ UNCHANGED run
             /\ mem' = [mem EXCEPT ![r].pump = "acknowledging"]
             /\ work' = [work EXCEPT ![r] = "working"]
    <2> DEFINE o2 == [o EXCEPT !.state = "running"]
               m2 == [m EXCEPT !.pump = "acknowledging"]
               w2 == "working"
               c2 == [c EXCEPT !.prompted = c.prompted + 1]
    <2>1. m.pump = "sending"
      BY <1>3 DEF Send
    <2>2. /\ run' = [run EXCEPT ![r] = x] /\ op' = [op EXCEPT ![r] = o2]
          /\ mem' = [mem EXCEPT ![r] = m2] /\ work' = [work EXCEPT ![r] = w2]
          /\ count' = [count EXCEPT ![r] = c2] /\ UNCHANGED <<host, downs>>
      BY <1>3, <1>2 DEF Send
    <2> HIDE DEF x, o, m, w, c
    <2>3. o2 \in Ops
      BY <1>1 DEF Ops
    <2>4. m2 \in Mems
      BY <1>1 DEF Mems
    <2>5. w2 \in Works
      BY  DEF Works
    <2>6. c2 \in Counts
      BY <1>1 DEF Counts
    <2>7. Consistent(x, o2, m2, w2, c2)
      BY <1>1, <1>3, <2>1
         DEF Consistent, InOrder, PumpAgrees, WorkAgrees, OperationAgrees, EndAgrees,
             Claimed, Ended, Final, NoOp, Rows, Ops, Mems, Counts
    <2> HIDE DEF o2, m2, w2, c2
    <2> QED
      BY <1>1, <2>2, <2>3, <2>4, <2>5, <2>6, <2>7, RunStep DEF x
  <1>4. ASSUME NEW left \in {"none", "lost"}, op' = [op EXCEPT ![r] = Lost(o)],
               mem' = [mem EXCEPT ![r].pump = "none"],
               run' = [run EXCEPT ![r] = MarkUnknown(x)], work' = [work EXCEPT ![r] = left]
        PROVE  Invariant'
    <2> DEFINE x2 == MarkUnknown(x)
               o2 == Lost(o)
               m2 == [m EXCEPT !.pump = "none"]
               w2 == left
               c2 == [c EXCEPT !.prompted = c.prompted + 1]
    <2>1. m.pump = "sending"
      BY <1>4 DEF Send
    <2>2. /\ run' = [run EXCEPT ![r] = x2] /\ op' = [op EXCEPT ![r] = o2]
          /\ mem' = [mem EXCEPT ![r] = m2] /\ work' = [work EXCEPT ![r] = w2]
          /\ count' = [count EXCEPT ![r] = c2] /\ UNCHANGED <<host, downs>>
      BY <1>4, <1>2 DEF Send
    <2> HIDE DEF x, o, m, w, c
    <2>3. x2 \in Rows
      BY <1>1, <1>4, MarkUnknownType
    <2>4. o2 \in Ops
      BY <1>1, LostType
    <2>5. m2 \in Mems
      BY <1>1 DEF Mems
    <2>6. w2 \in Works
      BY <1>4 DEF Works
    <2>7. c2 \in Counts
      BY <1>1 DEF Counts
    <2>8. Consistent(x2, o2, m2, w2, c2)
      BY <1>1, <1>4, <2>1
         DEF Consistent, InOrder, PumpAgrees, WorkAgrees, OperationAgrees, EndAgrees,
             Claimed, Ended, Final, NoOp, Rows, Ops, Mems, Counts, MarkUnknown, Lost
    <2>9. x2.busy => x.busy
      BY <1>1, <1>4, <2>1 DEF Rows, MarkUnknown, Lost, Ended, Final
    <2> HIDE DEF x2, o2, m2, w2, c2
    <2> QED
      BY <1>1, <2>2, <2>3, <2>4, <2>5, <2>6, <2>7, <2>8, <2>9, RunStep DEF x
  <1> QED
    BY <1>3, <1>4 DEF Send

\* The driver has started the provider; a cancel that came meanwhile is carried
\* out.
LEMMA AcknowledgeKeeps == ASSUME Invariant, NEW r \in Runs, Acknowledge(r) PROVE Invariant'
  <1> DEFINE x == run[r]  o == op[r]  m == mem[r]  w == work[r]  c == count[r]
             y == [x EXCEPT !.dispatch = "acknowledged",
                        !.status = IF x.status = "preparing" THEN "running" ELSE x.status]
             n == [m EXCEPT !.pump = "none", !.handle = ~Ended(y)]
  <1>1. /\ x \in Rows /\ o \in Ops /\ m \in Mems /\ w \in Works /\ c \in Counts
        /\ Consistent(x, o, m, w, c)
    BY Typing
  <1>2. /\ run = [run EXCEPT ![r] = x] /\ op = [op EXCEPT ![r] = o]
        /\ mem = [mem EXCEPT ![r] = m] /\ work = [work EXCEPT ![r] = w]
        /\ count = [count EXCEPT ![r] = c]
    BY Frame
  <1>3. CASE n.handle /\ y.cancel /\ Attached(r) /\ n.stop = "no"
    <2> DEFINE x2 == y
               m2 == [n EXCEPT !.stop = "interrupted"]
    <2>1. m.pump = "acknowledging" /\ w \in {"working", "idle", "lost"}
      BY <1>3 DEF Acknowledge, Attached
    <2>2. /\ run' = [run EXCEPT ![r] = x2] /\ op' = [op EXCEPT ![r] = o]
          /\ mem' = [mem EXCEPT ![r] = m2] /\ work' = [work EXCEPT ![r] = w]
          /\ count' = [count EXCEPT ![r] = c] /\ UNCHANGED <<host, downs>>
      BY <1>3, <1>2 DEF Acknowledge, BeginStop
    <2> HIDE DEF x, o, m, w, c
    <2>3. x2 \in Rows
      BY <1>1 DEF Rows
    <2>4. m2 \in Mems
      BY <1>1 DEF Mems, Outcomes
    <2>5. Consistent(x2, o, m2, w, c)
      BY <1>1, <1>3, <2>1
         DEF Consistent, InOrder, PumpAgrees, WorkAgrees, OperationAgrees, EndAgrees,
             Claimed, Ended, Final, NoOp, Rows, Ops, Mems, Counts
    <2>6. x2.busy => x.busy
      BY <1>1, <1>3, <2>1 DEF Rows, Ended, Final
    <2> HIDE DEF x2, m2
    <2> QED
      BY <1>1, <2>2, <2>3, <2>4, <2>5, <2>6, RunStep DEF x
  <1>4. CASE n.handle /\ y.cancel /\ Attached(r) /\ n.stop # "no"
    <2> DEFINE x2 == y
               m2 == n
    <2>1. m.pump = "acknowledging" /\ w \in {"working", "idle", "lost"}
      BY <1>4 DEF Acknowledge, Attached
    <2>2. /\ run' = [run EXCEPT ![r] = x2] /\ op' = [op EXCEPT ![r] = o]
          /\ mem' = [mem EXCEPT ![r] = m2] /\ work' = [work EXCEPT ![r] = w]
          /\ count' = [count EXCEPT ![r] = c] /\ UNCHANGED <<host, downs>>
      BY <1>4, <1>2 DEF Acknowledge, BeginStop
    <2> HIDE DEF x, o, m, w, c
    <2>3. x2 \in Rows
      BY <1>1 DEF Rows
    <2>4. m2 \in Mems
      BY <1>1 DEF Mems
    <2>5. Consistent(x2, o, m2, w, c)
      BY <1>1, <1>4, <2>1
         DEF Consistent, InOrder, PumpAgrees, WorkAgrees, OperationAgrees, EndAgrees,
             Claimed, Ended, Final, NoOp, Rows, Ops, Mems, Counts
    <2>6. x2.busy => x.busy
      BY <1>1, <1>4, <2>1 DEF Rows, Ended, Final
    <2> HIDE DEF x2, m2
    <2> QED
      BY <1>1, <2>2, <2>3, <2>4, <2>5, <2>6, RunStep DEF x
  <1>5. CASE n.handle /\ y.cancel /\ ~Attached(r)
    <2> DEFINE x2 == MarkUnknown(y)
               o2 == Lost(o)
               m2 == n
    <2>1. m.pump = "acknowledging" /\ w \notin {"working", "idle", "lost"}
      BY <1>5 DEF Acknowledge, Attached
    <2>2. /\ run' = [run EXCEPT ![r] = x2] /\ op' = [op EXCEPT ![r] = o2]
          /\ mem' = [mem EXCEPT ![r] = m2] /\ work' = [work EXCEPT ![r] = w]
          /\ count' = [count EXCEPT ![r] = c] /\ UNCHANGED <<host, downs>>
      BY <1>5, <1>2 DEF Acknowledge, BeginStop
    <2> HIDE DEF x, o, m, w, c
    <2>3. x2 \in Rows
      BY <1>1 DEF Rows, MarkUnknown
    <2>4. o2 \in Ops
      BY <1>1, LostType
    <2>5. m2 \in Mems
      BY <1>1 DEF Mems
    <2>6. Consistent(x2, o2, m2, w, c)
      BY <1>1, <1>5, <2>1
         DEF Consistent, InOrder, PumpAgrees, WorkAgrees, OperationAgrees, EndAgrees,
             Claimed, Ended, Final, NoOp, Rows, Ops, Mems, Counts, MarkUnknown, Lost
    <2>7. x2.busy => x.busy
      BY <1>1, <1>5, <2>1 DEF Rows, MarkUnknown, Lost, Ended, Final
    <2> HIDE DEF x2, o2, m2
    <2> QED
      BY <1>1, <2>2, <2>3, <2>4, <2>5, <2>6, <2>7, RunStep DEF x
  <1>6. CASE ~(n.handle /\ y.cancel)
    <2> DEFINE x2 == y
               m2 == n
    <2>1. m.pump = "acknowledging"
      BY <1>6 DEF Acknowledge
    <2>2. /\ run' = [run EXCEPT ![r] = x2] /\ op' = [op EXCEPT ![r] = o]
          /\ mem' = [mem EXCEPT ![r] = m2] /\ work' = [work EXCEPT ![r] = w]
          /\ count' = [count EXCEPT ![r] = c] /\ UNCHANGED <<host, downs>>
      BY <1>6, <1>2 DEF Acknowledge
    <2> HIDE DEF x, o, m, w, c
    <2>3. x2 \in Rows
      BY <1>1 DEF Rows
    <2>4. m2 \in Mems
      BY <1>1 DEF Mems
    <2>5. Consistent(x2, o, m2, w, c)
      BY <1>1, <1>6, <2>1
         DEF Consistent, InOrder, PumpAgrees, WorkAgrees, OperationAgrees, EndAgrees,
             Claimed, Ended, Final, NoOp, Rows, Ops, Mems, Counts
    <2>6. x2.busy => x.busy
      BY <1>1, <1>6, <2>1 DEF Rows, Ended, Final
    <2> HIDE DEF x2, m2
    <2> QED
      BY <1>1, <2>2, <2>3, <2>4, <2>5, <2>6, RunStep DEF x
  <1> QED
    BY <1>3, <1>4, <1>5, <1>6 DEF Acknowledge

-------------------------------------------------------------------------------
(* The provider.                                                                *)

\* The turn has begun.
LEMMA StartedKeeps == ASSUME Invariant, NEW r \in Runs, Started(r) PROVE Invariant'
  <1> DEFINE x == run[r]  o == op[r]  m == mem[r]  w == work[r]  c == count[r]
  <1>1. /\ x \in Rows /\ o \in Ops /\ m \in Mems /\ w \in Works /\ c \in Counts
        /\ Consistent(x, o, m, w, c)
    BY Typing
  <1>2. /\ run = [run EXCEPT ![r] = x] /\ op = [op EXCEPT ![r] = o]
        /\ mem = [mem EXCEPT ![r] = m] /\ work = [work EXCEPT ![r] = w]
        /\ count = [count EXCEPT ![r] = c]
    BY Frame
  <1>3. Invariant'
    <2> DEFINE x2 == Running(x)
               m2 == [m EXCEPT !.told = TRUE]
    <2>1. m.owned /\ m.stop = "no" /\ w = "working"
      BY DEF Started, Heard, Owned
    <2>2. /\ run' = [run EXCEPT ![r] = x2] /\ op' = [op EXCEPT ![r] = o]
          /\ mem' = [mem EXCEPT ![r] = m2] /\ work' = [work EXCEPT ![r] = w]
          /\ count' = [count EXCEPT ![r] = c] /\ UNCHANGED <<host, downs>>
      BY <1>2 DEF Started
    <2> HIDE DEF x, o, m, w, c
    <2>3. x2 \in Rows
      BY <1>1 DEF Rows, Running
    <2>4. m2 \in Mems
      BY <1>1 DEF Mems
    <2>5. Consistent(x2, o, m2, w, c)
      BY <1>1, <2>1
         DEF Consistent, InOrder, PumpAgrees, WorkAgrees, OperationAgrees, EndAgrees,
             Claimed, Ended, Final, NoOp, Rows, Ops, Mems, Counts, Running
    <2>6. x2.busy => x.busy
      BY <1>1, <2>1 DEF Rows, Running, Ended, Final
    <2> HIDE DEF x2, m2
    <2> QED
      BY <1>1, <2>2, <2>3, <2>4, <2>5, <2>6, RunStep DEF x
  <1> QED
    BY <1>3

\* The agent reports: to both databases alike.
LEMMA ReportKeeps == ASSUME Invariant, NEW r \in Runs, Report(r) PROVE Invariant'
  <1> DEFINE x == run[r]  o == op[r]  m == mem[r]  w == work[r]  c == count[r]
  <1>1. /\ x \in Rows /\ o \in Ops /\ m \in Mems /\ w \in Works /\ c \in Counts
        /\ Consistent(x, o, m, w, c)
    BY Typing
  <1>2. /\ run = [run EXCEPT ![r] = x] /\ op = [op EXCEPT ![r] = o]
        /\ mem = [mem EXCEPT ![r] = m] /\ work = [work EXCEPT ![r] = w]
        /\ count = [count EXCEPT ![r] = c]
    BY Frame
  <1>3. ASSUME NEW report \in Reports, op' = [op EXCEPT ![r].report = report],
               run' = [run EXCEPT ![r].report = report]
        PROVE  Invariant'
    <2> DEFINE x2 == [x EXCEPT !.report = report]
               o2 == [o EXCEPT !.report = report]
    <2>1. m.owned /\ w = "working" /\ o.report = "none"
      BY <1>3 DEF Report, Owned
    <2>2. /\ run' = [run EXCEPT ![r] = x2] /\ op' = [op EXCEPT ![r] = o2]
          /\ mem' = [mem EXCEPT ![r] = m] /\ work' = [work EXCEPT ![r] = w]
          /\ count' = [count EXCEPT ![r] = c] /\ UNCHANGED <<host, downs>>
      BY <1>3, <1>2 DEF Report
    <2> HIDE DEF x, o, m, w, c
    <2>3. x2 \in Rows
      BY <1>1, <1>3 DEF Rows
    <2>4. o2 \in Ops
      BY <1>1 DEF Ops
    <2>5. Consistent(x2, o2, m, w, c)
      BY <1>1, <1>3, <2>1
         DEF Consistent, InOrder, PumpAgrees, WorkAgrees, OperationAgrees, EndAgrees,
             Claimed, Ended, Final, NoOp, Rows, Ops, Mems, Counts
    <2>6. x2.busy => x.busy
      BY <1>1, <1>3, <2>1 DEF Rows, Ended, Final
    <2> HIDE DEF x2, o2
    <2> QED
      BY <1>1, <2>2, <2>3, <2>4, <2>5, <2>6, RunStep DEF x
  <1> QED
    BY <1>3 DEF Report

\* The agent asks.
LEMMA AskKeeps == ASSUME Invariant, NEW r \in Runs, Ask(r) PROVE Invariant'
  <1> DEFINE x == run[r]  o == op[r]  m == mem[r]  w == work[r]  c == count[r]
  <1>1. /\ x \in Rows /\ o \in Ops /\ m \in Mems /\ w \in Works /\ c \in Counts
        /\ Consistent(x, o, m, w, c)
    BY Typing
  <1>2. /\ run = [run EXCEPT ![r] = x] /\ op = [op EXCEPT ![r] = o]
        /\ mem = [mem EXCEPT ![r] = m] /\ work = [work EXCEPT ![r] = w]
        /\ count = [count EXCEPT ![r] = c]
    BY Frame
  <1>3. Invariant'
    <2> DEFINE x2 == IF Ended(x) THEN x ELSE [x EXCEPT !.ask = "pending", !.status = "waiting"]
               m2 == [m EXCEPT !.asked = TRUE]
    <2>1. m.owned /\ w = "working"
      BY DEF Ask, Owned
    <2>2. /\ run' = [run EXCEPT ![r] = x2] /\ op' = [op EXCEPT ![r] = o]
          /\ mem' = [mem EXCEPT ![r] = m2] /\ work' = [work EXCEPT ![r] = w]
          /\ count' = [count EXCEPT ![r] = c] /\ UNCHANGED <<host, downs>>
      BY <1>2 DEF Ask
    <2> HIDE DEF x, o, m, w, c
    <2>3. x2 \in Rows
      BY <1>1 DEF Rows
    <2>4. m2 \in Mems
      BY <1>1 DEF Mems
    <2>5. Consistent(x2, o, m2, w, c)
      BY <1>1, <2>1
         DEF Consistent, InOrder, PumpAgrees, WorkAgrees, OperationAgrees, EndAgrees,
             Claimed, Ended, Final, NoOp, Rows, Ops, Mems, Counts
    <2>6. x2.busy => x.busy
      BY <1>1, <2>1 DEF Rows, Ended, Final
    <2> HIDE DEF x2, m2
    <2> QED
      BY <1>1, <2>2, <2>3, <2>4, <2>5, <2>6, RunStep DEF x
  <1> QED
    BY <1>3

\* The turn is over, and the operation is not quiet.
LEMMA TurnEndsKeeps == ASSUME Invariant, NEW r \in Runs, TurnEnds(r) PROVE Invariant'
  <1> DEFINE x == run[r]  o == op[r]  m == mem[r]  w == work[r]  c == count[r]
  <1>1. /\ x \in Rows /\ o \in Ops /\ m \in Mems /\ w \in Works /\ c \in Counts
        /\ Consistent(x, o, m, w, c)
    BY Typing
  <1>2. /\ run = [run EXCEPT ![r] = x] /\ op = [op EXCEPT ![r] = o]
        /\ mem = [mem EXCEPT ![r] = m] /\ work = [work EXCEPT ![r] = w]
        /\ count = [count EXCEPT ![r] = c]
    BY Frame
  <1>3. ASSUME NEW outcome \in Outcomes, mem' = [mem EXCEPT ![r].stop = outcome],
               op' = [op EXCEPT ![r] = Over(o, outcome, FALSE)]
        PROVE  Invariant'
    <2> DEFINE x2 == MarkUnknown(x)
               o2 == Over(o, outcome, FALSE)
               m2 == [m EXCEPT !.stop = outcome]
               w2 == "idle"
    <2>1. m.owned /\ m.stop = "no" /\ w = "working"
      BY <1>3 DEF TurnEnds, Heard, Owned
    <2>2. /\ run' = [run EXCEPT ![r] = x2] /\ op' = [op EXCEPT ![r] = o2]
          /\ mem' = [mem EXCEPT ![r] = m2] /\ work' = [work EXCEPT ![r] = w2]
          /\ count' = [count EXCEPT ![r] = c] /\ UNCHANGED <<host, downs>>
      BY <1>3, <1>2 DEF TurnEnds
    <2> HIDE DEF x, o, m, w, c
    <2>3. x2 \in Rows
      BY <1>1, <1>3, MarkUnknownType
    <2>4. o2 \in Ops
      BY <1>1 DEF Ops, Over
    <2>5. m2 \in Mems
      BY <1>1 DEF Mems
    <2>6. w2 \in Works
      BY <1>3 DEF Works
    <2>7. Consistent(x2, o2, m2, w2, c)
      BY <1>1, <1>3, <2>1
         DEF Consistent, InOrder, PumpAgrees, WorkAgrees, OperationAgrees, EndAgrees,
             Claimed, Ended, Final, NoOp, Rows, Ops, Mems, Counts, MarkUnknown, Over,
             Outcomes
    <2>8. x2.busy => x.busy
      BY <1>1, <1>3, <2>1 DEF Rows, MarkUnknown, Over, Outcomes, Ended, Final
    <2> HIDE DEF x2, o2, m2, w2
    <2> QED
      BY <1>1, <2>2, <2>3, <2>4, <2>5, <2>6, <2>7, <2>8, RunStep DEF x
  <1> QED
    BY <1>3 DEF TurnEnds

\* The session dies without an end of its turn.
LEMMA SessionDiesKeeps == ASSUME Invariant, NEW r \in Runs, SessionDies(r) PROVE Invariant'
  <1> DEFINE x == run[r]  o == op[r]  m == mem[r]  w == work[r]  c == count[r]
  <1>1. /\ x \in Rows /\ o \in Ops /\ m \in Mems /\ w \in Works /\ c \in Counts
        /\ Consistent(x, o, m, w, c)
    BY Typing
  <1>2. /\ run = [run EXCEPT ![r] = x] /\ op = [op EXCEPT ![r] = o]
        /\ mem = [mem EXCEPT ![r] = m] /\ work = [work EXCEPT ![r] = w]
        /\ count = [count EXCEPT ![r] = c]
    BY Frame
  <1>3. Invariant'
    <2> DEFINE x2 == MarkUnknown(x)
               o2 == Lost(o)
               w2 == "lost"
    <2>1. m.owned /\ m.stop = "no" /\ w = "working"
      BY DEF SessionDies, Heard, Owned
    <2>2. /\ run' = [run EXCEPT ![r] = x2] /\ op' = [op EXCEPT ![r] = o2]
          /\ mem' = [mem EXCEPT ![r] = m] /\ work' = [work EXCEPT ![r] = w2]
          /\ count' = [count EXCEPT ![r] = c] /\ UNCHANGED <<host, downs>>
      BY <1>2 DEF SessionDies
    <2> HIDE DEF x, o, m, w, c
    <2>3. x2 \in Rows
      BY <1>1, MarkUnknownType
    <2>4. o2 \in Ops
      BY <1>1, LostType
    <2>5. w2 \in Works
      BY  DEF Works
    <2>6. Consistent(x2, o2, m, w2, c)
      BY <1>1, <2>1
         DEF Consistent, InOrder, PumpAgrees, WorkAgrees, OperationAgrees, EndAgrees,
             Claimed, Ended, Final, NoOp, Rows, Ops, Mems, Counts, MarkUnknown, Lost
    <2>7. x2.busy => x.busy
      BY <1>1, <2>1 DEF Rows, MarkUnknown, Lost, Ended, Final
    <2> HIDE DEF x2, o2, w2
    <2> QED
      BY <1>1, <2>2, <2>3, <2>4, <2>5, <2>6, <2>7, RunStep DEF x
  <1> QED
    BY <1>3

\* The session has been disposed of: the run ends, or nobody vouches for it.
LEMMA StopEndsKeeps == ASSUME Invariant, NEW r \in Runs, StopEnds(r) PROVE Invariant'
  <1> DEFINE x == run[r]  o == op[r]  m == mem[r]  w == work[r]  c == count[r]
             s == StopOutcome(r)
  <1>1. /\ x \in Rows /\ o \in Ops /\ m \in Mems /\ w \in Works /\ c \in Counts
        /\ Consistent(x, o, m, w, c)
    BY Typing
  <1>2. /\ run = [run EXCEPT ![r] = x] /\ op = [op EXCEPT ![r] = o]
        /\ mem = [mem EXCEPT ![r] = m] /\ work = [work EXCEPT ![r] = w]
        /\ count = [count EXCEPT ![r] = c]
    BY Frame
  <1>3. m.stop # "no" => s \in Outcomes
    BY <1>1 DEF StopOutcome, Ops, Mems
  <1>4. ASSUME NEW status \in Final, x.cancel => status = "cancelled",
               status = "succeeded" => /\ s = "completed" /\ x.report = "completed"
                                       /\ x.ask # "pending" /\ ~x.cancel,
               run' = [run EXCEPT ![r] = Finalize(x, status)],
               NEW w2 \in {"none", "leftover"},
               op' = [op EXCEPT ![r] = Over(o, s, TRUE)], work' = [work EXCEPT ![r] = w2],
               mem' = [mem EXCEPT ![r] = [NoMem EXCEPT !.pump = m.pump]]
        PROVE  Invariant'
    <2> DEFINE x2 == Finalize(x, status)
               o2 == Over(o, s, TRUE)
               m2 == [NoMem EXCEPT !.pump = m.pump]
    <2>1. m.stop # "no" /\ s = IF o.outcome = "none" THEN m.stop ELSE o.outcome
      BY <1>4 DEF StopEnds, StopOutcome
    <2>2. /\ run' = [run EXCEPT ![r] = x2] /\ op' = [op EXCEPT ![r] = o2]
          /\ mem' = [mem EXCEPT ![r] = m2] /\ work' = [work EXCEPT ![r] = w2]
          /\ count' = [count EXCEPT ![r] = c] /\ UNCHANGED <<host, downs>>
      BY <1>4, <1>2 DEF StopEnds
    <2> HIDE DEF x, o, m, w, c
    <2>3. x2 \in Rows
      BY <1>1, <1>4, FinalizeType
    <2>4. o2 \in Ops
      BY <1>1, <1>3, <2>1 DEF Ops, Over
    <2>5. m2 \in Mems
      BY <1>1 DEF Mems, NoMem
    <2>6. w2 \in Works
      BY <1>4 DEF Works
    <2>7. Consistent(x2, o2, m2, w2, c)
      BY <1>1, <1>4, <2>1
         DEF Consistent, InOrder, PumpAgrees, WorkAgrees, OperationAgrees, EndAgrees,
             Claimed, Ended, Final, NoOp, Rows, Ops, Mems, Counts, Finalize, Over, NoMem,
             Outcomes
    <2>8. x2.busy => x.busy
      BY <1>1, <1>4, <2>1 DEF Rows, Finalize, Over, NoMem, Outcomes, Ended, Final
    <2> HIDE DEF x2, o2, m2
    <2> QED
      BY <1>1, <2>2, <2>3, <2>4, <2>5, <2>6, <2>7, <2>8, RunStep DEF x
  <1>5. CASE /\ o.state # "ended" /\ op' = [op EXCEPT ![r] = Lost(o)]
             /\ run' = [run EXCEPT ![r] = MarkUnknown(x)]
             /\ mem' = [mem EXCEPT ![r].stop = "no"] /\ work' = [work EXCEPT ![r] = "orphan"]
    <2> DEFINE x2 == MarkUnknown(x)
               o2 == Lost(o)
               m2 == [m EXCEPT !.stop = "no"]
               w2 == "orphan"
    <2>1. m.stop # "no"
      BY <1>5 DEF StopEnds
    <2>2. /\ run' = [run EXCEPT ![r] = x2] /\ op' = [op EXCEPT ![r] = o2]
          /\ mem' = [mem EXCEPT ![r] = m2] /\ work' = [work EXCEPT ![r] = w2]
          /\ count' = [count EXCEPT ![r] = c] /\ UNCHANGED <<host, downs>>
      BY <1>5, <1>2 DEF StopEnds
    <2> HIDE DEF x, o, m, w, c
    <2>3. x2 \in Rows
      BY <1>1, MarkUnknownType
    <2>4. o2 \in Ops
      BY <1>1, LostType
    <2>5. m2 \in Mems
      BY <1>1 DEF Mems
    <2>6. w2 \in Works
      BY  DEF Works
    <2>7. Consistent(x2, o2, m2, w2, c)
      BY <1>1, <1>5, <2>1
         DEF Consistent, InOrder, PumpAgrees, WorkAgrees, OperationAgrees, EndAgrees,
             Claimed, Ended, Final, NoOp, Rows, Ops, Mems, Counts, MarkUnknown, Lost
    <2>8. x2.busy => x.busy
      BY <1>1, <1>5, <2>1 DEF Rows, MarkUnknown, Lost, Ended, Final
    <2> HIDE DEF x2, o2, m2, w2
    <2> QED
      BY <1>1, <2>2, <2>3, <2>4, <2>5, <2>6, <2>7, <2>8, RunStep DEF x
  <1>6. ASSUME m.stop # "no", run' = [run EXCEPT ![r] = Settle(x, s)],
               NEW w2 \in {"none", "leftover"},
               op' = [op EXCEPT ![r] = Over(o, s, TRUE)], work' = [work EXCEPT ![r] = w2],
               mem' = [mem EXCEPT ![r] = [NoMem EXCEPT !.pump = m.pump]]
        PROVE  Invariant'
    <2>1. PICK status \in Final :
            /\ Settle(x, s) = Finalize(x, status)
            /\ x.cancel => status = "cancelled"
            /\ status = "succeeded" => /\ s = "completed" /\ x.report = "completed"
                                       /\ x.ask # "pending" /\ ~x.cancel
      BY <1>1, <1>3, <1>6, SettleStatus
    <2> QED BY <1>4, <1>6, <2>1
  <1> QED
    BY <1>5, <1>6 DEF StopEnds

-------------------------------------------------------------------------------
(* The user, and reconciliation.                                                *)

\* A cancel is journaled, and carried out by whoever holds the run.
LEMMA RequestCancelKeeps == ASSUME Invariant, NEW r \in Runs, RequestCancel(r) PROVE Invariant'
  <1> DEFINE x == run[r]  o == op[r]  m == mem[r]  w == work[r]  c == count[r]
             y == [x EXCEPT !.cancel = TRUE, !.status = "stopping"]
  <1>1. /\ x \in Rows /\ o \in Ops /\ m \in Mems /\ w \in Works /\ c \in Counts
        /\ Consistent(x, o, m, w, c)
    BY Typing
  <1>2. /\ run = [run EXCEPT ![r] = x] /\ op = [op EXCEPT ![r] = o]
        /\ mem = [mem EXCEPT ![r] = m] /\ work = [work EXCEPT ![r] = w]
        /\ count = [count EXCEPT ![r] = c]
    BY Frame
  <1>3. CASE m.abort # "none"
    <2> DEFINE x2 == y
               m2 == [m EXCEPT !.abort = "aborted"]
    <2>1. x.status # "none" /\ ~Ended(x)
      BY <1>3 DEF RequestCancel
    <2>2. /\ run' = [run EXCEPT ![r] = x2] /\ op' = [op EXCEPT ![r] = o]
          /\ mem' = [mem EXCEPT ![r] = m2] /\ work' = [work EXCEPT ![r] = w]
          /\ count' = [count EXCEPT ![r] = c] /\ UNCHANGED <<host, downs>>
      BY <1>3, <1>2 DEF RequestCancel
    <2> HIDE DEF x, o, m, w, c
    <2>3. x2 \in Rows
      BY <1>1 DEF Rows
    <2>4. m2 \in Mems
      BY <1>1 DEF Mems
    <2>5. Consistent(x2, o, m2, w, c)
      BY <1>1, <1>3, <2>1
         DEF Consistent, InOrder, PumpAgrees, WorkAgrees, OperationAgrees, EndAgrees,
             Claimed, Ended, Final, NoOp, Rows, Ops, Mems, Counts
    <2>6. x2.busy => x.busy
      BY <1>1, <1>3, <2>1 DEF Rows, Ended, Final
    <2> HIDE DEF x2, m2
    <2> QED
      BY <1>1, <2>2, <2>3, <2>4, <2>5, <2>6, RunStep DEF x
  <1>4. CASE m.abort = "none" /\ m.handle /\ Attached(r) /\ m.stop = "no"
    <2> DEFINE x2 == y
               m2 == [m EXCEPT !.stop = "interrupted"]
    <2>1. x.status # "none" /\ ~Ended(x) /\ w \in {"working", "idle", "lost"}
      BY <1>4 DEF RequestCancel, Attached
    <2>2. /\ run' = [run EXCEPT ![r] = x2] /\ op' = [op EXCEPT ![r] = o]
          /\ mem' = [mem EXCEPT ![r] = m2] /\ work' = [work EXCEPT ![r] = w]
          /\ count' = [count EXCEPT ![r] = c] /\ UNCHANGED <<host, downs>>
      BY <1>4, <1>2 DEF RequestCancel, BeginStop
    <2> HIDE DEF x, o, m, w, c
    <2>3. x2 \in Rows
      BY <1>1 DEF Rows
    <2>4. m2 \in Mems
      BY <1>1 DEF Mems, Outcomes
    <2>5. Consistent(x2, o, m2, w, c)
      BY <1>1, <1>4, <2>1
         DEF Consistent, InOrder, PumpAgrees, WorkAgrees, OperationAgrees, EndAgrees,
             Claimed, Ended, Final, NoOp, Rows, Ops, Mems, Counts
    <2>6. x2.busy => x.busy
      BY <1>1, <1>4, <2>1 DEF Rows, Ended, Final
    <2> HIDE DEF x2, m2
    <2> QED
      BY <1>1, <2>2, <2>3, <2>4, <2>5, <2>6, RunStep DEF x
  <1>5. CASE m.abort = "none" /\ m.handle /\ Attached(r) /\ m.stop # "no"
    <2> DEFINE x2 == y
    <2>1. x.status # "none" /\ ~Ended(x) /\ w \in {"working", "idle", "lost"}
      BY <1>5 DEF RequestCancel, Attached
    <2>2. /\ run' = [run EXCEPT ![r] = x2] /\ op' = [op EXCEPT ![r] = o]
          /\ mem' = [mem EXCEPT ![r] = m] /\ work' = [work EXCEPT ![r] = w]
          /\ count' = [count EXCEPT ![r] = c] /\ UNCHANGED <<host, downs>>
      BY <1>5, <1>2 DEF RequestCancel, BeginStop
    <2> HIDE DEF x, o, m, w, c
    <2>3. x2 \in Rows
      BY <1>1 DEF Rows
    <2>4. Consistent(x2, o, m, w, c)
      BY <1>1, <1>5, <2>1
         DEF Consistent, InOrder, PumpAgrees, WorkAgrees, OperationAgrees, EndAgrees,
             Claimed, Ended, Final, NoOp, Rows, Ops, Mems, Counts
    <2>5. x2.busy => x.busy
      BY <1>1, <1>5, <2>1 DEF Rows, Ended, Final
    <2> HIDE DEF x2
    <2> QED
      BY <1>1, <2>2, <2>3, <2>4, <2>5, RunStep DEF x
  <1>6. CASE m.abort = "none" /\ m.handle /\ ~Attached(r)
    <2> DEFINE x2 == MarkUnknown(y)
               o2 == Lost(o)
    <2>1. x.status # "none" /\ ~Ended(x) /\ w \notin {"working", "idle", "lost"}
      BY <1>6 DEF RequestCancel, Attached
    <2>2. /\ run' = [run EXCEPT ![r] = x2] /\ op' = [op EXCEPT ![r] = o2]
          /\ mem' = [mem EXCEPT ![r] = m] /\ work' = [work EXCEPT ![r] = w]
          /\ count' = [count EXCEPT ![r] = c] /\ UNCHANGED <<host, downs>>
      BY <1>6, <1>2 DEF RequestCancel, BeginStop
    <2> HIDE DEF x, o, m, w, c
    <2>3. x2 \in Rows
      BY <1>1 DEF Rows, MarkUnknown
    <2>4. o2 \in Ops
      BY <1>1, LostType
    <2>5. Consistent(x2, o2, m, w, c)
      BY <1>1, <1>6, <2>1
         DEF Consistent, InOrder, PumpAgrees, WorkAgrees, OperationAgrees, EndAgrees,
             Claimed, Ended, Final, NoOp, Rows, Ops, Mems, Counts, MarkUnknown, Lost
    <2>6. x2.busy => x.busy
      BY <1>1, <1>6, <2>1 DEF Rows, MarkUnknown, Lost, Ended, Final
    <2> HIDE DEF x2, o2
    <2> QED
      BY <1>1, <2>2, <2>3, <2>4, <2>5, <2>6, RunStep DEF x
  <1>7. CASE m.abort = "none" /\ ~m.handle
    <2> DEFINE x2 == CancelUnheld(y)
    <2>1. x.status # "none" /\ ~Ended(x)
      BY <1>7 DEF RequestCancel
    <2>2. /\ run' = [run EXCEPT ![r] = x2] /\ op' = [op EXCEPT ![r] = o]
          /\ mem' = [mem EXCEPT ![r] = m] /\ work' = [work EXCEPT ![r] = w]
          /\ count' = [count EXCEPT ![r] = c] /\ UNCHANGED <<host, downs>>
      BY <1>7, <1>2 DEF RequestCancel
    <2> HIDE DEF x, o, m, w, c
    <2>3. x2 \in Rows
      BY <1>1 DEF Rows, CancelUnheld, Finalize, MarkUnknown, Final
    <2>4. Consistent(x2, o, m, w, c)
      BY <1>1, <1>7, <2>1
         DEF Consistent, InOrder, PumpAgrees, WorkAgrees, OperationAgrees, EndAgrees,
             Claimed, Ended, Final, NoOp, Rows, Ops, Mems, Counts, CancelUnheld,
             NeverStarted, Finalize, MarkUnknown
    <2>5. x2.busy => x.busy
      BY <1>1, <1>7, <2>1 DEF Rows, CancelUnheld, NeverStarted, Finalize, MarkUnknown,
                              Ended, Final
    <2> HIDE DEF x2
    <2> QED
      BY <1>1, <2>2, <2>3, <2>4, <2>5, RunStep DEF x
  <1> QED
    BY <1>3, <1>4, <1>5, <1>6, <1>7 DEF RequestCancel

\* An answer is handed to the driver, or its delivery is unconfirmed.
LEMMA AnswerKeeps == ASSUME Invariant, NEW r \in Runs, Answer(r) PROVE Invariant'
  <1> DEFINE x == run[r]  o == op[r]  m == mem[r]  w == work[r]  c == count[r]
  <1>1. /\ x \in Rows /\ o \in Ops /\ m \in Mems /\ w \in Works /\ c \in Counts
        /\ Consistent(x, o, m, w, c)
    BY Typing
  <1>2. /\ run = [run EXCEPT ![r] = x] /\ op = [op EXCEPT ![r] = o]
        /\ mem = [mem EXCEPT ![r] = m] /\ work = [work EXCEPT ![r] = w]
        /\ count = [count EXCEPT ![r] = c]
    BY Frame
  <1>3. CASE m.handle /\ m.asked
    <2> DEFINE x2 == [x EXCEPT !.ask = "delivered", !.status = "running"]
               m2 == [m EXCEPT !.asked = FALSE]
    <2>1. x.ask = "pending" /\ ~x.cancel /\ ~Ended(x)
      BY <1>3 DEF Answer
    <2>2. /\ run' = [run EXCEPT ![r] = x2] /\ op' = [op EXCEPT ![r] = o]
          /\ mem' = [mem EXCEPT ![r] = m2] /\ work' = [work EXCEPT ![r] = w]
          /\ count' = [count EXCEPT ![r] = c] /\ UNCHANGED <<host, downs>>
      BY <1>3, <1>2 DEF Answer
    <2> HIDE DEF x, o, m, w, c
    <2>3. x2 \in Rows
      BY <1>1 DEF Rows
    <2>4. m2 \in Mems
      BY <1>1 DEF Mems
    <2>5. Consistent(x2, o, m2, w, c)
      BY <1>1, <1>3, <2>1
         DEF Consistent, InOrder, PumpAgrees, WorkAgrees, OperationAgrees, EndAgrees,
             Claimed, Ended, Final, NoOp, Rows, Ops, Mems, Counts
    <2>6. x2.busy => x.busy
      BY <1>1, <1>3, <2>1 DEF Rows, Ended, Final
    <2> HIDE DEF x2, m2
    <2> QED
      BY <1>1, <2>2, <2>3, <2>4, <2>5, <2>6, RunStep DEF x
  <1>4. CASE ~(m.handle /\ m.asked)
    <2> DEFINE x2 == [x EXCEPT !.ask = "unconfirmed", !.status = "unknown"]
               m2 == [m EXCEPT !.asked = m.asked /\ ~(m.handle /\ m.asked)]
    <2>1. x.ask = "pending" /\ ~x.cancel /\ ~Ended(x)
      BY <1>4 DEF Answer
    <2>2. /\ run' = [run EXCEPT ![r] = x2] /\ op' = [op EXCEPT ![r] = o]
          /\ mem' = [mem EXCEPT ![r] = m2] /\ work' = [work EXCEPT ![r] = w]
          /\ count' = [count EXCEPT ![r] = c] /\ UNCHANGED <<host, downs>>
      BY <1>4, <1>2 DEF Answer
    <2> HIDE DEF x, o, m, w, c
    <2>3. x2 \in Rows
      BY <1>1 DEF Rows
    <2>4. m2 \in Mems
      BY <1>1 DEF Mems
    <2>5. Consistent(x2, o, m2, w, c)
      BY <1>1, <1>4, <2>1
         DEF Consistent, InOrder, PumpAgrees, WorkAgrees, OperationAgrees, EndAgrees,
             Claimed, Ended, Final, NoOp, Rows, Ops, Mems, Counts
    <2>6. x2.busy => x.busy
      BY <1>1, <1>4, <2>1 DEF Rows, Ended, Final
    <2> HIDE DEF x2, m2
    <2> QED
      BY <1>1, <2>2, <2>3, <2>4, <2>5, <2>6, RunStep DEF x
  <1> QED
    BY <1>3, <1>4 DEF Answer

\* What this process does not hold is settled by the journal, or unknown.
LEMMA ReconcileKeeps == ASSUME Invariant, NEW r \in Runs, Reconcile(r) PROVE Invariant'
  <1> DEFINE x == run[r]  o == op[r]  m == mem[r]  w == work[r]  c == count[r]
             y == [x EXCEPT !.report = IF x.report = "none" THEN o.report ELSE x.report]
  <1>1. /\ x \in Rows /\ o \in Ops /\ m \in Mems /\ w \in Works /\ c \in Counts
        /\ Consistent(x, o, m, w, c)
    BY Typing
  <1>2. /\ run = [run EXCEPT ![r] = x] /\ op = [op EXCEPT ![r] = o]
        /\ mem = [mem EXCEPT ![r] = m] /\ work = [work EXCEPT ![r] = w]
        /\ count = [count EXCEPT ![r] = c]
    BY Frame
  <1>3. y \in Rows
    BY <1>1 DEF Rows, Ops
  <1>4. CASE run' = [run EXCEPT ![r] = MarkUnknown(x)]
    <2> DEFINE x2 == MarkUnknown(x)
    <2>1. x.busy /\ m.pump = "none" /\ ~m.handle
      BY <1>4 DEF Reconcile
    <2>2. /\ run' = [run EXCEPT ![r] = x2] /\ op' = [op EXCEPT ![r] = o]
          /\ mem' = [mem EXCEPT ![r] = m] /\ work' = [work EXCEPT ![r] = w]
          /\ count' = [count EXCEPT ![r] = c] /\ UNCHANGED <<host, downs>>
      BY <1>4, <1>2 DEF Reconcile
    <2> HIDE DEF x, o, m, w, c
    <2>3. x2 \in Rows
      BY <1>1, MarkUnknownType
    <2>4. Consistent(x2, o, m, w, c)
      BY <1>1, <1>4, <2>1
         DEF Consistent, InOrder, PumpAgrees, WorkAgrees, OperationAgrees, EndAgrees,
             Claimed, Ended, Final, NoOp, Rows, Ops, Mems, Counts, MarkUnknown
    <2>5. x2.busy => x.busy
      BY <1>1, <1>4, <2>1 DEF Rows, MarkUnknown, Ended, Final
    <2> HIDE DEF x2
    <2> QED
      BY <1>1, <2>2, <2>3, <2>4, <2>5, RunStep DEF x
  <1>5. ASSUME NEW status \in Final, o.state = "ended", o.quiet, y.cancel => status = "cancelled",
               status = "succeeded" => /\ o.outcome = "completed" /\ y.report = "completed"
                                       /\ y.ask # "pending" /\ ~y.cancel,
               run' = [run EXCEPT ![r] = Finalize(y, status)]
        PROVE  Invariant'
    <2> DEFINE x2 == Finalize(y, status)
    <2>1. x.busy /\ m.pump = "none" /\ ~m.handle
      BY <1>5 DEF Reconcile
    <2>2. /\ run' = [run EXCEPT ![r] = x2] /\ op' = [op EXCEPT ![r] = o]
          /\ mem' = [mem EXCEPT ![r] = m] /\ work' = [work EXCEPT ![r] = w]
          /\ count' = [count EXCEPT ![r] = c] /\ UNCHANGED <<host, downs>>
      BY <1>5, <1>2 DEF Reconcile
    <2> HIDE DEF x, o, m, w, c
    <2>3. x2 \in Rows
      BY <1>1, <1>5, FinalizeType, <1>3
    <2>4. Consistent(x2, o, m, w, c)
      BY <1>1, <1>5, <2>1
         DEF Consistent, InOrder, PumpAgrees, WorkAgrees, OperationAgrees, EndAgrees,
             Claimed, Ended, Final, NoOp, Rows, Ops, Mems, Counts, Finalize
    <2>5. x2.busy => x.busy
      BY <1>1, <1>5, <2>1 DEF Rows, Finalize, Ended, Final
    <2> HIDE DEF x2
    <2> QED
      BY <1>1, <2>2, <2>3, <2>4, <2>5, RunStep DEF x
  <1>6. ASSUME o.state = "ended", o.quiet, run' = [run EXCEPT ![r] = Settle(y, o.outcome)]
        PROVE  Invariant'
    <2>1. o.outcome \in Outcomes
      BY <1>1, <1>6 DEF Ops, Consistent, OperationAgrees
    <2> HIDE DEF y
    <2>2. PICK status \in Final :
            /\ Settle(y, o.outcome) = Finalize(y, status)
            /\ y.cancel => status = "cancelled"
            /\ status = "succeeded" => /\ o.outcome = "completed" /\ y.report = "completed"
                                       /\ y.ask # "pending" /\ ~y.cancel
      BY <1>3, <2>1, SettleStatus
    <2> QED BY <1>5, <1>6, <2>2
  <1> QED
    BY <1>4, <1>6 DEF Reconcile

-------------------------------------------------------------------------------
(* The host.                                                                    *)

\* stop() aborts a preparation under way.
LEMMA AbortKeeps ==
    ASSUME NEW x \in Rows, NEW o \in Ops, NEW m \in Mems, NEW w \in Works, NEW c \in Counts,
           Consistent(x, o, m, w, c), m.abort # "none"
    PROVE  /\ [m EXCEPT !.abort = "aborted"] \in Mems
           /\ Consistent(x, o, [m EXCEPT !.abort = "aborted"], w, c)
  BY DEF Consistent, InOrder, PumpAgrees, WorkAgrees, OperationAgrees, EndAgrees,
         Claimed, Ended, Final, NoOp, Rows, Ops, Mems, Counts

\* dispose() begins a stop, or gives up an operation it holds and cannot stop.
LEMMA DisposeKeeps ==
    ASSUME NEW x \in Rows, NEW o \in Ops, NEW m \in Mems, NEW w \in Works, NEW c \in Counts,
           Consistent(x, o, m, w, c), m.owned, m.stop = "no", m.pump = "none"
    PROVE  /\ w \in {"working", "idle", "lost"} =>
                /\ [m EXCEPT !.stop = "interrupted"] \in Mems
                /\ Consistent(x, o, [m EXCEPT !.stop = "interrupted"], w, c)
           /\ w \notin {"working", "idle", "lost"} =>
                /\ MarkUnknown(x) \in Rows /\ Lost(o) \in Ops
                /\ Consistent(MarkUnknown(x), Lost(o), m, w, c)
                /\ MarkUnknown(x).busy => x.busy
  <1>1. MarkUnknown(x) \in Rows /\ Lost(o) \in Ops
    BY MarkUnknownType, LostType
  <1>2. [m EXCEPT !.stop = "interrupted"] \in Mems
    BY DEF Mems, Outcomes
  <1>3. MarkUnknown(x).busy => x.busy
    BY DEF MarkUnknown, Rows
  <1>4. CASE w \in {"working", "idle", "lost"}
    <2>1. Consistent(x, o, [m EXCEPT !.stop = "interrupted"], w, c)
      BY <1>4 DEF Consistent, InOrder, PumpAgrees, WorkAgrees, OperationAgrees, EndAgrees,
                  Claimed, Ended, Final, NoOp, Rows, Ops, Mems, Counts
    <2> QED BY <1>2, <1>4, <2>1
  <1>5. CASE w \notin {"working", "idle", "lost"}
    <2>1. Consistent(MarkUnknown(x), Lost(o), m, w, c)
      BY <1>5 DEF Consistent, InOrder, PumpAgrees, WorkAgrees, OperationAgrees, EndAgrees,
                  Claimed, Ended, Final, NoOp, Rows, Ops, Mems, Counts, MarkUnknown, Lost
    <2> QED BY <1>1, <1>3, <1>5, <2>1
  <1> QED
    BY <1>4, <1>5

\* The process is gone; what was at work goes on by itself, or is gone as well.
LEMMA DownKeeps ==
    ASSUME NEW x \in Rows, NEW o \in Ops, NEW m \in Mems, NEW w \in Works, NEW c \in Counts,
           Consistent(x, o, m, w, c), NEW left \in {"none", "orphan", "leftover"},
           w = "none" => left = "none", w = "leftover" <=> left = "leftover"
    PROVE  Consistent(x, o, NoMem, left, c)
  BY DEF Consistent, InOrder, PumpAgrees, WorkAgrees, OperationAgrees, EndAgrees,
         Claimed, Ended, Final, NoOp, NoMem, Rows, Ops, Mems, Counts, Works

\* Reconciliation has to do with a cancel, or an answer, whose handler died.
LEMMA DyingHandlerKeeps ==
    ASSUME NEW x \in Rows, NEW o \in Ops, NEW w \in Works, NEW c \in Counts,
           Consistent(x, o, NoMem, w, c), x.status # "none", ~Ended(x)
    PROVE  /\ [x EXCEPT !.cancel = TRUE, !.status = "stopping"] \in Rows
           /\ Consistent([x EXCEPT !.cancel = TRUE, !.status = "stopping"], o, NoMem, w, c)
           /\ x.ask = "pending" => /\ [x EXCEPT !.ask = "answered"] \in Rows
                                   /\ Consistent([x EXCEPT !.ask = "answered"], o, NoMem, w, c)
  <1>1. /\ [x EXCEPT !.cancel = TRUE, !.status = "stopping"] \in Rows
        /\ [x EXCEPT !.ask = "answered"] \in Rows
    BY DEF Rows
  <1>2. Consistent([x EXCEPT !.cancel = TRUE, !.status = "stopping"], o, NoMem, w, c)
    BY DEF Consistent, InOrder, PumpAgrees, WorkAgrees, OperationAgrees, EndAgrees,
           Claimed, Ended, Final, NoOp, NoMem, Rows, Ops, Counts, Works
  <1>3. x.ask = "pending" => Consistent([x EXCEPT !.ask = "answered"], o, NoMem, w, c)
    BY DEF Consistent, InOrder, PumpAgrees, WorkAgrees, OperationAgrees, EndAgrees,
           Claimed, Ended, Final, NoOp, NoMem, Rows, Ops, Counts, Works
  <1> QED
    BY <1>1, <1>2, <1>3

\* What Down does to the memory and the work of every run.
LEMMA DownRecords ==
    ASSUME Invariant, NEW orphans, NEW behind, Down(orphans, behind), NEW s \in Runs
    PROVE  /\ mem'[s] = NoMem /\ mem'[s] \in Mems
           /\ work'[s] \in {"none", "orphan", "leftover"} /\ work'[s] \in Works
           /\ s \notin orphans => work'[s] \in {"none", "leftover"}
           /\ s \notin behind => /\ work[s] = "none" => work'[s] = "none"
                                 /\ work[s] = "leftover" <=> work'[s] = "leftover"
                                 /\ Consistent(run[s], op[s], NoMem, work'[s], count[s])
  <1>1. mem'[s] = NoMem
    BY DEF Down
  <1>2. NoMem \in Mems
    BY DEF NoMem, Mems
  <1>3. work'[s] = IF s \in behind \/ work[s] = "leftover" THEN "leftover"
                   ELSE IF s \in orphans /\ work[s] # "none" THEN "orphan" ELSE "none"
    BY DEF Down
  <1>4. /\ work'[s] \in {"none", "orphan", "leftover"} /\ work'[s] \in Works
        /\ s \notin orphans => work'[s] \in {"none", "leftover"}
        /\ s \notin behind => /\ work[s] = "none" => work'[s] = "none"
                              /\ work[s] = "leftover" <=> work'[s] = "leftover"
    BY <1>3 DEF Works
  <1>5. s \notin behind => Consistent(run[s], op[s], NoMem, work'[s], count[s])
    BY <1>4, Typing, DownKeeps
  <1> QED
    BY <1>1, <1>2, <1>4, <1>5

\* A step into "down": what it does to one row and one operation, in this order.
LEMMA DownStep ==
    ASSUME Invariant, NEW orphans, NEW r \in Runs, NEW behind \in SUBSET {r},
           Down(orphans, behind), NEW x \in Rows, NEW o \in Ops, run' = [run EXCEPT ![r] = x],
           op' = [op EXCEPT ![r] = o], x.busy => run[r].busy,
           Consistent(x, o, NoMem, work'[r], count[r]),
           downs' \in 0 .. MaxDowns, UNCHANGED count
    PROVE  Invariant'
  <1>1. /\ run' \in [Runs -> Rows] /\ op' \in [Runs -> Ops] /\ count' \in [Runs -> Counts]
        /\ host' \in {"up", "stopping", "disposing", "down"}
    BY DEF Invariant, TypeOK, Down, Counts
  <1>2. /\ mem' \in [Runs -> Mems] /\ work' \in [Runs -> Works]
    <2>1. /\ mem' = [s \in Runs |-> mem'[s]] /\ work' = [s \in Runs |-> work'[s]]
      BY DEF Down
    <2>2. \A s \in Runs : mem'[s] \in Mems /\ work'[s] \in Works
      BY DownRecords
    <2> QED BY <2>1, <2>2
  <1>3. ASSUME NEW s \in Runs
        PROVE  /\ Consistent(run'[s], op'[s], mem'[s], work'[s], count'[s])
               /\ run'[s].busy => run[s].busy
    <2>1. CASE s = r
      <3>1. run'[s] = x /\ op'[s] = o /\ mem'[s] = NoMem /\ count'[s] = count[r]
        BY <2>1, DownRecords DEF Invariant, TypeOK
      <3> QED BY <2>1, <3>1
    <2>2. CASE s # r
      <3>1. run'[s] = run[s] /\ op'[s] = op[s] /\ mem'[s] = NoMem /\ count'[s] = count[s]
        BY <2>2, DownRecords DEF Invariant, TypeOK
      <3>2. s \notin behind
        BY <2>2
      <3>3. Consistent(run[s], op[s], NoMem, work'[s], count[s])
        BY <3>2, DownRecords
      <3> QED BY <3>1, <3>3
    <2> QED BY <2>1, <2>2
  <1> QED
    BY <1>1, <1>2, <1>3, HostStep

\* A step into "down" that leaves both databases alone.
LEMMA PlainDown ==
    ASSUME Invariant, NEW orphans, Down(orphans, {}), UNCHANGED <<run, op, count>>,
           downs' \in 0 .. MaxDowns
    PROVE  Invariant'
  <1>1. /\ run' \in [Runs -> Rows] /\ op' \in [Runs -> Ops] /\ count' \in [Runs -> Counts]
        /\ host' \in {"up", "stopping", "disposing", "down"}
    BY DEF Invariant, TypeOK, Down, Counts
  <1>2. /\ mem' \in [Runs -> Mems] /\ work' \in [Runs -> Works]
    <2>1. /\ mem' = [s \in Runs |-> mem'[s]] /\ work' = [s \in Runs |-> work'[s]]
      BY DEF Down
    <2>2. \A s \in Runs : mem'[s] \in Mems /\ work'[s] \in Works
      BY DownRecords
    <2> QED BY <2>1, <2>2
  <1>3. \A s \in Runs : /\ Consistent(run'[s], op'[s], mem'[s], work'[s], count'[s])
                        /\ run'[s].busy => run[s].busy
    BY DownRecords
  <1> QED
    BY <1>1, <1>2, <1>3, HostStep

\* The host leaves after dispose(), or crashes.
LEMMA HostDownKeeps == Invariant /\ (HostLeaves \/ HostCrashes) => Invariant'
  <1> SUFFICES ASSUME Invariant, HostLeaves \/ HostCrashes PROVE Invariant'
    OBVIOUS
  <1>1. PICK orphans : Down(orphans, {})
    BY DEF HostLeaves, HostCrashes
  <1>2. UNCHANGED <<run, op, count>>
    BY DEF HostLeaves, HostCrashes
  <1>3. downs' \in 0 .. MaxDowns
    BY MaxDownsAssumption DEF HostLeaves, HostCrashes, Invariant, TypeOK
  <1> QED
    BY <1>1, <1>2, <1>3, PlainDown

\* The host dies inside the handler of a cancel or of an answer.
LEMMA DiesInHandlerKeeps == ASSUME Invariant, NEW r \in Runs, DiesInHandler(r) PROVE Invariant'
  <1> DEFINE x == run[r]  o == op[r]  w == work'[r]  c == count[r]
  <1>1. /\ x \in Rows /\ o \in Ops /\ c \in Counts /\ op = [op EXCEPT ![r] = o]
    BY Typing, Frame
  <1>2. PICK orphans \in SUBSET Runs : Down(orphans, {})
    BY DEF DiesInHandler
  <1>3. w \in Works /\ Consistent(x, o, NoMem, w, c)
    BY <1>2, DownRecords
  <1>4. x.status # "none" /\ ~Ended(x) /\ downs' \in 0 .. MaxDowns /\ UNCHANGED <<op, count>>
    BY MaxDownsAssumption DEF DiesInHandler, Invariant, TypeOK
  <1>5. x.busy
    BY <1>1, <1>3, <1>4 DEF Consistent, EndAgrees, Rows
  <1>6. CASE run' = [run EXCEPT ![r].cancel = TRUE, ![r].status = "stopping"]
    <2> DEFINE x2 == [x EXCEPT !.cancel = TRUE, !.status = "stopping"]
    <2>1. run' = [run EXCEPT ![r] = x2]
      BY <1>6
    <2> HIDE DEF x, o, w, c
    <2>2. x2 \in Rows /\ Consistent(x2, o, NoMem, w, c)
      BY <1>1, <1>3, <1>4, DyingHandlerKeeps
    <2> HIDE DEF x2
    <2> QED BY <1>1, <1>2, <1>4, <1>5, <2>1, <2>2, DownStep DEF x, w, c
  <1>7. CASE x.ask = "pending" /\ run' = [run EXCEPT ![r].ask = "answered"]
    <2> DEFINE x2 == [x EXCEPT !.ask = "answered"]
    <2>1. run' = [run EXCEPT ![r] = x2]
      BY <1>7
    <2> HIDE DEF x, o, w, c
    <2>2. x2 \in Rows /\ Consistent(x2, o, NoMem, w, c)
      BY <1>1, <1>3, <1>4, <1>7, DyingHandlerKeeps
    <2> HIDE DEF x2
    <2> QED BY <1>1, <1>2, <1>4, <1>5, <2>1, <2>2, DownStep DEF x, w, c
  <1> QED
    BY <1>6, <1>7 DEF DiesInHandler

\* What the driver may have written, and left at work, when the process dies.
LeftBehind(o, o2, m, w, left) ==
    \/ /\ m.owned /\ w = "working" /\ o.report = "none" /\ left # "leftover"
       /\ \E report \in Reports : o2 = [o EXCEPT !.report = report]
    \/ /\ m.owned /\ w = "working" /\ left # "leftover"
       /\ \E outcome \in Outcomes : o2 = Over(o, outcome, FALSE)
    \/ /\ m.stop # "no" /\ left \in {"none", "leftover"}
       /\ \E outcome \in Outcomes : o2 = Over(o, outcome, TRUE)

\* An operation that is written while the process that held it dies.
LEMMA LeftOperation ==
    ASSUME NEW x \in Rows, NEW o \in Ops, NEW m \in Mems, NEW w \in Works, NEW c \in Counts,
           Consistent(x, o, m, w, c), NEW left \in {"none", "orphan", "leftover"}, NEW o2 \in Ops,
           LeftBehind(o, o2, m, w, left)
    PROVE  Consistent(x, o2, NoMem, left, c)
  <1>1. Claimed(x) /\ ~o.quiet /\ w \notin {"none", "leftover"} /\ x.busy
    BY DEF Consistent, WorkAgrees, OperationAgrees, Mems, LeftBehind
  <1>2. x.report # "none" => x.report = o2.report
    BY DEF Consistent, OperationAgrees, Over, Ops, LeftBehind
  <1>3. /\ o2.quiet => o2.state = "ended" /\ left \in {"none", "leftover"}
        /\ o2.state = "ended" => o2.outcome # "none"
        /\ left = "leftover" => o2.quiet
    BY <1>1 DEF Consistent, OperationAgrees, Over, Ops, Outcomes, LeftBehind
  <1>4. Consistent(x, o, NoMem, "none", c)
    BY <1>1, DownKeeps
  <1> QED
    BY <1>1, <1>2, <1>3, <1>4
       DEF Consistent, InOrder, PumpAgrees, WorkAgrees, OperationAgrees, EndAgrees,
           Claimed, Ended, Final, NoMem, Rows, Ops, Counts

\* The host dies between its two databases.
LEMMA DiesBetweenKeeps ==
    ASSUME Invariant, NEW r \in Runs, DiesBetweenDatabases(r) PROVE Invariant'
  <1> DEFINE x == run[r]  o == op[r]  m == mem[r]  w == work[r]  c == count[r]
  <1>1. /\ x \in Rows /\ o \in Ops /\ m \in Mems /\ w \in Works /\ c \in Counts
        /\ Consistent(x, o, m, w, c) /\ run = [run EXCEPT ![r] = x]
    BY Typing, Frame
  <1>2. downs' \in 0 .. MaxDowns /\ UNCHANGED <<run, count>>
    BY MaxDownsAssumption DEF DiesBetweenDatabases, Invariant, TypeOK
  <1>3. m.stop # "no" => StopOutcome(r) \in Outcomes
    BY <1>1 DEF StopOutcome, Ops, Mems
  <1>4. ASSUME NEW report \in Reports PROVE [o EXCEPT !.report = report] \in Ops
    BY <1>1, <1>4 DEF Ops
  <1>5. ASSUME NEW outcome \in Outcomes, NEW quiet \in BOOLEAN PROVE Over(o, outcome, quiet) \in Ops
    BY <1>1, <1>5 DEF Ops, Over
  <1>6. ASSUME NEW orphans, NEW behind \in SUBSET {r}, Down(orphans, behind),
               NEW o2 \in Ops, op' = [op EXCEPT ![r] = o2],
               LeftBehind(o, o2, m, w, work'[r])
        PROVE  Invariant'
    <2>1. work'[r] \in {"none", "orphan", "leftover"}
      BY <1>6, DownRecords
    <2> HIDE DEF x, o, m, w, c
    <2>2. Consistent(x, o2, NoMem, work'[r], c)
      BY <1>1, <1>6, <2>1, LeftOperation
    <2> QED BY <1>1, <1>2, <1>6, <2>2, DownStep DEF x, c
  <1>7. CASE /\ Owned(r) /\ mem[r].told /\ o.report = "none"
             /\ \E report \in Reports : op' = [op EXCEPT ![r].report = report]
             /\ \E orphans \in SUBSET Runs : Down(orphans, {})
    <2>1. PICK report \in Reports : op' = [op EXCEPT ![r].report = report]
      BY <1>7
    <2>2. PICK orphans \in SUBSET Runs : Down(orphans, {})
      BY <1>7
    <2> DEFINE o2 == [o EXCEPT !.report = report]
    <2>3. op' = [op EXCEPT ![r] = o2] /\ o2 \in Ops
      BY <1>4, <2>1
    <2>4. LeftBehind(o, o2, m, w, work'[r])
      <3>1. work'[r] # "leftover"
        BY <1>7, <2>2, DownRecords DEF Owned
      <3> QED BY <1>7, <3>1 DEF LeftBehind, Owned
    <2> HIDE DEF o2
    <2> QED BY <1>6, <2>2, <2>3, <2>4
  <1>8. CASE /\ Heard(r)
             /\ \E outcome \in Outcomes : op' = [op EXCEPT ![r] = Over(o, outcome, FALSE)]
             /\ \E orphans \in SUBSET Runs : Down(orphans, {})
    <2>1. PICK outcome \in Outcomes : op' = [op EXCEPT ![r] = Over(o, outcome, FALSE)]
      BY <1>8
    <2>2. PICK orphans \in SUBSET Runs : Down(orphans, {})
      BY <1>8
    <2>3. Over(o, outcome, FALSE) \in Ops
      BY <1>5
    <2>4. LeftBehind(o, Over(o, outcome, FALSE), m, w, work'[r])
      <3>1. work'[r] # "leftover"
        BY <1>8, <2>2, DownRecords DEF Heard, Owned
      <3> QED BY <1>8, <3>1 DEF LeftBehind, Heard, Owned
    <2> QED BY <1>6, <2>1, <2>2, <2>3, <2>4
  <1>9. CASE /\ mem[r].stop # "no"
             /\ op' = [op EXCEPT ![r] = Over(o, StopOutcome(r), TRUE)]
             /\ \E orphans \in SUBSET (Runs \ {r}) :
                  Down(orphans, {}) \/ Down(orphans, {r})
    <2>1. PICK orphans \in SUBSET (Runs \ {r}) : Down(orphans, {}) \/ Down(orphans, {r})
      BY <1>9
    <2>2. work'[r] \in {"none", "leftover"}
      BY <2>1, DownRecords
    <2>3. Over(o, StopOutcome(r), TRUE) \in Ops
      BY <1>3, <1>5, <1>9
    <2>4. LeftBehind(o, Over(o, StopOutcome(r), TRUE), m, w, work'[r])
      BY <1>3, <1>9, <2>2 DEF LeftBehind
    <2> QED BY <1>6, <1>9, <2>1, <2>3, <2>4
  <1> QED
    BY <1>7, <1>8, <1>9 DEF DiesBetweenDatabases

\* stop() aborts the preparations under way.
LEMMA HostStopsKeeps == Invariant /\ HostStops => Invariant'
  <1> SUFFICES ASSUME Invariant, HostStops PROVE Invariant'
    OBVIOUS
  <1>1. /\ run' = run /\ op' = op /\ work' = work /\ count' = count
        /\ host' \in {"up", "stopping", "disposing", "down"} /\ downs' \in 0 .. MaxDowns
    BY MaxDownsAssumption DEF HostStops, Invariant, TypeOK
  <1>2. ASSUME NEW s \in Runs
        PROVE  mem'[s] \in Mems /\ Consistent(run[s], op[s], mem'[s], work[s], count[s])
    <2>1. mem'[s] = IF mem[s].abort = "none" THEN mem[s] ELSE [mem[s] EXCEPT !.abort = "aborted"]
      BY DEF HostStops
    <2> QED BY <2>1, Typing, AbortKeeps
  <1>3. mem' \in [Runs -> Mems]
    <2>1. mem' = [s \in Runs |-> mem'[s]]
      BY DEF HostStops
    <2> QED BY <1>2, <2>1
  <1>4. /\ run \in [Runs -> Rows] /\ op \in [Runs -> Ops]
        /\ work \in [Runs -> Works] /\ count \in [Runs -> Counts]
    BY DEF Invariant, TypeOK, Works, Counts
  <1> QED
    BY <1>1, <1>2, <1>3, <1>4, HostStep

\* dispose() stops every operation the driver holds.
LEMMA DisposeStepKeeps == Invariant /\ Dispose => Invariant'
  <1> SUFFICES ASSUME Invariant, Dispose PROVE Invariant'
    OBVIOUS
  <1> DEFINE fresh(s) == mem[s].owned /\ mem[s].stop = "no"
  <1>1. /\ work' = work /\ count' = count /\ downs' = downs
        /\ host' \in {"up", "stopping", "disposing", "down"}
    BY DEF Dispose
  <1>2. ASSUME NEW s \in Runs
        PROVE  /\ mem[s].pump = "none"
               /\ mem'[s] = IF fresh(s) /\ Attached(s)
                              THEN [mem[s] EXCEPT !.stop = "interrupted"] ELSE mem[s]
               /\ run'[s] = IF fresh(s) /\ ~Attached(s) THEN MarkUnknown(run[s]) ELSE run[s]
               /\ op'[s] = IF fresh(s) /\ ~Attached(s) THEN Lost(op[s]) ELSE op[s]
    BY DEF Dispose
  <1>3. ASSUME NEW s \in Runs
        PROVE  /\ run'[s] \in Rows /\ op'[s] \in Ops /\ mem'[s] \in Mems
               /\ Consistent(run'[s], op'[s], mem'[s], work[s], count[s])
               /\ run'[s].busy => run[s].busy
    <2>1. /\ run[s] \in Rows /\ op[s] \in Ops /\ mem[s] \in Mems /\ work[s] \in Works
          /\ count[s] \in Counts /\ Consistent(run[s], op[s], mem[s], work[s], count[s])
      BY Typing
    <2>2. CASE ~fresh(s)
      BY <1>2, <2>1, <2>2
    <2> DEFINE x == run[s]  o == op[s]  m == mem[s]  w == work[s]  c == count[s]
               m2 == [m EXCEPT !.stop = "interrupted"]
    <2>3. CASE fresh(s) /\ Attached(s)
      <3>1. m.owned /\ m.stop = "no" /\ m.pump = "none" /\ w \in {"working", "idle", "lost"}
        BY <1>2, <2>3 DEF Attached
      <3>2. run'[s] = x /\ op'[s] = o /\ mem'[s] = m2
        BY <1>2, <2>3
      <3>3. /\ x \in Rows /\ o \in Ops /\ m \in Mems /\ w \in Works /\ c \in Counts
            /\ Consistent(x, o, m, w, c)
        BY <2>1
      <3> HIDE DEF x, o, m, w, c
      <3>4. m2 \in Mems /\ Consistent(x, o, m2, w, c)
        BY <3>1, <3>3, DisposeKeeps
      <3> QED BY <3>2, <3>3, <3>4 DEF x, w, c
    <2>4. CASE fresh(s) /\ ~Attached(s)
      <3>1. m.owned /\ m.stop = "no" /\ m.pump = "none" /\ w \notin {"working", "idle", "lost"}
        BY <1>2, <2>4 DEF Attached
      <3>2. run'[s] = MarkUnknown(x) /\ op'[s] = Lost(o) /\ mem'[s] = m
        BY <1>2, <2>4
      <3>3. /\ x \in Rows /\ o \in Ops /\ m \in Mems /\ w \in Works /\ c \in Counts
            /\ Consistent(x, o, m, w, c)
        BY <2>1
      <3> HIDE DEF x, o, m, w, c
      <3>4. /\ MarkUnknown(x) \in Rows /\ Lost(o) \in Ops
            /\ Consistent(MarkUnknown(x), Lost(o), m, w, c)
            /\ MarkUnknown(x).busy => x.busy
        BY <3>1, <3>3, DisposeKeeps
      <3> QED BY <3>2, <3>3, <3>4 DEF x, w, c
    <2> QED BY <2>2, <2>3, <2>4
  <1>4. /\ run' \in [Runs -> Rows] /\ op' \in [Runs -> Ops] /\ mem' \in [Runs -> Mems]
    <2>1. /\ run' = [s \in Runs |-> run'[s]] /\ op' = [s \in Runs |-> op'[s]]
          /\ mem' = [s \in Runs |-> mem'[s]]
      BY DEF Dispose
    <2> QED BY <1>3, <2>1
  <1>5. /\ work \in [Runs -> Works] /\ count \in [Runs -> Counts] /\ downs \in 0 .. MaxDowns
    BY DEF Invariant, TypeOK, Works, Counts
  <1> QED
    BY <1>1, <1>3, <1>4, <1>5, HostStep

-------------------------------------------------------------------------------
(* The theorems.                                                                *)

\* At first no run was accepted.
LEMMA InitKeeps == Init => Invariant
  <1> SUFFICES ASSUME Init PROVE Invariant
    OBVIOUS
  <1>1. NoRun \in Rows /\ NoOp \in Ops /\ NoMem \in Mems
    BY DEF NoRun, NoOp, NoMem, Rows, Ops, Mems
  <1>2. TypeOK
    BY <1>1, MaxDownsAssumption DEF Init, TypeOK
  <1>3. Consistent(NoRun, NoOp, NoMem, "none", [prepared |-> 0, prompted |-> 0])
    BY DEF Consistent, InOrder, PumpAgrees, WorkAgrees, OperationAgrees, EndAgrees,
           Claimed, Ended, Final, NoRun, NoOp, NoMem
  <1>4. OneHolder
    BY DEF Init, OneHolder, NoRun
  <1>5. \A r \in Runs : Consistent(run[r], op[r], mem[r], work[r], count[r])
    BY <1>3 DEF Init
  <1> QED
    BY <1>2, <1>4, <1>5 DEF Invariant

\* The invariant is inductive.
THEOREM InvariantHolds == Spec => []Invariant
  <1>1. Invariant /\ [Next]_vars => Invariant'
    <2> SUFFICES ASSUME Invariant, [Next]_vars PROVE Invariant'
      OBVIOUS
    <2>1. ASSUME NEW r \in Runs, Accept(r) \/ Pump(r) PROVE Invariant'
      BY <2>1, AcceptKeeps, LaunchKeeps, PrepareFailsKeeps, PreparedKeeps, RestoredKeeps,
         ClaimKeeps, JournalKeeps, SendKeeps, AcknowledgeKeeps DEF Pump
    <2>2. ASSUME NEW r \in Runs, Provider(r) \/ StopEnds(r) PROVE Invariant'
      BY <2>2, StartedKeeps, ReportKeeps, AskKeeps, TurnEndsKeeps, SessionDiesKeeps,
         StopEndsKeeps DEF Provider
    <2>3. ASSUME NEW r \in Runs, RequestCancel(r) \/ Answer(r) \/ Reconcile(r) PROVE Invariant'
      BY <2>3, RequestCancelKeeps, AnswerKeeps, ReconcileKeeps
    <2>4. ASSUME NEW r \in Runs, DiesInHandler(r) \/ DiesBetweenDatabases(r) PROVE Invariant'
      BY <2>4, DiesInHandlerKeeps, DiesBetweenKeeps
    <2>5. CASE HostStops \/ Dispose \/ HostLeaves \/ HostCrashes
      BY <2>5, HostStopsKeeps, DisposeStepKeeps, HostDownKeeps
    <2>6. CASE HostStarts \/ UNCHANGED vars
      <3>1. /\ UNCHANGED <<run, op, mem, work, downs, count>>
            /\ host' \in {"up", "stopping", "disposing", "down"}
        BY <2>6 DEF HostStarts, vars, Invariant, TypeOK
      <3> QED BY <3>1 DEF Invariant, TypeOK, OneHolder
    <2> QED
      BY <2>1, <2>2, <2>3, <2>4, <2>5, <2>6 DEF Next
  <1> QED
    BY <1>1, InitKeeps, PTL DEF Spec

\* The variables keep their types.
THEOREM TypesHold == Spec => []TypeOK
  <1>1. Invariant => TypeOK
    BY DEF Invariant
  <1> QED
    BY <1>1, InvariantHolds, PTL

\* Scripts run once and the agent is prompted once for a run, whatever crashes,
\* is retried or reconciled.
THEOREM EveryRunRunsOnce == Spec => []RunsOnce
  <1>1. Invariant => RunsOnce
    BY DEF Invariant, Consistent, InOrder, RunsOnce
  <1> QED
    BY <1>1, InvariantHolds, PTL

\* Two agents, or an agent and scripts, never work at once for one automation; what
\* is left when a run lets go of it was started by a turn whose end is in the journal.
THEOREM WorkHoldsTheAutomation == Spec => []BusyWhileAtWork
  <1>1. Invariant => BusyWhileAtWork
    <2> SUFFICES ASSUME Invariant, NEW r \in Runs
                 PROVE  /\ work[r] \notin {"none", "leftover"} =>
                              run[r].busy /\ \A s \in Runs \ {r} : ~run[s].busy
                        /\ work[r] = "leftover" => op[r].state = "ended" /\ op[r].quiet
      BY DEF BusyWhileAtWork
    <2>1. /\ work[r] \notin {"none", "leftover"} => run[r].busy
          /\ work[r] = "leftover" => op[r].state = "ended" /\ op[r].quiet
      BY Typing DEF Consistent, WorkAgrees, OperationAgrees
    <2>2. ASSUME NEW s \in Runs \ {r}, run[r].busy PROVE ~run[s].busy
      BY <2>2 DEF Invariant, OneHolder
    <2> QED BY <2>1, <2>2
  <1> QED
    BY <1>1, InvariantHolds, PTL

\* A run is called a success on the evidence for it, and on nothing less.
THEOREM SuccessNeedsEvidence == Spec => []SuccessIsEarned
  <1>1. Invariant => SuccessIsEarned
    <2> SUFFICES ASSUME Invariant, NEW r \in Runs, run[r].status = "succeeded"
                 PROVE  /\ op[r].state = "ended" /\ op[r].quiet /\ op[r].outcome = "completed"
                        /\ run[r].report = "completed" /\ op[r].report = "completed"
                        /\ run[r].ask # "pending" /\ ~run[r].cancel
      BY DEF SuccessIsEarned
    <2> QED BY Typing DEF Consistent, EndAgrees, OperationAgrees
  <1> QED
    BY <1>1, InvariantHolds, PTL

\* A cancel that was accepted decides how the run ends.
THEOREM CancelsDecide == Spec => []CancelDecides
  <1>1. Invariant => CancelDecides
    BY DEF Invariant, Consistent, EndAgrees, CancelDecides
  <1> QED
    BY <1>1, InvariantHolds, PTL
===============================================================================

----------------------- MODULE AutomationScheduleProofs ------------------------
(* What the runs of AutomationSchedule check on four definitions, for every set *)
(* of definitions and every bound: the row is coherent, and a failed batch      *)
(* rests.  The invariant is RowCoherent with the types and the finite history:  *)
(* enabled rows plan an occurrence or wait for a scheduled run, and only        *)
(* finished or archived rows plan nothing for good.                             *)
EXTENDS AutomationSchedule, FiniteSetTheorems, TLAPS

Instants == Nat \cup {None}

RowType == [def : Definitions, state : {"enabled", "paused", "finished", "archived"},
            next : Instants, from : Nat, last : Instants, resume : Instants, used : Nat]

-------------------------------------------------------------------------------
(* The operators on instants.                                                   *)

\* A quotient of naturals is a natural.
LEMMA QuotientIsNat ==
    ASSUME NEW a \in Nat, NEW b \in Nat, b > 0
    PROVE  a \div b \in Nat
  BY SMT

\* nextAutomationOccurrence gives an instant or nothing.
LEMMA OccurrenceIsInstant ==
    ASSUME NEW d \in Definitions, NEW after \in Nat, NEW last \in Instants
    PROVE  Occurrence(d, after, last) \in Instants
  <1>1. /\ d.kind \in Kinds /\ d.starts \in Nat /\ d.gap \in Nat
        /\ d.kind = "interval" => d.gap > 0
    BY DefinitionsAssumption
  <1>2. ASSUME NEW at \in Nat PROVE Within(d, at) \in Instants
    BY <1>2 DEF Within, Instants
  <1>3. CompletionAt(d, last) \in Nat
    BY <1>1, DefinitionsAssumption DEF CompletionAt, Later, Instants
  <1>4. d.kind = "interval" => IntervalFrom(d, after) \in Nat
    <2>1. SUFFICES ASSUME d.kind = "interval", after > d.starts
                   PROVE  d.starts + ((after - 1 - d.starts) \div d.gap + 1) * d.gap \in Nat
      BY <1>1 DEF IntervalFrom
    <2>2. after - 1 - d.starts \in Nat
      BY <1>1, <2>1
    <2>3. (after - 1 - d.starts) \div d.gap \in Nat
      BY <1>1, <2>1, <2>2, QuotientIsNat
    <2>4. ASSUME NEW q \in Nat PROVE d.starts + (q + 1) * d.gap \in Nat
      BY <1>1, <2>4
    <2> QED BY <2>3, <2>4
  <1> QED
    BY <1>1, <1>2, <1>3, <1>4 DEF Occurrence, Kinds, Instants

\* scheduleAfterCompletion gives an instant or nothing.
LEMMA AfterCompletionIsInstant ==
    ASSUME NEW d \in Definitions, NEW at \in Nat
    PROVE  AfterCompletion(d, at) \in Instants
  BY OccurrenceIsInstant DEF AfterCompletion, Instants

\* activationSchedule keeps the type of the row, and its definition, state and rounds.
LEMMA ActivationKeepsType ==
    ASSUME NEW r \in RowType, NEW at \in Nat
    PROVE  /\ Activation(r, at) \in RowType
           /\ Activation(r, at).def = r.def /\ Activation(r, at).state = r.state
           /\ Activation(r, at).used = r.used /\ Activation(r, at).resume = None
  <1>1. r.def \in Definitions
    BY DEF RowType
  <1>2. /\ AfterCompletion(r.def, at) \in Instants
        /\ Occurrence(r.def, at + 1, None) \in Instants
    <2>1. at + 1 \in Nat /\ None \in Instants
      BY DEF Instants
    <2> QED BY <1>1, <2>1, AfterCompletionIsInstant, OccurrenceIsInstant
  <1> DEFINE next == IF Waits(r.def) THEN None
                     ELSE IF r.def.kind = "afterCompletion" THEN AfterCompletion(r.def, at)
                     ELSE Occurrence(r.def, at + 1, None)
             from == IF Continuous(r.def) THEN at ELSE at + 1
             last == IF r.def.kind = "afterCompletion" /\ ~Waits(r.def) THEN at ELSE r.last
  <1>3. next \in Instants /\ from \in Nat /\ last \in Instants
    BY <1>2 DEF RowType, Instants
  <1>4. Activation(r, at)
          = [r EXCEPT !.next = next, !.from = from, !.last = last, !.resume = None]
    BY DEF Activation
  <1> HIDE DEF next, from, last
  <1> QED
    BY <1>3, <1>4 DEF RowType, Instants
-------------------------------------------------------------------------------
(* Types.                                                                       *)

\* The ledger is finite: RowCoherent counts it.
Typed == TypeOK /\ IsFiniteSet(ledger)

\* The initial row has its types.
LEMMA InitTyped == Init => Typed
  <1> SUFFICES ASSUME Init PROVE Typed
    OBVIOUS
  <1>1. row \in RowType
    <2>1. PICK d \in Definitions :
            row = [def |-> d, state |-> "paused", next |-> Occurrence(d, 1, None), from |-> 1,
                   last |-> None, resume |-> None, used |-> 0]
      BY DEF Init
    <2>2. Occurrence(d, 1, None) \in Instants
      BY OccurrenceIsInstant DEF Instants
    <2> QED BY <2>1, <2>2 DEF RowType, Instants
  <1>2. IsFiniteSet(ledger)
    BY FS_EmptySet DEF Init
  <1> QED
    <2>1. MaxTime \in Nat /\ MaxEdits \in Nat /\ MaxMishaps \in Nat
      BY DefinitionsAssumption
    <2>2. now \in 0 .. MaxTime /\ edits \in 0 .. MaxEdits /\ mishaps \in 0 .. MaxMishaps
      BY <2>1 DEF Init
    <2>3. /\ ledger = {} /\ active = "none" /\ confirmed = FALSE /\ halted = FALSE
          /\ timer = "set"
      BY DEF Init
    <2> QED BY <1>1, <1>2, <2>2, <2>3 DEF Typed, TypeOK, RowType, Instants

\* The types of what the actions compute with.
LEMMA Typing ==
    ASSUME TypeOK
    PROVE  /\ row \in RowType /\ now \in Nat /\ now \in Instants
           /\ row.def \in Definitions /\ row.used \in Nat /\ row.from \in Nat
           /\ {row.last, row.next, row.resume} \subseteq Instants
           /\ row.def.rounds \in Nat /\ row.def.kind \in Kinds
  <1>1. row \in RowType
    BY DEF TypeOK, RowType, Instants
  <1>2. now \in Nat /\ now \in Instants
    <2>1. MaxTime \in Nat
      BY DefinitionsAssumption
    <2> QED BY <2>1 DEF TypeOK, Instants
  <1>3. /\ row.def \in Definitions /\ row.used \in Nat /\ row.from \in Nat
        /\ {row.last, row.next, row.resume} \subseteq Instants
    BY <1>1 DEF RowType
  <1> QED
    BY <1>1, <1>2, <1>3, DefinitionsAssumption

\* The row after a decision has its types, and one more round used.
LEMMA AdvancedKeepsType ==
    ASSUME TypeOK, NEW at \in Nat, NEW accepted \in BOOLEAN
    PROVE  /\ Advanced(at, accepted) \in RowType
           /\ Advanced(at, accepted).used = row.used + 1
           /\ Advanced(at, accepted).def = row.def
           /\ Advanced(at, accepted).resume = row.resume
  <1> DEFINE relative == row.def.kind = "afterCompletion"
             next == IF relative /\ ~accepted THEN AfterCompletion(row.def, now)
                     ELSE Occurrence(row.def, at + 1, row.last)
             over == \/ row.used + 1 >= row.def.rounds
                     \/ next = None /\ ~(relative /\ accepted)
             halt == ~over /\ Continuous(row.def) /\ ~accepted
             newNext == IF over \/ halt \/ (relative /\ accepted) THEN None ELSE next
             newLast == IF relative /\ ~accepted THEN now ELSE row.last
             newState == IF over THEN "finished" ELSE IF halt THEN "paused" ELSE row.state
  <1>1. row \in RowType /\ now \in Nat /\ row.def \in Definitions /\ row.last \in Instants
    BY Typing
  <1>2. next \in Instants
    <2>1. at + 1 \in Nat
      OBVIOUS
    <2> QED BY <1>1, <2>1, AfterCompletionIsInstant, OccurrenceIsInstant
  <1>3. newNext \in Instants /\ newLast \in Instants
    BY <1>1, <1>2 DEF Instants
  <1>4. newState \in {"enabled", "paused", "finished", "archived"}
    BY <1>1 DEF RowType
  <1>5. Advanced(at, accepted)
          = [row EXCEPT !.used = row.used + 1, !.from = at + 1, !.next = newNext,
                        !.last = newLast, !.state = newState]
    BY DEF Advanced
  <1> HIDE DEF newNext, newLast, newState
  <1>6. at + 1 \in Nat /\ row.used + 1 \in Nat
    BY <1>1, Typing
  <1>7. Advanced(at, accepted) \in RowType
    BY <1>1, <1>3, <1>4, <1>5, <1>6 DEF RowType
  <1> QED
    BY <1>1, <1>5, <1>7 DEF RowType

\* The row after the end of a run has its types, and the same rounds used.
LEMMA PlannedKeepsType ==
    ASSUME TypeOK, NEW good \in BOOLEAN
    PROVE  /\ Planned(good) \in RowType
           /\ Planned(good).used = row.used /\ Planned(good).def = row.def
           /\ Planned(good).resume = row.resume
  <1> DEFINE next == AfterCompletion(row.def, now)
             halt == Continuous(row.def) /\ ~good
             over == Exhausted(row) \/ next = None
             newNext == IF row.state = "enabled" /\ ~halt /\ ~over THEN next ELSE None
             newState == IF halt THEN "paused"
                         ELSE IF row.state = "enabled" /\ over THEN "finished" ELSE row.state
  <1>1. row \in RowType /\ now \in Nat /\ row.def \in Definitions
    BY Typing
  <1>2. newNext \in Instants /\ now \in Instants
    BY <1>1, AfterCompletionIsInstant DEF Instants
  <1>3. newState \in {"enabled", "paused", "finished", "archived"}
    BY <1>1 DEF RowType
  <1>4. Planned(good)
          = [row EXCEPT !.last = now, !.next = newNext, !.state = newState]
    BY DEF Planned
  <1> HIDE DEF newNext, newState
  <1> QED
    BY <1>1, <1>2, <1>3, <1>4 DEF RowType
-------------------------------------------------------------------------------
(* The steps.                                                                   *)

Invariant == Typed /\ RowCoherent /\ FailedBatchRests

\* What a step leaves to be shown when the history stays as it is.
LEMMA SameHistory ==
    ASSUME Invariant, ledger' = ledger, row' \in RowType, row'.used = row.used,
           now' \in 0 .. MaxTime, active' \in {"none", "scheduled", "manual"},
           confirmed' \in BOOLEAN, halted' \in BOOLEAN, timer' \in {"starting", "set", "lost"},
           edits' \in 0 .. MaxEdits, mishaps' \in 0 .. MaxMishaps,
           row'.state = "enabled" => /\ row'.used < row'.def.rounds /\ row'.resume = None
                                     /\ ~halted'
                                     /\ \/ row'.next # None
                                        \/ row'.def.kind = "afterCompletion" /\ active' = "scheduled",
           row'.state \in {"finished", "archived"} => row'.next = None /\ row'.resume = None
    PROVE  Invariant'
  <1>1. TypeOK'
    BY DEF Invariant, Typed, TypeOK, RowType, Instants
  <1>2. IsFiniteSet(ledger') /\ row'.used = Cardinality(ledger')
    BY DEF Invariant, Typed, RowCoherent
  <1>3. row'.used \in Nat /\ row'.def.rounds \in Nat
    BY <1>1, DefinitionsAssumption DEF RowType
  <1>4. RowCoherent'
    BY <1>2, <1>3 DEF RowCoherent, Exhausted
  <1>5. FailedBatchRests'
    BY DEF FailedBatchRests
  <1> QED
    BY <1>1, <1>2, <1>4, <1>5 DEF Invariant, Typed

\* What the invariant says of the state before a step.
LEMMA Before ==
    ASSUME Invariant
    PROVE  /\ TypeOK
           /\ now \in 0 .. MaxTime /\ edits \in 0 .. MaxEdits /\ mishaps \in 0 .. MaxMishaps
           /\ active \in {"none", "scheduled", "manual"}
           /\ confirmed \in BOOLEAN /\ halted \in BOOLEAN
           /\ timer \in {"starting", "set", "lost"}
           /\ row.state = "enabled" => /\ row.used < row.def.rounds /\ row.resume = None
                                       /\ ~halted
                                       /\ \/ row.next # None
                                          \/ row.def.kind = "afterCompletion" /\ active = "scheduled"
           /\ row.state \in {"finished", "archived"} => row.next = None /\ row.resume = None
  <1>1. TypeOK
    BY DEF Invariant, Typed
  <1> QED
    BY <1>1, Typing DEF Invariant, RowCoherent, FailedBatchRests, Exhausted, TypeOK

\* The clock moves, and the host is started and comes to the end of its first tick.
LEMMA HostKeeps ==
    Invariant /\ (Time \/ ClockSetBack \/ HostStarts \/ FirstTickEnds) => Invariant'
  <1> SUFFICES ASSUME Invariant, Time \/ ClockSetBack \/ HostStarts \/ FirstTickEnds
               PROVE  Invariant'
    OBVIOUS
  <1>1. MaxTime \in Nat /\ MaxMishaps \in Nat
    BY DefinitionsAssumption
  <1>2. /\ now' \in 0 .. MaxTime /\ mishaps' \in 0 .. MaxMishaps
        /\ timer' \in {"starting", "set", "lost"}
    BY <1>1, Before DEF Time, ClockSetBack, HostStarts, FirstTickEnds, Mishap
  <1>3. UNCHANGED <<row, ledger, active, confirmed, halted, edits>>
    BY DEF Time, ClockSetBack, HostStarts, FirstTickEnds, rowVars
  <1> QED
    BY <1>2, <1>3, Before, Typing, SameHistory

\* A pause comes to its end: what is enabled has rounds, and an occurrence or a
\* run to wait for.
LEMMA ResumeKeeps == Invariant /\ Resume => Invariant'
  <1> SUFFICES ASSUME Invariant, Resume PROVE Invariant'
    OBVIOUS
  <1> DEFINE at == IF row.def.kind = "afterCompletion" THEN now ELSE row.resume
             r == Activation(row, at)
  <1>1. row \in RowType /\ at \in Nat
    <2>1. row.resume \in Nat
      BY Before, Typing DEF Resume, Rested, Instants
    <2> QED BY <2>1, Before, Typing
  <1>2. /\ r \in RowType /\ r.def = row.def /\ r.state = "paused"
        /\ r.used = row.used /\ r.resume = None
    BY <1>1, ActivationKeepsType DEF Resume, Rested
  <1> HIDE DEF at
  <1>3. /\ row' = IF r.def.kind = "once" /\ r.next = None THEN r
                  ELSE IF (r.next # None \/ Waits(r.def)) /\ ~Exhausted(r)
                    THEN [r EXCEPT !.state = "enabled"]
                    ELSE [r EXCEPT !.state = "finished", !.next = None]
        /\ halted' = (halted /\ row'.state # "enabled")
        /\ UNCHANGED <<now, ledger, active, confirmed, edits, mishaps, timer>>
    BY DEF Resume, at
  <1> HIDE DEF r
  <1>4. row' \in RowType /\ row'.used = row.used /\ row'.resume = None
    BY <1>2, <1>3 DEF RowType, Instants
  <1>5. row'.state = "enabled" => /\ row'.used < row'.def.rounds
                                  /\ row'.next # None \/ Waits(row'.def)
    <2>1. r.used \in Nat /\ r.def.rounds \in Nat
      BY <1>2, Before, Typing
    <2> QED BY <1>2, <1>3, <2>1 DEF Exhausted, RowType
  <1>6. row'.state = "finished" => row'.next = None
    BY <1>2, <1>3 DEF RowType
  <1>7. row'.state # "archived"
    BY <1>2, <1>3 DEF RowType
  <1> QED
    BY <1>3, <1>4, <1>5, <1>6, <1>7, Before, SameHistory DEF Waits

\* A decision: the round is used and in the history, and what goes on has an
\* occurrence or a run; a batch that could not go on is paused and marked.
LEMMA DecideKeeps ==
    ASSUME Invariant, row.state = "enabled", NEW at \in Nat, Decide(at), ~Exhausted(row),
           UNCHANGED <<now, confirmed, edits, mishaps, timer>>
    PROVE  Invariant'
  <1> DEFINE accepted == Verdict(at) = "accepted"
             entry == [planned |-> at, verdict |-> Verdict(at)]
             adv == Advanced(at, accepted)
  <1>1. accepted \in BOOLEAN /\ TypeOK
    BY Before
  <1>2. /\ adv \in RowType /\ adv.used = row.used + 1
        /\ adv.def = row.def /\ adv.resume = row.resume
    BY <1>1, AdvancedKeepsType
  <1>3. /\ row' = adv /\ ledger' = ledger \cup {entry} /\ entry \notin ledger
        /\ active' = IF accepted THEN "scheduled" ELSE active
        /\ halted' = (halted \/ adv.state = "paused")
    BY DEF Decide
  <1>4. Verdict(at) \in Verdicts
    BY DEF Verdict, Verdicts
  <1>5. adv.state = "enabled" => /\ adv.used < adv.def.rounds
                                 /\ adv.next # None \/ (adv.def.kind = "afterCompletion" /\ accepted)
    <2> DEFINE relative == row.def.kind = "afterCompletion"
               next == IF relative /\ ~accepted THEN AfterCompletion(row.def, now)
                       ELSE Occurrence(row.def, at + 1, row.last)
               over == \/ row.used + 1 >= row.def.rounds
                       \/ next = None /\ ~(relative /\ accepted)
               halt == ~over /\ Continuous(row.def) /\ ~accepted
               newNext == IF over \/ halt \/ (relative /\ accepted) THEN None ELSE next
    <2>1. row \in RowType /\ row.used + 1 \in Nat /\ row.def.rounds \in Nat
      BY <1>1, Typing
    <2>2. adv.next = newNext
      BY <2>1 DEF Advanced, RowType
    <2>3. adv.state = IF over THEN "finished" ELSE IF halt THEN "paused" ELSE "enabled"
      BY <2>1 DEF Advanced, RowType
    <2> HIDE DEF next
    <2>4. SUFFICES ASSUME ~over, ~halt
                   PROVE  /\ row.used + 1 < row.def.rounds
                          /\ newNext # None \/ (relative /\ accepted)
      BY <1>2, <2>2, <2>3
    <2>5. row.used + 1 < row.def.rounds
      BY <2>1, <2>4
    <2>6. next # None \/ (relative /\ accepted)
      BY <2>4
    <2>7. newNext = IF relative /\ accepted THEN None ELSE next
      BY <2>4
    <2> HIDE DEF newNext, relative, over, halt
    <2> QED BY <2>5, <2>6, <2>7
  <1>6. adv.state = "finished" => adv.next = None
    <2>1. row \in RowType
      BY <1>1, Typing
    <2> QED BY <2>1 DEF Advanced, RowType
  <1>7. adv.state # "archived"
    <2>1. row \in RowType
      BY <1>1, Typing
    <2> QED BY <2>1 DEF Advanced, RowType
  <1> HIDE DEF adv, accepted
  <1>8. TypeOK'
    <2>1. entry \in [planned : Nat, verdict : Verdicts]
      BY <1>4
    <2>2. /\ ledger' \subseteq [planned : Nat, verdict : Verdicts] /\ row' \in RowType
          /\ active' \in {"none", "scheduled", "manual"} /\ halted' \in BOOLEAN
      BY <1>2, <1>3, <2>1, Before DEF TypeOK
    <2> QED BY <2>2, Before DEF TypeOK, RowType, Instants
  <1>9. IsFiniteSet(ledger') /\ row'.used = Cardinality(ledger')
    BY <1>2, <1>3, FS_AddElement DEF Invariant, Typed, RowCoherent
  <1>10. RowCoherent'
    <2>1. row'.used \in Nat /\ row'.def.rounds \in Nat
      BY <1>8, DefinitionsAssumption DEF TypeOK
    <2>2. row'.resume = None
      BY <1>2, <1>3, Before
    <2>3. ~(row'.used >= row'.def.rounds) \/ row'.state # "enabled"
      BY <1>3, <1>5, <2>1
    <2>4. row'.state = "enabled" =>
            row'.next # None \/ (row'.def.kind = "afterCompletion" /\ active' = "scheduled")
      BY <1>3, <1>5
    <2>5. row'.state \in {"finished", "archived"} => row'.next = None /\ row'.resume = None
      BY <1>3, <1>6, <1>7, <2>2
    <2> QED BY <1>9, <2>2, <2>3, <2>4, <2>5 DEF RowCoherent, Exhausted
  <1>11. FailedBatchRests'
    BY <1>3, Before DEF FailedBatchRests
  <1> QED
    BY <1>8, <1>9, <1>10, <1>11 DEF Invariant, Typed

\* A turn of the scheduler's loop over a due row.
LEMMA ProcessDueKeeps == Invariant /\ ProcessDue => Invariant'
  <1> SUFFICES ASSUME Invariant, ProcessDue PROVE Invariant'
    OBVIOUS
  <1> DEFINE at == Occurrence(row.def, row.from, row.last)
  <1>1. at \in Instants /\ row \in RowType
    BY Before, Typing, OccurrenceIsInstant
  <1> HIDE DEF at
  <1>2. /\ row.state = "enabled" /\ UNCHANGED <<now, confirmed, edits, mishaps, timer>>
        /\ IF Exhausted(row) \/ at = None
             THEN row' = [row EXCEPT !.state = "finished", !.next = None]
                  /\ UNCHANGED <<ledger, active, halted>>
           ELSE IF at > now
             THEN row' = [row EXCEPT !.next = at] /\ UNCHANGED <<ledger, active, halted>>
             ELSE Decide(at)
    BY DEF ProcessDue, Due, at
  <1>3. CASE Exhausted(row) \/ at = None
    <2>1. /\ row' \in RowType /\ row'.used = row.used /\ row'.state = "finished"
          /\ row'.next = None /\ row'.resume = None
      BY <1>1, <1>2, <1>3, Before DEF RowType, Instants
    <2> QED BY <1>2, <1>3, <2>1, Before, SameHistory
  <1>4. CASE ~(Exhausted(row) \/ at = None) /\ at > now
    <2>1. /\ row' \in RowType /\ row'.used = row.used /\ row'.state = "enabled"
          /\ row'.next # None /\ row'.resume = None /\ row'.def = row.def
      BY <1>1, <1>2, <1>4, Before DEF RowType, Instants
    <2> QED BY <1>2, <1>4, <2>1, Before, SameHistory
  <1>5. CASE ~(Exhausted(row) \/ at = None) /\ ~(at > now)
    <2>1. at \in Nat /\ Decide(at)
      BY <1>1, <1>2, <1>5 DEF Instants
    <2> QED BY <1>2, <1>5, <2>1, DecideKeeps
  <1> QED
    BY <1>3, <1>4, <1>5

\* A run ends, and moves the schedule on if it was a scheduled one.
LEMMA RunEndsKeeps ==
    ASSUME Invariant, NEW good \in BOOLEAN, RunEnds(good)
    PROVE  Invariant'
  <1>1. TypeOK /\ row \in RowType /\ row.used \in Nat /\ row.def.rounds \in Nat
    BY Before, Typing
  <1>2. /\ active' = "none" /\ UNCHANGED <<now, ledger, confirmed, edits, mishaps, timer>>
    BY DEF RunEnds
  <1>3. CASE active = "scheduled" /\ row.def.kind = "afterCompletion" /\ row.state # "archived"
    <2> DEFINE p == Planned(good)
    <2>1. p \in RowType /\ p.used = row.used /\ p.def = row.def /\ p.resume = row.resume
      BY <1>1, PlannedKeepsType
    <2>2. row' = p /\ halted' = (halted \/ (Continuous(row.def) /\ ~good))
      BY <1>3 DEF RunEnds
    <2>3. p.state = "enabled" => /\ row.state = "enabled" /\ p.next # None
                                 /\ row.used < row.def.rounds
                                 /\ ~(Continuous(row.def) /\ ~good)
      BY <1>1 DEF Planned, RowType, Exhausted
    <2>4. p.state = "finished" => p.next = None /\ row.state \in {"enabled", "finished"}
      BY <1>1 DEF Planned, RowType
    <2>5. p.state # "archived"
      BY <1>1, <1>3 DEF Planned, RowType
    <2> HIDE DEF p
    <2> QED BY <1>2, <2>1, <2>2, <2>3, <2>4, <2>5, Before, SameHistory
  <1>4. CASE ~(active = "scheduled" /\ row.def.kind = "afterCompletion" /\ row.state # "archived")
    <2>1. UNCHANGED <<row, halted>>
      BY <1>4 DEF RunEnds
    <2>2. row.state = "enabled" => row.next # None
      BY <1>4, Before
    <2> QED BY <1>1, <1>2, <2>1, <2>2, Before, SameHistory
  <1> QED
    BY <1>3, <1>4

\* The commands of the user.
LEMMA UserKeeps == Invariant /\ User => Invariant'
  <1> SUFFICES ASSUME Invariant, User PROVE Invariant'
    OBVIOUS
  <1>1. TypeOK /\ row \in RowType /\ row.used \in Nat /\ now \in Nat
    BY Before, Typing
  <1>2. edits' \in 0 .. MaxEdits /\ UNCHANGED <<now, ledger, mishaps, timer>>
    <2>1. Command /\ UNCHANGED <<now, ledger, mishaps, timer>>
      BY DEF User, RunNow, Enable, Archive, Update, Pause
    <2> QED BY <2>1, Before, DefinitionsAssumption DEF Command
  <1>3. CASE RunNow
    <2>1. UNCHANGED <<row, confirmed, halted>> /\ active = "none" /\ active' = "manual"
      BY <1>3 DEF RunNow
    <2> QED BY <1>1, <1>2, <2>1, Before, SameHistory
  <1>4. CASE Enable
    <2> DEFINE r == Activation(row, now)
    <2>1. /\ r \in RowType /\ r.def = row.def /\ r.state = row.state
          /\ r.used = row.used /\ r.resume = None
      BY <1>1, ActivationKeepsType
    <2>2. /\ row' = [r EXCEPT !.state = "enabled"] /\ confirmed' = TRUE /\ halted' = FALSE
          /\ r.next # None \/ Waits(row.def)
          /\ ~Exhausted(row) /\ UNCHANGED active
      BY <1>4 DEF Enable
    <2> HIDE DEF r
    <2>3. /\ row' \in RowType /\ row'.used = row.used /\ row'.def = row.def
          /\ row'.resume = None /\ row'.next = r.next /\ row'.state = "enabled"
      BY <2>1, <2>2 DEF RowType
    <2>4. row.used < row.def.rounds
      BY <1>1, <2>2, Typing DEF Exhausted
    <2>5. row'.used < row'.def.rounds
      BY <2>3, <2>4
    <2>6. row'.next # None \/ (row'.def.kind = "afterCompletion" /\ active' = "scheduled")
      BY <2>2, <2>3 DEF Waits
    <2> QED BY <1>2, <2>2, <2>3, <2>5, <2>6, Before, SameHistory
  <1>5. CASE Archive
    <2>1. /\ row' \in RowType /\ row'.used = row.used /\ row'.state = "archived"
          /\ row'.next = None /\ row'.resume = None
      BY <1>1, <1>5 DEF Archive, RowType, Instants
    <2> QED BY <1>2, <1>5, <2>1, Before, SameHistory DEF Archive
  <1>6. ASSUME NEW d \in Definitions, Update(d) PROVE Invariant'
    <2>1. now + 1 \in Nat /\ Occurrence(d, now + 1, None) \in Instants
      <3>1. now + 1 \in Nat /\ None \in Instants
        BY <1>1 DEF Instants
      <3> QED BY <3>1, OccurrenceIsInstant
    <2>2. /\ row' \in RowType /\ row'.used = row.used /\ row'.state = "paused"
      BY <1>1, <1>6, <2>1 DEF Update, RowType, Instants
    <2>3. confirmed' = FALSE /\ UNCHANGED <<active, halted>>
      BY <1>6 DEF Update
    <2> QED BY <1>2, <2>2, <2>3, Before, SameHistory
  <1>7. ASSUME NEW t \in (0 .. MaxTime) \cup {None}, Pause(t) PROVE Invariant'
    <2>1. t \in Instants
      BY DefinitionsAssumption DEF Instants
    <2>2. /\ row' \in RowType /\ row'.used = row.used /\ row'.state = "paused"
      BY <1>1, <1>7, <2>1 DEF Pause, RowType
    <2>3. UNCHANGED <<active, confirmed, halted>>
      BY <1>7 DEF Pause
    <2> QED BY <1>2, <2>2, <2>3, Before, SameHistory
  <1> QED
    BY <1>3, <1>4, <1>5, <1>6, <1>7 DEF User

-------------------------------------------------------------------------------
(* The theorems.                                                                *)

\* The invariant is inductive.
THEOREM InvariantHolds == Spec => []Invariant
  <1>1. Init => Invariant
    <2> SUFFICES ASSUME Init PROVE Invariant
      OBVIOUS
    <2>1. Typed
      BY InitTyped
    <2>2. row.state = "paused" /\ row.used = 0 /\ ledger = {} /\ halted = FALSE
      BY DEF Init
    <2>3. row.used = Cardinality(ledger)
      BY <2>2, FS_EmptySet
    <2> QED BY <2>1, <2>2, <2>3 DEF Invariant, RowCoherent, FailedBatchRests
  <1>2. Invariant /\ [Next]_vars => Invariant'
    <2> SUFFICES ASSUME Invariant, [Next]_vars PROVE Invariant'
      OBVIOUS
    <2>1. CASE Time \/ ClockSetBack \/ HostStarts \/ FirstTickEnds
      BY <2>1, HostKeeps
    <2>2. CASE Resume
      BY <2>2, ResumeKeeps
    <2>3. CASE ProcessDue
      BY <2>3, ProcessDueKeeps
    <2>4. CASE User
      BY <2>4, UserKeeps
    <2>5. ASSUME NEW good \in BOOLEAN, RunEnds(good) PROVE Invariant'
      BY <2>5, RunEndsKeeps
    <2>6. CASE UNCHANGED vars
      BY <2>6 DEF vars, Invariant, Typed, TypeOK, RowCoherent, Exhausted, FailedBatchRests
    <2> QED
      BY <2>1, <2>2, <2>3, <2>4, <2>5, <2>6 DEF Next, Tick
  <1> QED
    BY <1>1, <1>2, PTL DEF Spec

\* The variables keep their types.
THEOREM TypesHold == Spec => []TypeOK
  <1>1. Invariant => TypeOK
    BY DEF Invariant, Typed
  <1> QED
    BY <1>1, InvariantHolds, PTL

\* An enabled automation has rounds left and something to wait for, one that is
\* over plans nothing, and every round used is in the history: for every set of
\* definitions, clock and order of commands.
THEOREM RowStaysCoherent == Spec => []RowCoherent
  <1>1. Invariant => RowCoherent
    BY DEF Invariant
  <1> QED
    BY <1>1, InvariantHolds, PTL

\* A continuous batch that has failed does not go on by itself.
THEOREM FailedBatchesRest == Spec => []FailedBatchRests
  <1>1. Invariant => FailedBatchRests
    BY DEF Invariant
  <1> QED
    BY <1>1, InvariantHolds, PTL
===============================================================================

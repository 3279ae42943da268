----------------------- MODULE DaemonSupervisorProofs -----------------------
(***************************************************************************)
(* Proofs about DaemonSupervisor, for any number of daemons, crashes,      *)
(* restarts, updates and host-service restarts, any crash budget and any   *)
(* circumstances.                                                          *)
(*                                                                         *)
(* Three inductive arguments.  Types hold whatever happens.  While none of *)
(* the Circumstances has been met (Core), one task of the supervisor at a  *)
(* time may start a process (Tasks), and a process that has bound the      *)
(* socket path or may yet bind it is known to that task or is the          *)
(* registered instance (Premises) or the one the manifest lists (Listed):  *)
(* no two of them ever compete for the path, and no start fails to know a  *)
(* daemon that is slow to answer.  And until a restart, or an update of a  *)
(* daemon of its own, the manifest follows the registration (Kept),        *)
(* whichever of the other circumstances arise.                             *)
(***************************************************************************)
EXTENDS DaemonSupervisor, TLAPS

\* A process that has the socket path or may still bind or unlink it.
Contender(p) == proc[p] \in {"booting", "waiting", "up", "leaving"}
Handing      == upd.pc \in {"exiting", "probing"}

-----------------------------------------------------------------------------
(* What holds while nothing untoward has been met. *)

\* Who works: start() has no instance to work beside, and an update excludes
\* start() and restart().
Tasks ==
    /\ start.pc # "idle" => instance = None /\ upd.pc = "idle"
    /\ upd.pc # "idle" => /\ restart.pc = "idle"
                          /\ upd.pid \in Pids /\ instance = upd.pid
                          /\ upd.pid \notin wired /\ poll = NoPoll
    /\ restart.pc # "idle" => used.restart > 0
    /\ restart.pc = "stopping" => restart.pid \in Pids
    /\ start.pc = "spawning" => start.pid \in Pids
    /\ circuitOpen => instance = None /\ start.pc = "idle"

\* What a registered or watched process is.
Registered ==
    /\ instance # None => proc[instance] # "unborn"
    /\ \A p \in wired : proc[p] # "unborn" /\ (Contender(p) => instance = p)

\* Where a process stands in the task that started it.
Stages ==
    /\ \A p \in Pids : proc[p] = "booting" => start.pc = "spawning" /\ start.pid = p
    /\ start.pc = "spawning" => proc[start.pid] \in {"booting", "up", "dead"}
    /\ \A p \in Pids : proc[p] = "waiting" => Handing /\ upd.succ = p
    /\ \A p \in Pids : proc[p] = "leaving" => upd.pc = "exiting" /\ upd.pid = p
    /\ Handing => /\ upd.succ \in Pids /\ upd.succ # upd.pid
                  /\ pred[upd.succ] = upd.pid
                  /\ proc[upd.succ] \in {"waiting", "up", "dead"}
                  /\ proc[upd.pid] \in {"leaving", "dead"}
                  /\ proc[upd.succ] = "up" => proc[upd.pid] = "dead"
    /\ upd.pc = "probing" => proc[upd.pid] = "dead"

\* Who may contend for the path.
Premises ==
    /\ upd.pc = "idle" => \A p, q \in Pids : Contender(p) /\ Contender(q) => p = q
    /\ instance # None /\ ~Handing => \A p \in Pids : Contender(p) => p = instance
    /\ Handing => \A p \in Pids : Contender(p) => p \in {upd.pid, upd.succ}
    /\ start.pc = "conceded" => \A p \in Pids : ~Contender(p)
    /\ start.pc = "spawning" => \A p \in Pids : Contender(p) => p = start.pid

\* The manifest, and the pid a start has read in it, lead to no other process
\* than the one that serves, and until a restart they do lead to it.
Listed ==
    /\ instance # None => manifest \in {None, instance}
    /\ upd.pc # "idle" => upd.saved \in {None, instance}
    /\ instance = None /\ start.pc \in {"idle", "probing"} =>
           \A p \in Pids : Contender(p) =>
               /\ manifest \in {None, p} /\ (used.restart = 0 => manifest = p)
               /\ start.pc = "probing" =>
                      start.pid \in {None, p} /\ (used.restart = 0 => start.pid = p)

Core ==
    /\ met = {}
    /\ Tasks
    /\ Registered
    /\ Stages
    /\ Premises
    /\ NoOrphan
    /\ Listed

-----------------------------------------------------------------------------
(* What holds until a restart or an update of an own daemon. *)

Unstopped == used.restart = 0 /\ "update_own" \notin met

\* Without a restart, who works when.
Turns ==
    /\ restart.pc = "idle"
    /\ start.pc # "idle" => instance = None /\ upd.pc = "idle"
    /\ start.pc = "probing" => manifest = start.pid
    /\ start.pc = "spawning" => start.pid \in Pids /\ proc[start.pid] # "unborn"
    /\ upd.pc # "idle" => instance # None /\ instance = upd.pid /\ wired = {} /\ poll = NoPoll
    /\ Handing => upd.succ \in Pids
    /\ wired \subseteq {instance} \ {None}
    /\ poll.clears => wired = {}

\* What the manifest says of the registered daemon.
Recorded ==
    instance # None /\ ~Handing /\ Running(instance) =>
        /\ manifest = instance
        /\ upd.pc = "asked" => upd.saved = instance

Kept == Turns /\ Recorded

Invariant ==
    /\ TypeOK
    /\ Ordinary => Core
    /\ Unstopped => Kept

USE SupervisorAssumption DEF Pids, None, Running, Contender, Handing


-----------------------------------------------------------------------------
(* Types. *)

LEMMA EnsureTypes ==
    ASSUME TypeOK, Ensure
    PROVE  TypeOK'
BY DEF TypeOK, Ensure, BeginStart, machine, supervisor, tasks

LEMMA AdoptAnsweringTypes ==
    ASSUME TypeOK, AdoptAnswering
    PROVE  TypeOK'
<1>1. /\ proc' \in [Pids -> {"unborn", "booting", "waiting", "up", "leaving",
                           "draining", "dead"}]
      /\ pred' \in [Pids -> Pids \cup {None}]
      /\ {path', manifest', instance'} \subseteq Pids \cup {None}
  BY DEF TypeOK, AdoptAnswering, Answers, Adopt, MayUpdate, Overlaps, Meets,
     BeginUpdate, Uses, NoStart, NoPoll, machine, supervisor, tasks
<1>2. poll' \in [pid : Pids \cup {None}, clears : BOOLEAN]
  <2>1. path \in Pids
    BY DEF TypeOK, AdoptAnswering, Answers
  <2>2. poll' = [pid |-> path, clears |-> TRUE] \/ poll' = [pid |-> None, clears |-> FALSE]
    BY DEF AdoptAnswering, Adopt, BeginUpdate, NoPoll
  <2>3. /\ [pid |-> path, clears |-> TRUE] \in [pid : Pids \cup {None}, clears : BOOLEAN]
        /\ [pid |-> None, clears |-> FALSE] \in [pid : Pids \cup {None}, clears : BOOLEAN]
    BY <2>1
  <2>. QED BY <2>2, <2>3
<1>3. /\ wired' \subseteq Pids
      /\ {stopping', circuitOpen'} \subseteq BOOLEAN
  BY DEF TypeOK, AdoptAnswering, Answers, Adopt, MayUpdate, Overlaps, Meets,
     BeginUpdate, Uses, NoStart, NoPoll, machine, supervisor, tasks
<1>4. crashTimes' \in Nat /\ (crashTimes' > CrashBudget => circuitOpen')
  BY DEF TypeOK, AdoptAnswering, Answers, Adopt, MayUpdate, Overlaps, Meets,
     BeginUpdate, Uses, NoStart, NoPoll, machine, supervisor, tasks
<1>5. /\ start' \in [pc : {"idle", "probing", "conceded", "spawning"}, pid : Pids \cup {None}]
      /\ restart' \in [pc : {"idle", "waiting", "stopping"}, pid : Pids \cup {None}]
  BY DEF TypeOK, AdoptAnswering, Answers, Adopt, MayUpdate, Overlaps, Meets,
     BeginUpdate, Uses, NoStart, NoPoll, machine, supervisor, tasks
<1>6. upd' \in [pc : {"idle", "asked", "exiting", "probing"}, pid : Pids \cup {None},
                 succ : Pids \cup {None}, saved : Pids \cup {None}]
  BY DEF TypeOK, AdoptAnswering, Answers, Adopt, MayUpdate, Overlaps, Meets,
     BeginUpdate, Uses, NoStart, NoPoll, machine, supervisor, tasks
<1>7. met' \subseteq Circumstances
  BY DEF TypeOK, AdoptAnswering, Answers, Adopt, MayUpdate, Overlaps, Meets,
     BeginUpdate, Uses, NoStart, NoPoll, machine, supervisor, tasks,
     Circumstances
<1>8. used' \in [{"crash", "restart", "update", "host"} -> Nat]
  BY DEF TypeOK, AdoptAnswering, Answers, Adopt, MayUpdate, Overlaps, Meets,
     BeginUpdate, Uses, NoStart, NoPoll, machine, supervisor, tasks
<1>. QED BY <1>1, <1>2, <1>3, <1>4, <1>5, <1>6, <1>7, <1>8 DEF TypeOK

LEMMA AdoptListedTypes ==
    ASSUME TypeOK, AdoptListed
    PROVE  TypeOK'
<1>1. /\ proc' \in [Pids -> {"unborn", "booting", "waiting", "up", "leaving",
                           "draining", "dead"}]
      /\ pred' \in [Pids -> Pids \cup {None}]
      /\ {path', manifest', instance'} \subseteq Pids \cup {None}
  BY DEF TypeOK, AdoptListed, Answers, TrustsListed, Adopt, MayUpdate,
     Overlaps, Meets, BeginUpdate, Uses, NoStart, NoPoll, machine,
     supervisor, tasks
<1>2. poll' \in [pid : Pids \cup {None}, clears : BOOLEAN]
  <2>1. start.pid \in Pids
    BY DEF TypeOK, AdoptListed, TrustsListed
  <2>2. poll' = [pid |-> start.pid, clears |-> TRUE] \/ poll' = [pid |-> None, clears |-> FALSE]
    BY DEF AdoptListed, Adopt, BeginUpdate, NoPoll
  <2>3. /\ [pid |-> start.pid, clears |-> TRUE] \in [pid : Pids \cup {None}, clears : BOOLEAN]
        /\ [pid |-> None, clears |-> FALSE] \in [pid : Pids \cup {None}, clears : BOOLEAN]
    BY <2>1
  <2>. QED BY <2>2, <2>3
<1>3. /\ wired' \subseteq Pids
      /\ {stopping', circuitOpen'} \subseteq BOOLEAN
  BY DEF TypeOK, AdoptListed, Answers, TrustsListed, Adopt, MayUpdate,
     Overlaps, Meets, BeginUpdate, Uses, NoStart, NoPoll, machine,
     supervisor, tasks
<1>4. crashTimes' \in Nat /\ (crashTimes' > CrashBudget => circuitOpen')
  BY DEF TypeOK, AdoptListed, Answers, TrustsListed, Adopt, MayUpdate,
     Overlaps, Meets, BeginUpdate, Uses, NoStart, NoPoll, machine,
     supervisor, tasks
<1>5. /\ start' \in [pc : {"idle", "probing", "conceded", "spawning"}, pid : Pids \cup {None}]
      /\ restart' \in [pc : {"idle", "waiting", "stopping"}, pid : Pids \cup {None}]
  BY DEF TypeOK, AdoptListed, Answers, TrustsListed, Adopt, MayUpdate,
     Overlaps, Meets, BeginUpdate, Uses, NoStart, NoPoll, machine,
     supervisor, tasks
<1>6. upd' \in [pc : {"idle", "asked", "exiting", "probing"}, pid : Pids \cup {None},
                 succ : Pids \cup {None}, saved : Pids \cup {None}]
  BY DEF TypeOK, AdoptListed, Answers, TrustsListed, Adopt, MayUpdate,
     Overlaps, Meets, BeginUpdate, Uses, NoStart, NoPoll, machine,
     supervisor, tasks
<1>7. met' \subseteq Circumstances
  BY DEF TypeOK, AdoptListed, Answers, TrustsListed, Adopt, MayUpdate,
     Overlaps, Meets, BeginUpdate, Uses, NoStart, NoPoll, machine,
     supervisor, tasks, Circumstances
<1>8. used' \in [{"crash", "restart", "update", "host"} -> Nat]
  BY DEF TypeOK, AdoptListed, Answers, TrustsListed, Adopt, MayUpdate,
     Overlaps, Meets, BeginUpdate, Uses, NoStart, NoPoll, machine,
     supervisor, tasks
<1>. QED BY <1>1, <1>2, <1>3, <1>4, <1>5, <1>6, <1>7, <1>8 DEF TypeOK

LEMMA ConcedeTypes ==
    ASSUME TypeOK, Concede
    PROVE  TypeOK'
<1>1. /\ proc' \in [Pids -> {"unborn", "booting", "waiting", "up", "leaving",
                           "draining", "dead"}]
      /\ pred' \in [Pids -> Pids \cup {None}]
      /\ {path', manifest', instance'} \subseteq Pids \cup {None}
  BY DEF TypeOK, Concede, Mistakes, TrustsListed, Meets, Answers, machine,
     supervisor, tasks
<1>2. poll' \in [pid : Pids \cup {None}, clears : BOOLEAN]
  BY DEF TypeOK, Concede, Mistakes, TrustsListed, Meets, Answers, machine,
     supervisor, tasks
<1>3. /\ wired' \subseteq Pids
      /\ {stopping', circuitOpen'} \subseteq BOOLEAN
  BY DEF TypeOK, Concede, Mistakes, TrustsListed, Meets, Answers, machine,
     supervisor, tasks
<1>4. crashTimes' \in Nat /\ (crashTimes' > CrashBudget => circuitOpen')
  BY DEF TypeOK, Concede, Mistakes, TrustsListed, Meets, Answers, machine,
     supervisor, tasks
<1>5. /\ start' \in [pc : {"idle", "probing", "conceded", "spawning"}, pid : Pids \cup {None}]
      /\ restart' \in [pc : {"idle", "waiting", "stopping"}, pid : Pids \cup {None}]
  BY DEF TypeOK, Concede, Mistakes, TrustsListed, Meets, Answers, machine,
     supervisor, tasks
<1>6. upd' \in [pc : {"idle", "asked", "exiting", "probing"}, pid : Pids \cup {None},
                 succ : Pids \cup {None}, saved : Pids \cup {None}]
  BY DEF TypeOK, Concede, Mistakes, TrustsListed, Meets, Answers, machine,
     supervisor, tasks
<1>7. met' \subseteq Circumstances
  BY DEF TypeOK, Concede, Mistakes, TrustsListed, Meets, Answers, machine,
     supervisor, tasks, Circumstances
<1>8. used' \in [{"crash", "restart", "update", "host"} -> Nat]
  BY DEF TypeOK, Concede, Mistakes, TrustsListed, Meets, Answers, machine,
     supervisor, tasks
<1>. QED BY <1>1, <1>2, <1>3, <1>4, <1>5, <1>6, <1>7, <1>8 DEF TypeOK

LEMMA SpawnReadyTypes ==
    ASSUME TypeOK, SpawnReady
    PROVE  TypeOK'
BY DEF TypeOK, SpawnReady, Answers, NoStart, machine, supervisor, tasks

LEMMA SpawnTimeoutTypes ==
    ASSUME TypeOK, SpawnTimeout
    PROVE  TypeOK'
BY DEF TypeOK, SpawnTimeout, Answers, NoStart, machine, supervisor, tasks

LEMMA WindowPassesTypes ==
    ASSUME TypeOK, WindowPasses
    PROVE  TypeOK'
BY DEF TypeOK, WindowPasses, machine, supervisor, tasks

LEMMA PollDeathTypes ==
    ASSUME TypeOK, PollDeath
    PROVE  TypeOK'
BY DEF TypeOK, PollDeath, DeathClears, NoPoll, machine, supervisor, tasks

LEMMA UpdateTypes ==
    ASSUME TypeOK, Update
    PROVE  TypeOK'
<1>1. /\ proc' \in [Pids -> {"unborn", "booting", "waiting", "up", "leaving",
                           "draining", "dead"}]
      /\ pred' \in [Pids -> Pids \cup {None}]
      /\ {path', manifest', instance'} \subseteq Pids \cup {None}
  BY DEF TypeOK, Update, MayUpdate, Overlaps, Meets, BeginUpdate, Uses,
     NoPoll, machine, supervisor, tasks
<1>2. poll' \in [pid : Pids \cup {None}, clears : BOOLEAN]
  BY DEF TypeOK, Update, MayUpdate, Overlaps, Meets, BeginUpdate, Uses,
     NoPoll, machine, supervisor, tasks
<1>3. /\ wired' \subseteq Pids
      /\ {stopping', circuitOpen'} \subseteq BOOLEAN
  BY DEF TypeOK, Update, MayUpdate, Overlaps, Meets, BeginUpdate, Uses,
     NoPoll, machine, supervisor, tasks
<1>4. crashTimes' \in Nat /\ (crashTimes' > CrashBudget => circuitOpen')
  BY DEF TypeOK, Update, MayUpdate, Overlaps, Meets, BeginUpdate, Uses,
     NoPoll, machine, supervisor, tasks
<1>5. /\ start' \in [pc : {"idle", "probing", "conceded", "spawning"}, pid : Pids \cup {None}]
      /\ restart' \in [pc : {"idle", "waiting", "stopping"}, pid : Pids \cup {None}]
  BY DEF TypeOK, Update, MayUpdate, Overlaps, Meets, BeginUpdate, Uses,
     NoPoll, machine, supervisor, tasks
<1>6. upd' \in [pc : {"idle", "asked", "exiting", "probing"}, pid : Pids \cup {None},
                 succ : Pids \cup {None}, saved : Pids \cup {None}]
  BY DEF TypeOK, Update, MayUpdate, Overlaps, Meets, BeginUpdate, Uses,
     NoPoll, machine, supervisor, tasks
<1>7. met' \subseteq Circumstances
  BY DEF TypeOK, Update, MayUpdate, Overlaps, Meets, BeginUpdate, Uses,
     NoPoll, machine, supervisor, tasks, Circumstances
<1>8. used' \in [{"crash", "restart", "update", "host"} -> Nat]
  BY DEF TypeOK, Update, MayUpdate, Overlaps, Meets, BeginUpdate, Uses,
     NoPoll, machine, supervisor, tasks
<1>. QED BY <1>1, <1>2, <1>3, <1>4, <1>5, <1>6, <1>7, <1>8 DEF TypeOK

LEMMA UpdateFailsTypes ==
    ASSUME TypeOK, UpdateFails
    PROVE  TypeOK'
BY DEF TypeOK, UpdateFails, Rearmed, NoUpdate, machine, supervisor, tasks

LEMMA KillPredecessorTypes ==
    ASSUME TypeOK, KillPredecessor
    PROVE  TypeOK'
BY DEF TypeOK, KillPredecessor, machine, supervisor, tasks

LEMMA PredecessorGoneTypes ==
    ASSUME TypeOK, PredecessorGone
    PROVE  TypeOK'
BY DEF TypeOK, PredecessorGone, machine, supervisor, tasks

LEMMA UpdateDoneTypes ==
    ASSUME TypeOK, UpdateDone
    PROVE  TypeOK'
<1>1. /\ proc' \in [Pids -> {"unborn", "booting", "waiting", "up", "leaving",
                           "draining", "dead"}]
      /\ pred' \in [Pids -> Pids \cup {None}]
      /\ {path', manifest', instance'} \subseteq Pids \cup {None}
  BY DEF TypeOK, UpdateDone, SuccessorManifest, Meets, NoUpdate, machine,
     supervisor, tasks
<1>2. poll' \in [pid : Pids \cup {None}, clears : BOOLEAN]
  BY DEF TypeOK, UpdateDone, SuccessorManifest, Meets, NoUpdate, machine,
     supervisor, tasks
<1>3. /\ wired' \subseteq Pids
      /\ {stopping', circuitOpen'} \subseteq BOOLEAN
  BY DEF TypeOK, UpdateDone, SuccessorManifest, Meets, NoUpdate, machine,
     supervisor, tasks
<1>4. crashTimes' \in Nat /\ (crashTimes' > CrashBudget => circuitOpen')
  BY DEF TypeOK, UpdateDone, SuccessorManifest, Meets, NoUpdate, machine,
     supervisor, tasks
<1>5. /\ start' \in [pc : {"idle", "probing", "conceded", "spawning"}, pid : Pids \cup {None}]
      /\ restart' \in [pc : {"idle", "waiting", "stopping"}, pid : Pids \cup {None}]
  BY DEF TypeOK, UpdateDone, SuccessorManifest, Meets, NoUpdate, machine,
     supervisor, tasks
<1>6. upd' \in [pc : {"idle", "asked", "exiting", "probing"}, pid : Pids \cup {None},
                 succ : Pids \cup {None}, saved : Pids \cup {None}]
  BY DEF TypeOK, UpdateDone, SuccessorManifest, Meets, NoUpdate, machine,
     supervisor, tasks
<1>7. met' \subseteq Circumstances
  BY DEF TypeOK, UpdateDone, SuccessorManifest, Meets, NoUpdate, machine,
     supervisor, tasks, Circumstances
<1>8. used' \in [{"crash", "restart", "update", "host"} -> Nat]
  BY DEF TypeOK, UpdateDone, SuccessorManifest, Meets, NoUpdate, machine,
     supervisor, tasks
<1>. QED BY <1>1, <1>2, <1>3, <1>4, <1>5, <1>6, <1>7, <1>8 DEF TypeOK

LEMMA RestartRequestTypes ==
    ASSUME TypeOK, RestartRequest
    PROVE  TypeOK'
<1>1. /\ proc' \in [Pids -> {"unborn", "booting", "waiting", "up", "leaving",
                           "draining", "dead"}]
      /\ pred' \in [Pids -> Pids \cup {None}]
      /\ {path', manifest', instance'} \subseteq Pids \cup {None}
  BY DEF TypeOK, RestartRequest, Meets, EnsureFrom, BeginStart, Uses,
     machine, supervisor, tasks
<1>2. poll' \in [pid : Pids \cup {None}, clears : BOOLEAN]
  BY DEF TypeOK, RestartRequest, Meets, EnsureFrom, BeginStart, Uses,
     machine, supervisor, tasks
<1>3. /\ wired' \subseteq Pids
      /\ {stopping', circuitOpen'} \subseteq BOOLEAN
  BY DEF TypeOK, RestartRequest, Meets, EnsureFrom, BeginStart, Uses,
     machine, supervisor, tasks
<1>4. crashTimes' \in Nat /\ (crashTimes' > CrashBudget => circuitOpen')
  BY DEF TypeOK, RestartRequest, Meets, EnsureFrom, BeginStart, Uses,
     machine, supervisor, tasks
<1>5. /\ start' \in [pc : {"idle", "probing", "conceded", "spawning"}, pid : Pids \cup {None}]
      /\ restart' \in [pc : {"idle", "waiting", "stopping"}, pid : Pids \cup {None}]
  BY DEF TypeOK, RestartRequest, Meets, EnsureFrom, BeginStart, Uses,
     machine, supervisor, tasks
<1>6. upd' \in [pc : {"idle", "asked", "exiting", "probing"}, pid : Pids \cup {None},
                 succ : Pids \cup {None}, saved : Pids \cup {None}]
  BY DEF TypeOK, RestartRequest, Meets, EnsureFrom, BeginStart, Uses,
     machine, supervisor, tasks
<1>7. met' \subseteq Circumstances
  BY DEF TypeOK, RestartRequest, Meets, EnsureFrom, BeginStart, Uses,
     machine, supervisor, tasks, Circumstances
<1>8. used' \in [{"crash", "restart", "update", "host"} -> Nat]
  BY DEF TypeOK, RestartRequest, Meets, EnsureFrom, BeginStart, Uses,
     machine, supervisor, tasks
<1>. QED BY <1>1, <1>2, <1>3, <1>4, <1>5, <1>6, <1>7, <1>8 DEF TypeOK

LEMMA RestartAbortsTypes ==
    ASSUME TypeOK, RestartAborts
    PROVE  TypeOK'
BY DEF TypeOK, RestartAborts, NoRestart, machine, supervisor, tasks

LEMMA StopTypes ==
    ASSUME TypeOK, Stop
    PROVE  TypeOK'
<1>1. /\ proc' \in [Pids -> {"unborn", "booting", "waiting", "up", "leaving",
                           "draining", "dead"}]
      /\ pred' \in [Pids -> Pids \cup {None}]
      /\ {path', manifest', instance'} \subseteq Pids \cup {None}
  <2>1. /\ path' \in {path, None} /\ manifest' = manifest /\ instance' = None /\ pred' = pred
        /\ proc' \in {proc, [proc EXCEPT ![instance] = "draining"]}
    BY DEF Stop, Terminate
  <2>. QED BY <2>1 DEF TypeOK
<1>2. poll' \in [pid : Pids \cup {None}, clears : BOOLEAN]
  BY DEF TypeOK, Stop, Terminate, NoPoll, machine, supervisor, tasks
<1>3. /\ wired' \subseteq Pids
      /\ {stopping', circuitOpen'} \subseteq BOOLEAN
  BY DEF TypeOK, Stop, Terminate, NoPoll, machine, supervisor, tasks
<1>4. crashTimes' \in Nat /\ (crashTimes' > CrashBudget => circuitOpen')
  BY DEF TypeOK, Stop, Terminate, NoPoll, machine, supervisor, tasks
<1>5. /\ start' \in [pc : {"idle", "probing", "conceded", "spawning"}, pid : Pids \cup {None}]
      /\ restart' \in [pc : {"idle", "waiting", "stopping"}, pid : Pids \cup {None}]
  BY DEF TypeOK, Stop, Terminate, NoPoll, machine, supervisor, tasks
<1>6. upd' \in [pc : {"idle", "asked", "exiting", "probing"}, pid : Pids \cup {None},
                 succ : Pids \cup {None}, saved : Pids \cup {None}]
  BY DEF TypeOK, Stop, Terminate, NoPoll, machine, supervisor, tasks
<1>7. met' \subseteq Circumstances
  BY DEF TypeOK, Stop, Terminate, NoPoll, machine, supervisor, tasks,
     Circumstances
<1>8. used' \in [{"crash", "restart", "update", "host"} -> Nat]
  BY DEF TypeOK, Stop, Terminate, NoPoll, machine, supervisor, tasks
<1>. QED BY <1>1, <1>2, <1>3, <1>4, <1>5, <1>6, <1>7, <1>8 DEF TypeOK

LEMMA StoppedTypes ==
    ASSUME TypeOK, Stopped
    PROVE  TypeOK'
<1>1. /\ proc' \in [Pids -> {"unborn", "booting", "waiting", "up", "leaving",
                           "draining", "dead"}]
      /\ pred' \in [Pids -> Pids \cup {None}]
      /\ {path', manifest', instance'} \subseteq Pids \cup {None}
  BY DEF TypeOK, Stopped, NoRestart, EnsureFrom, BeginStart, machine,
     supervisor, tasks
<1>2. poll' \in [pid : Pids \cup {None}, clears : BOOLEAN]
  BY DEF TypeOK, Stopped, NoRestart, EnsureFrom, BeginStart, machine,
     supervisor, tasks
<1>3. /\ wired' \subseteq Pids
      /\ {stopping', circuitOpen'} \subseteq BOOLEAN
  BY DEF TypeOK, Stopped, NoRestart, EnsureFrom, BeginStart, machine,
     supervisor, tasks
<1>4. crashTimes' \in Nat /\ (crashTimes' > CrashBudget => circuitOpen')
  BY DEF TypeOK, Stopped, NoRestart, EnsureFrom, BeginStart, machine,
     supervisor, tasks
<1>5. /\ start' \in [pc : {"idle", "probing", "conceded", "spawning"}, pid : Pids \cup {None}]
      /\ restart' \in [pc : {"idle", "waiting", "stopping"}, pid : Pids \cup {None}]
  BY DEF TypeOK, Stopped, NoRestart, EnsureFrom, BeginStart, machine,
     supervisor, tasks
<1>6. upd' \in [pc : {"idle", "asked", "exiting", "probing"}, pid : Pids \cup {None},
                 succ : Pids \cup {None}, saved : Pids \cup {None}]
  BY DEF TypeOK, Stopped, NoRestart, EnsureFrom, BeginStart, machine,
     supervisor, tasks
<1>7. met' \subseteq Circumstances
  BY DEF TypeOK, Stopped, NoRestart, EnsureFrom, BeginStart, machine,
     supervisor, tasks, Circumstances
<1>8. used' \in [{"crash", "restart", "update", "host"} -> Nat]
  BY DEF TypeOK, Stopped, NoRestart, EnsureFrom, BeginStart, machine,
     supervisor, tasks
<1>. QED BY <1>1, <1>2, <1>3, <1>4, <1>5, <1>6, <1>7, <1>8 DEF TypeOK

LEMMA HostRestartsTypes ==
    ASSUME TypeOK, HostRestarts
    PROVE  TypeOK'
<1>1. /\ proc' \in [Pids -> {"unborn", "booting", "waiting", "up", "leaving",
                           "draining", "dead"}]
      /\ pred' \in [Pids -> Pids \cup {None}]
      /\ {path', manifest', instance'} \subseteq Pids \cup {None}
  BY DEF TypeOK, HostRestarts, Quiet, Meets, Uses, NoPoll, NoStart,
     NoUpdate, NoRestart, machine, supervisor, tasks
<1>2. poll' \in [pid : Pids \cup {None}, clears : BOOLEAN]
  BY DEF TypeOK, HostRestarts, Quiet, Meets, Uses, NoPoll, NoStart,
     NoUpdate, NoRestart, machine, supervisor, tasks
<1>3. /\ wired' \subseteq Pids
      /\ {stopping', circuitOpen'} \subseteq BOOLEAN
  BY DEF TypeOK, HostRestarts, Quiet, Meets, Uses, NoPoll, NoStart,
     NoUpdate, NoRestart, machine, supervisor, tasks
<1>4. crashTimes' \in Nat /\ (crashTimes' > CrashBudget => circuitOpen')
  BY DEF TypeOK, HostRestarts, Quiet, Meets, Uses, NoPoll, NoStart,
     NoUpdate, NoRestart, machine, supervisor, tasks
<1>5. /\ start' \in [pc : {"idle", "probing", "conceded", "spawning"}, pid : Pids \cup {None}]
      /\ restart' \in [pc : {"idle", "waiting", "stopping"}, pid : Pids \cup {None}]
  BY DEF TypeOK, HostRestarts, Quiet, Meets, Uses, NoPoll, NoStart,
     NoUpdate, NoRestart, machine, supervisor, tasks
<1>6. upd' \in [pc : {"idle", "asked", "exiting", "probing"}, pid : Pids \cup {None},
                 succ : Pids \cup {None}, saved : Pids \cup {None}]
  BY DEF TypeOK, HostRestarts, Quiet, Meets, Uses, NoPoll, NoStart,
     NoUpdate, NoRestart, machine, supervisor, tasks
<1>7. met' \subseteq Circumstances
  BY DEF TypeOK, HostRestarts, Quiet, Meets, Uses, NoPoll, NoStart,
     NoUpdate, NoRestart, machine, supervisor, tasks, Circumstances
<1>8. used' \in [{"crash", "restart", "update", "host"} -> Nat]
  BY DEF TypeOK, HostRestarts, Quiet, Meets, Uses, NoPoll, NoStart,
     NoUpdate, NoRestart, machine, supervisor, tasks
<1>. QED BY <1>1, <1>2, <1>3, <1>4, <1>5, <1>6, <1>7, <1>8 DEF TypeOK

LEMMA SpawnChildTypes ==
    ASSUME TypeOK, NEW p \in Pids, SpawnChild(p)
    PROVE  TypeOK'
BY DEF TypeOK, SpawnChild, Fresh, machine, supervisor, tasks

LEMMA ExitEventTypes ==
    ASSUME TypeOK, NEW p \in Pids, ExitEvent(p)
    PROVE  TypeOK'
<1>1. /\ proc' \in [Pids -> {"unborn", "booting", "waiting", "up", "leaving",
                           "draining", "dead"}]
      /\ pred' \in [Pids -> Pids \cup {None}]
      /\ {path', manifest', instance'} \subseteq Pids \cup {None}
  BY DEF TypeOK, ExitEvent, Trips, EnsureFrom, BeginStart, machine,
     supervisor, tasks
<1>2. poll' \in [pid : Pids \cup {None}, clears : BOOLEAN]
  BY DEF TypeOK, ExitEvent, Trips, EnsureFrom, BeginStart, machine,
     supervisor, tasks
<1>3. /\ wired' \subseteq Pids
      /\ {stopping', circuitOpen'} \subseteq BOOLEAN
  BY DEF TypeOK, ExitEvent, Trips, EnsureFrom, BeginStart, machine,
     supervisor, tasks
<1>4. crashTimes' \in Nat /\ (crashTimes' > CrashBudget => circuitOpen')
  BY DEF TypeOK, ExitEvent, Trips, EnsureFrom, BeginStart, machine,
     supervisor, tasks
<1>5. /\ start' \in [pc : {"idle", "probing", "conceded", "spawning"}, pid : Pids \cup {None}]
      /\ restart' \in [pc : {"idle", "waiting", "stopping"}, pid : Pids \cup {None}]
  BY DEF TypeOK, ExitEvent, Trips, EnsureFrom, BeginStart, machine,
     supervisor, tasks
<1>6. upd' \in [pc : {"idle", "asked", "exiting", "probing"}, pid : Pids \cup {None},
                 succ : Pids \cup {None}, saved : Pids \cup {None}]
  BY DEF TypeOK, ExitEvent, Trips, EnsureFrom, BeginStart, machine,
     supervisor, tasks
<1>7. met' \subseteq Circumstances
  BY DEF TypeOK, ExitEvent, Trips, EnsureFrom, BeginStart, machine,
     supervisor, tasks, Circumstances
<1>8. used' \in [{"crash", "restart", "update", "host"} -> Nat]
  BY DEF TypeOK, ExitEvent, Trips, EnsureFrom, BeginStart, machine,
     supervisor, tasks
<1>. QED BY <1>1, <1>2, <1>3, <1>4, <1>5, <1>6, <1>7, <1>8 DEF TypeOK

LEMMA HandsOverTypes ==
    ASSUME TypeOK, NEW p \in Pids, HandsOver(p)
    PROVE  TypeOK'
BY DEF TypeOK, HandsOver, Answers, Fresh, machine, supervisor, tasks

LEMMA BootTypes ==
    ASSUME TypeOK, NEW p \in Pids, Boot(p)
    PROVE  TypeOK'
BY DEF TypeOK, Boot, machine, supervisor, tasks

LEMMA LeaveTypes ==
    ASSUME TypeOK, NEW p \in Pids, Leave(p)
    PROVE  TypeOK'
BY DEF TypeOK, Leave, machine, supervisor, tasks

LEMMA BindTypes ==
    ASSUME TypeOK, NEW p \in Pids, Bind(p)
    PROVE  TypeOK'
BY DEF TypeOK, Bind, machine, supervisor, tasks

LEMMA DrainedTypes ==
    ASSUME TypeOK, NEW p \in Pids, Drained(p)
    PROVE  TypeOK'
BY DEF TypeOK, Drained, machine, supervisor, tasks

LEMMA CrashTypes ==
    ASSUME TypeOK, NEW p \in Pids, Crash(p)
    PROVE  TypeOK'
BY DEF TypeOK, Crash, Uses, machine, supervisor, tasks

LEMMA TypesStep ==
    ASSUME TypeOK, [Next]_vars
    PROVE  TypeOK'
<1>1. CASE Next
  BY <1>1, EnsureTypes, AdoptAnsweringTypes, AdoptListedTypes, ConcedeTypes,
     SpawnReadyTypes, SpawnTimeoutTypes, WindowPassesTypes, PollDeathTypes,
     UpdateTypes, UpdateFailsTypes, KillPredecessorTypes,
     PredecessorGoneTypes, UpdateDoneTypes, RestartRequestTypes,
     RestartAbortsTypes, StopTypes, StoppedTypes, HostRestartsTypes,
     SpawnChildTypes, ExitEventTypes, HandsOverTypes, BootTypes, LeaveTypes,
     BindTypes, DrainedTypes, CrashTypes DEF Next
<1>2. CASE UNCHANGED vars
  BY <1>2 DEF vars, machine, supervisor, tasks, TypeOK
<1>. QED BY <1>1, <1>2

-----------------------------------------------------------------------------
(* The core. *)

\* Circumstances and restarts are only ever added.
LEMMA Grows ==
    ASSUME TypeOK, Next
    PROVE  /\ met \subseteq met'
           /\ used'.restart = 0 => used.restart = 0
<1>1. met \subseteq met'
  BY DEF Next, Ensure, AdoptAnswering, AdoptListed, Adopt, Concede,
     SpawnReady, SpawnTimeout, WindowPasses, PollDeath, Update, UpdateFails,
     KillPredecessor, PredecessorGone, UpdateDone, RestartRequest,
     RestartAborts, Stop, Stopped, HostRestarts, SpawnChild, ExitEvent,
     HandsOver, Boot, Leave, Bind, Drained, Crash, Meets
<1>2. used.restart \in Nat /\ (used'.restart = used.restart \/ used'.restart = used.restart + 1)
  BY DEF TypeOK, Next, Ensure, AdoptAnswering, AdoptListed, Adopt,
     MayUpdate, BeginUpdate, Concede, SpawnReady, SpawnTimeout,
     WindowPasses, PollDeath, Update, UpdateFails, KillPredecessor,
     PredecessorGone, UpdateDone, RestartRequest, RestartAborts, Stop,
     Stopped, HostRestarts, SpawnChild, ExitEvent, HandsOver, Boot, Leave,
     Bind, Drained, Crash, Uses
<1>. QED BY <1>1, <1>2

\* Nothing untoward has been met before a state in which nothing has.
LEMMA OrdinaryBefore ==
    ASSUME TypeOK, Next, Ordinary'
    PROVE  Ordinary
<1>1. TypeOK'
  BY TypesStep
<1>2. used \in [{"crash", "restart", "update", "host"} -> Nat]
  BY DEF TypeOK
<1>3. used' \in [{"crash", "restart", "update", "host"} -> Nat]
  BY <1>1 DEF TypeOK
<1>4. used.restart \in Nat /\ used'.restart \in Nat
  BY <1>2, <1>3
<1>5. met \subseteq met' /\ (used'.restart = 0 => used.restart = 0)
  BY Grows
<1>6. met' \subseteq {"unlisted"} /\ (used'.restart > 0 => met' = {})
  BY DEF Ordinary
<1>. QED BY <1>4, <1>5, <1>6 DEF Ordinary

LEMMA EnsureStep ==
    ASSUME TypeOK, Core, Ordinary', Ensure
    PROVE  Core'
<1>1. met' = {}
  BY DEF Core, Ordinary, Ensure, BeginStart, machine, supervisor, tasks
<1>2. Tasks'
  BY <1>1 DEF TypeOK, Core, Tasks, Registered, Stages, Premises, NoOrphan,
     Listed, Ensure, BeginStart, machine, supervisor, tasks
<1>3. Registered'
  BY <1>1 DEF TypeOK, Core, Tasks, Registered, Stages, Premises, NoOrphan,
     Listed, Ensure, BeginStart, machine, supervisor, tasks
<1>4. Stages'
  BY <1>1 DEF TypeOK, Core, Tasks, Registered, Stages, Premises, NoOrphan,
     Listed, Ensure, BeginStart, machine, supervisor, tasks
<1>5. Premises'
  BY <1>1 DEF TypeOK, Core, Tasks, Registered, Stages, Premises, NoOrphan,
     Listed, Ensure, BeginStart, machine, supervisor, tasks
<1>6. NoOrphan'
  BY <1>1 DEF TypeOK, Core, Tasks, Registered, Stages, Premises, NoOrphan,
     Listed, Ensure, BeginStart, machine, supervisor, tasks
<1>7. Listed'
  BY <1>1 DEF TypeOK, Core, Tasks, Registered, Stages, Premises, NoOrphan,
     Listed, Ensure, BeginStart, machine, supervisor, tasks
<1>. QED BY <1>1, <1>2, <1>3, <1>4, <1>5, <1>6, <1>7 DEF Core

LEMMA AdoptAnsweringStep ==
    ASSUME TypeOK, Core, Ordinary', AdoptAnswering
    PROVE  Core'
<1>1. met' = {}
  BY DEF Core, Ordinary, AdoptAnswering, Answers, Adopt, MayUpdate,
     Overlaps, Meets, BeginUpdate, Uses, NoStart, NoPoll, machine,
     supervisor, tasks
<1>2. Tasks'
  BY <1>1 DEF TypeOK, Core, Tasks, Registered, Stages, Premises, NoOrphan,
     Listed, AdoptAnswering, Answers, Adopt, MayUpdate, Overlaps, Meets,
     BeginUpdate, Uses, NoStart, NoPoll, machine, supervisor, tasks
<1>3. Registered'
  BY <1>1 DEF TypeOK, Core, Tasks, Registered, Stages, Premises, NoOrphan,
     Listed, AdoptAnswering, Answers, Adopt, MayUpdate, Overlaps, Meets,
     BeginUpdate, Uses, NoStart, NoPoll, machine, supervisor, tasks
<1>4. Stages'
  BY <1>1 DEF TypeOK, Core, Tasks, Registered, Stages, Premises, NoOrphan,
     Listed, AdoptAnswering, Answers, Adopt, MayUpdate, Overlaps, Meets,
     BeginUpdate, Uses, NoStart, NoPoll, machine, supervisor, tasks
<1>5. Premises'
  BY <1>1 DEF TypeOK, Core, Tasks, Registered, Stages, Premises, NoOrphan,
     Listed, AdoptAnswering, Answers, Adopt, MayUpdate, Overlaps, Meets,
     BeginUpdate, Uses, NoStart, NoPoll, machine, supervisor, tasks
<1>6. NoOrphan'
  BY <1>1 DEF TypeOK, Core, Tasks, Registered, Stages, Premises, NoOrphan,
     Listed, AdoptAnswering, Answers, Adopt, MayUpdate, Overlaps, Meets,
     BeginUpdate, Uses, NoStart, NoPoll, machine, supervisor, tasks
<1>7. Listed'
  BY <1>1 DEF TypeOK, Core, Tasks, Registered, Stages, Premises, NoOrphan,
     Listed, AdoptAnswering, Answers, Adopt, MayUpdate, Overlaps, Meets,
     BeginUpdate, Uses, NoStart, NoPoll, machine, supervisor, tasks
<1>. QED BY <1>1, <1>2, <1>3, <1>4, <1>5, <1>6, <1>7 DEF Core

LEMMA AdoptListedStep ==
    ASSUME TypeOK, Core, Ordinary', AdoptListed
    PROVE  Core'
<1>1. met' = {}
  BY DEF Core, Ordinary, AdoptListed, Answers, TrustsListed, Adopt,
     MayUpdate, Overlaps, Meets, BeginUpdate, Uses, NoStart, NoPoll,
     machine, supervisor, tasks
<1>2. Tasks'
  BY <1>1 DEF TypeOK, Core, Tasks, Registered, Stages, Premises, NoOrphan,
     Listed, AdoptListed, Answers, TrustsListed, Adopt, MayUpdate, Overlaps,
     Meets, BeginUpdate, Uses, NoStart, NoPoll, machine, supervisor, tasks
<1>3. Registered'
  BY <1>1 DEF TypeOK, Core, Tasks, Registered, Stages, Premises, NoOrphan,
     Listed, AdoptListed, Answers, TrustsListed, Adopt, MayUpdate, Overlaps,
     Meets, BeginUpdate, Uses, NoStart, NoPoll, machine, supervisor, tasks
<1>4. Stages'
  BY <1>1 DEF TypeOK, Core, Tasks, Registered, Stages, Premises, NoOrphan,
     Listed, AdoptListed, Answers, TrustsListed, Adopt, MayUpdate, Overlaps,
     Meets, BeginUpdate, Uses, NoStart, NoPoll, machine, supervisor, tasks
<1>5. Premises'
  BY <1>1 DEF TypeOK, Core, Tasks, Registered, Stages, Premises, NoOrphan,
     Listed, AdoptListed, Answers, TrustsListed, Adopt, MayUpdate, Overlaps,
     Meets, BeginUpdate, Uses, NoStart, NoPoll, machine, supervisor, tasks
<1>6. NoOrphan'
  BY <1>1 DEF TypeOK, Core, Tasks, Registered, Stages, Premises, NoOrphan,
     Listed, AdoptListed, Answers, TrustsListed, Adopt, MayUpdate, Overlaps,
     Meets, BeginUpdate, Uses, NoStart, NoPoll, machine, supervisor, tasks
<1>7. Listed'
  BY <1>1 DEF TypeOK, Core, Tasks, Registered, Stages, Premises, NoOrphan,
     Listed, AdoptListed, Answers, TrustsListed, Adopt, MayUpdate, Overlaps,
     Meets, BeginUpdate, Uses, NoStart, NoPoll, machine, supervisor, tasks
<1>. QED BY <1>1, <1>2, <1>3, <1>4, <1>5, <1>6, <1>7 DEF Core

LEMMA ConcedeStep ==
    ASSUME TypeOK, Core, Ordinary', Concede
    PROVE  Core'
<1>1. met' = {}
  <2>1. PICK what \in Mistakes : met' = what
    BY DEF Core, Concede, Meets
  <2>2. CASE ~Answers
    BY <2>1, <2>2 DEF Mistakes
  <2>3. CASE Answers
    <3>1. what \in {{"connect_timeout"}, {"unlisted"}} /\ (what = {"unlisted"} => ~TrustsListed)
      BY <2>1, <2>3 DEF Mistakes
    <3>2. what = {"unlisted"} /\ used'.restart = 0
      BY <2>1, <3>1 DEF Ordinary, TypeOK, Concede
    <3>3. path \in Pids /\ Contender(path) /\ start.pc = "probing"
      BY <2>3 DEF Answers, TypeOK, Concede
    <3>4. start.pid = path
      BY <3>2, <3>3 DEF Core, Tasks, Listed, Concede
    <3>. QED BY <3>1, <3>2, <3>3, <3>4 DEF TrustsListed
  <2>. QED BY <2>2, <2>3
<1>2. Tasks'
  BY <1>1 DEF TypeOK, Core, Tasks, Registered, Stages, Premises, NoOrphan,
     Listed, Concede, Mistakes, TrustsListed, Meets, Answers, machine,
     supervisor, tasks
<1>3. Registered'
  BY <1>1 DEF TypeOK, Core, Tasks, Registered, Stages, Premises, NoOrphan,
     Listed, Concede, Mistakes, TrustsListed, Meets, Answers, machine,
     supervisor, tasks
<1>4. Stages'
  BY <1>1 DEF TypeOK, Core, Tasks, Registered, Stages, Premises, NoOrphan,
     Listed, Concede, Mistakes, TrustsListed, Meets, Answers, machine,
     supervisor, tasks
<1>5. Premises'
  <2>1. ~Answers
    BY <1>1 DEF Core, Concede, Mistakes, Meets
  <2>2. start.pc = "probing" /\ upd.pc = "idle" /\ instance = None
    BY DEF Core, Tasks, Concede
  <2>3. \A p \in Pids : ~Contender(p)
    <3>1. \A p \in Pids : proc[p] # "booting" /\ proc[p] # "waiting" /\ proc[p] # "leaving"
      BY <2>2 DEF Core, Stages
    <3>2. \A p \in Pids : proc[p] # "up"
      BY <2>1 DEF Core, NoOrphan, Answers
    <3>. QED BY <3>1, <3>2
  <2>. QED BY <2>2, <2>3 DEF Premises, Concede, machine, supervisor
<1>6. NoOrphan'
  BY <1>1 DEF TypeOK, Core, Tasks, Registered, Stages, Premises, NoOrphan,
     Listed, Concede, Mistakes, TrustsListed, Meets, Answers, machine,
     supervisor, tasks
<1>7. Listed'
  BY <1>1 DEF TypeOK, Core, Tasks, Registered, Stages, Premises, NoOrphan,
     Listed, Concede, Mistakes, TrustsListed, Meets, Answers, machine,
     supervisor, tasks
<1>. QED BY <1>1, <1>2, <1>3, <1>4, <1>5, <1>6, <1>7 DEF Core

LEMMA SpawnReadyStep ==
    ASSUME TypeOK, Core, Ordinary', SpawnReady
    PROVE  Core'
<1>1. met' = {}
  BY DEF Core, Ordinary, SpawnReady, Answers, NoStart, machine, supervisor,
     tasks
<1>2. Tasks'
  BY <1>1 DEF TypeOK, Core, Tasks, Registered, Stages, Premises, NoOrphan,
     Listed, SpawnReady, Answers, NoStart, machine, supervisor, tasks
<1>3. Registered'
  BY <1>1 DEF TypeOK, Core, Tasks, Registered, Stages, Premises, NoOrphan,
     Listed, SpawnReady, Answers, NoStart, machine, supervisor, tasks
<1>4. Stages'
  BY <1>1 DEF TypeOK, Core, Tasks, Registered, Stages, Premises, NoOrphan,
     Listed, SpawnReady, Answers, NoStart, machine, supervisor, tasks
<1>5. Premises'
  BY <1>1 DEF TypeOK, Core, Tasks, Registered, Stages, Premises, NoOrphan,
     Listed, SpawnReady, Answers, NoStart, machine, supervisor, tasks
<1>6. NoOrphan'
  BY <1>1 DEF TypeOK, Core, Tasks, Registered, Stages, Premises, NoOrphan,
     Listed, SpawnReady, Answers, NoStart, machine, supervisor, tasks
<1>7. Listed'
  BY <1>1 DEF TypeOK, Core, Tasks, Registered, Stages, Premises, NoOrphan,
     Listed, SpawnReady, Answers, NoStart, machine, supervisor, tasks
<1>. QED BY <1>1, <1>2, <1>3, <1>4, <1>5, <1>6, <1>7 DEF Core

LEMMA SpawnTimeoutStep ==
    ASSUME TypeOK, Core, Ordinary', SpawnTimeout
    PROVE  Core'
<1>1. met' = {}
  BY DEF Core, Ordinary, SpawnTimeout, Answers, NoStart, machine,
     supervisor, tasks
<1>2. Tasks'
  BY <1>1 DEF TypeOK, Core, Tasks, Registered, Stages, Premises, NoOrphan,
     Listed, SpawnTimeout, Answers, NoStart, machine, supervisor, tasks
<1>3. Registered'
  BY <1>1 DEF TypeOK, Core, Tasks, Registered, Stages, Premises, NoOrphan,
     Listed, SpawnTimeout, Answers, NoStart, machine, supervisor, tasks
<1>4. Stages'
  BY <1>1 DEF TypeOK, Core, Tasks, Registered, Stages, Premises, NoOrphan,
     Listed, SpawnTimeout, Answers, NoStart, machine, supervisor, tasks
<1>5. Premises'
  BY <1>1 DEF TypeOK, Core, Tasks, Registered, Stages, Premises, NoOrphan,
     Listed, SpawnTimeout, Answers, NoStart, machine, supervisor, tasks
<1>6. NoOrphan'
  BY <1>1 DEF TypeOK, Core, Tasks, Registered, Stages, Premises, NoOrphan,
     Listed, SpawnTimeout, Answers, NoStart, machine, supervisor, tasks
<1>7. Listed'
  BY <1>1 DEF TypeOK, Core, Tasks, Registered, Stages, Premises, NoOrphan,
     Listed, SpawnTimeout, Answers, NoStart, machine, supervisor, tasks
<1>. QED BY <1>1, <1>2, <1>3, <1>4, <1>5, <1>6, <1>7 DEF Core

LEMMA WindowPassesStep ==
    ASSUME TypeOK, Core, Ordinary', WindowPasses
    PROVE  Core'
<1>1. met' = {}
  BY DEF Core, Ordinary, WindowPasses, machine, supervisor, tasks
<1>2. Tasks'
  BY <1>1 DEF TypeOK, Core, Tasks, Registered, Stages, Premises, NoOrphan,
     Listed, WindowPasses, machine, supervisor, tasks
<1>3. Registered'
  BY <1>1 DEF TypeOK, Core, Tasks, Registered, Stages, Premises, NoOrphan,
     Listed, WindowPasses, machine, supervisor, tasks
<1>4. Stages'
  BY <1>1 DEF TypeOK, Core, Tasks, Registered, Stages, Premises, NoOrphan,
     Listed, WindowPasses, machine, supervisor, tasks
<1>5. Premises'
  BY <1>1 DEF TypeOK, Core, Tasks, Registered, Stages, Premises, NoOrphan,
     Listed, WindowPasses, machine, supervisor, tasks
<1>6. NoOrphan'
  BY <1>1 DEF TypeOK, Core, Tasks, Registered, Stages, Premises, NoOrphan,
     Listed, WindowPasses, machine, supervisor, tasks
<1>7. Listed'
  BY <1>1 DEF TypeOK, Core, Tasks, Registered, Stages, Premises, NoOrphan,
     Listed, WindowPasses, machine, supervisor, tasks
<1>. QED BY <1>1, <1>2, <1>3, <1>4, <1>5, <1>6, <1>7 DEF Core

LEMMA PollDeathStep ==
    ASSUME TypeOK, Core, Ordinary', PollDeath
    PROVE  Core'
<1>1. met' = {}
  BY DEF Core, Ordinary, PollDeath, DeathClears, NoPoll, machine,
     supervisor, tasks
<1>2. Tasks'
  BY <1>1 DEF TypeOK, Core, Tasks, Registered, Stages, Premises, NoOrphan,
     Listed, PollDeath, DeathClears, NoPoll, machine, supervisor, tasks
<1>3. Registered'
  BY <1>1 DEF TypeOK, Core, Tasks, Registered, Stages, Premises, NoOrphan,
     Listed, PollDeath, DeathClears, NoPoll, machine, supervisor, tasks
<1>4. Stages'
  BY <1>1 DEF TypeOK, Core, Tasks, Registered, Stages, Premises, NoOrphan,
     Listed, PollDeath, DeathClears, NoPoll, machine, supervisor, tasks
<1>5. Premises'
  BY <1>1 DEF TypeOK, Core, Tasks, Registered, Stages, Premises, NoOrphan,
     Listed, PollDeath, DeathClears, NoPoll, machine, supervisor, tasks
<1>6. NoOrphan'
  BY <1>1 DEF TypeOK, Core, Tasks, Registered, Stages, Premises, NoOrphan,
     Listed, PollDeath, DeathClears, NoPoll, machine, supervisor, tasks
<1>7. Listed'
  BY <1>1 DEF TypeOK, Core, Tasks, Registered, Stages, Premises, NoOrphan,
     Listed, PollDeath, DeathClears, NoPoll, machine, supervisor, tasks
<1>. QED BY <1>1, <1>2, <1>3, <1>4, <1>5, <1>6, <1>7 DEF Core

LEMMA UpdateStep ==
    ASSUME TypeOK, Core, Ordinary', Update
    PROVE  Core'
<1>1. met' = {}
  BY DEF Core, Ordinary, Update, MayUpdate, Overlaps, Meets, BeginUpdate,
     Uses, NoPoll, machine, supervisor, tasks
<1>2. Tasks'
  BY <1>1 DEF TypeOK, Core, Tasks, Registered, Stages, Premises, NoOrphan,
     Listed, Update, MayUpdate, Overlaps, Meets, BeginUpdate, Uses, NoPoll,
     machine, supervisor, tasks
<1>3. Registered'
  BY <1>1 DEF TypeOK, Core, Tasks, Registered, Stages, Premises, NoOrphan,
     Listed, Update, MayUpdate, Overlaps, Meets, BeginUpdate, Uses, NoPoll,
     machine, supervisor, tasks
<1>4. Stages'
  BY <1>1 DEF TypeOK, Core, Tasks, Registered, Stages, Premises, NoOrphan,
     Listed, Update, MayUpdate, Overlaps, Meets, BeginUpdate, Uses, NoPoll,
     machine, supervisor, tasks
<1>5. Premises'
  BY <1>1 DEF TypeOK, Core, Tasks, Registered, Stages, Premises, NoOrphan,
     Listed, Update, MayUpdate, Overlaps, Meets, BeginUpdate, Uses, NoPoll,
     machine, supervisor, tasks
<1>6. NoOrphan'
  BY <1>1 DEF TypeOK, Core, Tasks, Registered, Stages, Premises, NoOrphan,
     Listed, Update, MayUpdate, Overlaps, Meets, BeginUpdate, Uses, NoPoll,
     machine, supervisor, tasks
<1>7. Listed'
  BY <1>1 DEF TypeOK, Core, Tasks, Registered, Stages, Premises, NoOrphan,
     Listed, Update, MayUpdate, Overlaps, Meets, BeginUpdate, Uses, NoPoll,
     machine, supervisor, tasks
<1>. QED BY <1>1, <1>2, <1>3, <1>4, <1>5, <1>6, <1>7 DEF Core

LEMMA UpdateFailsStep ==
    ASSUME TypeOK, Core, Ordinary', UpdateFails
    PROVE  Core'
<1>1. met' = {}
  BY DEF Core, Ordinary, UpdateFails, Rearmed, NoUpdate, machine,
     supervisor, tasks
<1>2. Tasks'
  BY <1>1 DEF TypeOK, Core, Tasks, Registered, Stages, Premises, NoOrphan,
     Listed, UpdateFails, Rearmed, NoUpdate, machine, supervisor, tasks
<1>3. Registered'
  BY <1>1 DEF TypeOK, Core, Tasks, Registered, Stages, Premises, NoOrphan,
     Listed, UpdateFails, Rearmed, NoUpdate, machine, supervisor, tasks
<1>4. Stages'
  BY <1>1 DEF TypeOK, Core, Tasks, Registered, Stages, Premises, NoOrphan,
     Listed, UpdateFails, Rearmed, NoUpdate, machine, supervisor, tasks
<1>5. Premises'
  BY <1>1 DEF TypeOK, Core, Tasks, Registered, Stages, Premises, NoOrphan,
     Listed, UpdateFails, Rearmed, NoUpdate, machine, supervisor, tasks
<1>6. NoOrphan'
  BY <1>1 DEF TypeOK, Core, Tasks, Registered, Stages, Premises, NoOrphan,
     Listed, UpdateFails, Rearmed, NoUpdate, machine, supervisor, tasks
<1>7. Listed'
  BY <1>1 DEF TypeOK, Core, Tasks, Registered, Stages, Premises, NoOrphan,
     Listed, UpdateFails, Rearmed, NoUpdate, machine, supervisor, tasks
<1>. QED BY <1>1, <1>2, <1>3, <1>4, <1>5, <1>6, <1>7 DEF Core

LEMMA KillPredecessorStep ==
    ASSUME TypeOK, Core, Ordinary', KillPredecessor
    PROVE  Core'
<1>1. met' = {}
  BY DEF Core, Ordinary, KillPredecessor, machine, supervisor, tasks
<1>2. Tasks'
  BY <1>1 DEF TypeOK, Core, Tasks, Registered, Stages, Premises, NoOrphan,
     Listed, KillPredecessor, machine, supervisor, tasks
<1>3. Registered'
  BY <1>1 DEF TypeOK, Core, Tasks, Registered, Stages, Premises, NoOrphan,
     Listed, KillPredecessor, machine, supervisor, tasks
<1>4. Stages'
  BY <1>1 DEF TypeOK, Core, Tasks, Registered, Stages, Premises, NoOrphan,
     Listed, KillPredecessor, machine, supervisor, tasks
<1>5. Premises'
  BY <1>1 DEF TypeOK, Core, Tasks, Registered, Stages, Premises, NoOrphan,
     Listed, KillPredecessor, machine, supervisor, tasks
<1>6. NoOrphan'
  BY <1>1 DEF TypeOK, Core, Tasks, Registered, Stages, Premises, NoOrphan,
     Listed, KillPredecessor, machine, supervisor, tasks
<1>7. Listed'
  BY <1>1 DEF TypeOK, Core, Tasks, Registered, Stages, Premises, NoOrphan,
     Listed, KillPredecessor, machine, supervisor, tasks
<1>. QED BY <1>1, <1>2, <1>3, <1>4, <1>5, <1>6, <1>7 DEF Core

LEMMA PredecessorGoneStep ==
    ASSUME TypeOK, Core, Ordinary', PredecessorGone
    PROVE  Core'
<1>1. met' = {}
  BY DEF Core, Ordinary, PredecessorGone, machine, supervisor, tasks
<1>2. Tasks'
  BY <1>1 DEF TypeOK, Core, Tasks, Registered, Stages, Premises, NoOrphan,
     Listed, PredecessorGone, machine, supervisor, tasks
<1>3. Registered'
  BY <1>1 DEF TypeOK, Core, Tasks, Registered, Stages, Premises, NoOrphan,
     Listed, PredecessorGone, machine, supervisor, tasks
<1>4. Stages'
  BY <1>1 DEF TypeOK, Core, Tasks, Registered, Stages, Premises, NoOrphan,
     Listed, PredecessorGone, machine, supervisor, tasks
<1>5. Premises'
  BY <1>1 DEF TypeOK, Core, Tasks, Registered, Stages, Premises, NoOrphan,
     Listed, PredecessorGone, machine, supervisor, tasks
<1>6. NoOrphan'
  BY <1>1 DEF TypeOK, Core, Tasks, Registered, Stages, Premises, NoOrphan,
     Listed, PredecessorGone, machine, supervisor, tasks
<1>7. Listed'
  BY <1>1 DEF TypeOK, Core, Tasks, Registered, Stages, Premises, NoOrphan,
     Listed, PredecessorGone, machine, supervisor, tasks
<1>. QED BY <1>1, <1>2, <1>3, <1>4, <1>5, <1>6, <1>7 DEF Core

LEMMA UpdateDoneStep ==
    ASSUME TypeOK, Core, Ordinary', UpdateDone
    PROVE  Core'
<1>1. met' = {}
  BY DEF Core, Ordinary, UpdateDone, SuccessorManifest, Meets, NoUpdate,
     machine, supervisor, tasks
<1>2. Tasks'
  BY <1>1 DEF TypeOK, Core, Tasks, Registered, Stages, Premises, NoOrphan,
     Listed, UpdateDone, SuccessorManifest, Meets, NoUpdate, machine,
     supervisor, tasks
<1>3. Registered'
  BY <1>1 DEF TypeOK, Core, Tasks, Registered, Stages, Premises, NoOrphan,
     Listed, UpdateDone, SuccessorManifest, Meets, NoUpdate, machine,
     supervisor, tasks
<1>4. Stages'
  BY <1>1 DEF TypeOK, Core, Tasks, Registered, Stages, Premises, NoOrphan,
     Listed, UpdateDone, SuccessorManifest, Meets, NoUpdate, machine,
     supervisor, tasks
<1>5. Premises'
  BY <1>1 DEF TypeOK, Core, Tasks, Registered, Stages, Premises, NoOrphan,
     Listed, UpdateDone, SuccessorManifest, Meets, NoUpdate, machine,
     supervisor, tasks
<1>6. NoOrphan'
  BY <1>1 DEF TypeOK, Core, Tasks, Registered, Stages, Premises, NoOrphan,
     Listed, UpdateDone, SuccessorManifest, Meets, NoUpdate, machine,
     supervisor, tasks
<1>7. Listed'
  BY <1>1 DEF TypeOK, Core, Tasks, Registered, Stages, Premises, NoOrphan,
     Listed, UpdateDone, SuccessorManifest, Meets, NoUpdate, machine,
     supervisor, tasks
<1>. QED BY <1>1, <1>2, <1>3, <1>4, <1>5, <1>6, <1>7 DEF Core

LEMMA RestartRequestStep ==
    ASSUME TypeOK, Core, Ordinary', RestartRequest
    PROVE  Core'
<1>1. met' = {}
  BY DEF Core, Ordinary, RestartRequest, Meets, EnsureFrom, BeginStart,
     Uses, machine, supervisor, tasks
<1>2. Tasks'
  <2>1. upd.pc = "idle" /\ upd' = upd /\ instance' = instance /\ circuitOpen' = circuitOpen
    BY <1>1 DEF RestartRequest, Meets, supervisor
  <2>2. used'.restart > 0
    BY DEF RestartRequest, Uses, TypeOK
  <2>3. \/ start' = start
        \/ start'.pc = "probing" /\ instance = None /\ ~circuitOpen
    BY DEF RestartRequest, EnsureFrom, BeginStart
  <2>4. restart'.pc = "waiting" \/ restart' = restart
    BY DEF RestartRequest
  <2>. QED BY <2>1, <2>2, <2>3, <2>4 DEF Core, Tasks
<1>3. Registered'
  BY <1>1 DEF TypeOK, Core, Tasks, Registered, Stages, Premises, NoOrphan,
     Listed, RestartRequest, Meets, EnsureFrom, BeginStart, Uses, machine,
     supervisor, tasks
<1>4. Stages'
  BY <1>1 DEF TypeOK, Core, Tasks, Registered, Stages, Premises, NoOrphan,
     Listed, RestartRequest, Meets, EnsureFrom, BeginStart, Uses, machine,
     supervisor, tasks
<1>5. Premises'
  BY <1>1 DEF TypeOK, Core, Tasks, Registered, Stages, Premises, NoOrphan,
     Listed, RestartRequest, Meets, EnsureFrom, BeginStart, Uses, machine,
     supervisor, tasks
<1>6. NoOrphan'
  BY <1>1 DEF TypeOK, Core, Tasks, Registered, Stages, Premises, NoOrphan,
     Listed, RestartRequest, Meets, EnsureFrom, BeginStart, Uses, machine,
     supervisor, tasks
<1>7. Listed'
  BY <1>1 DEF TypeOK, Core, Tasks, Registered, Stages, Premises, NoOrphan,
     Listed, RestartRequest, Meets, EnsureFrom, BeginStart, Uses, machine,
     supervisor, tasks
<1>. QED BY <1>1, <1>2, <1>3, <1>4, <1>5, <1>6, <1>7 DEF Core

LEMMA RestartAbortsStep ==
    ASSUME TypeOK, Core, Ordinary', RestartAborts
    PROVE  Core'
<1>1. met' = {}
  BY DEF Core, Ordinary, RestartAborts, NoRestart, machine, supervisor,
     tasks
<1>2. Tasks'
  BY <1>1 DEF TypeOK, Core, Tasks, Registered, Stages, Premises, NoOrphan,
     Listed, RestartAborts, NoRestart, machine, supervisor, tasks
<1>3. Registered'
  BY <1>1 DEF TypeOK, Core, Tasks, Registered, Stages, Premises, NoOrphan,
     Listed, RestartAborts, NoRestart, machine, supervisor, tasks
<1>4. Stages'
  BY <1>1 DEF TypeOK, Core, Tasks, Registered, Stages, Premises, NoOrphan,
     Listed, RestartAborts, NoRestart, machine, supervisor, tasks
<1>5. Premises'
  BY <1>1 DEF TypeOK, Core, Tasks, Registered, Stages, Premises, NoOrphan,
     Listed, RestartAborts, NoRestart, machine, supervisor, tasks
<1>6. NoOrphan'
  BY <1>1 DEF TypeOK, Core, Tasks, Registered, Stages, Premises, NoOrphan,
     Listed, RestartAborts, NoRestart, machine, supervisor, tasks
<1>7. Listed'
  BY <1>1 DEF TypeOK, Core, Tasks, Registered, Stages, Premises, NoOrphan,
     Listed, RestartAborts, NoRestart, machine, supervisor, tasks
<1>. QED BY <1>1, <1>2, <1>3, <1>4, <1>5, <1>6, <1>7 DEF Core

LEMMA StopStep ==
    ASSUME TypeOK, Core, Ordinary', Stop
    PROVE  Core'
<1>1. met' = {}
  BY DEF Core, Ordinary, Stop, Terminate, NoPoll, machine, supervisor, tasks
<1>2. Tasks'
  BY <1>1 DEF TypeOK, Core, Tasks, Registered, Stages, Premises, NoOrphan,
     Listed, Stop, Terminate, NoPoll, machine, supervisor, tasks
<1>3. Registered'
  BY <1>1 DEF TypeOK, Core, Tasks, Registered, Stages, Premises, NoOrphan,
     Listed, Stop, Terminate, NoPoll, machine, supervisor, tasks
<1>4. Stages'
  BY <1>1 DEF TypeOK, Core, Tasks, Registered, Stages, Premises, NoOrphan,
     Listed, Stop, Terminate, NoPoll, machine, supervisor, tasks
<1>5. Premises'
  BY <1>1 DEF TypeOK, Core, Tasks, Registered, Stages, Premises, NoOrphan,
     Listed, Stop, Terminate, NoPoll, machine, supervisor, tasks
<1>6. NoOrphan'
  BY <1>1 DEF TypeOK, Core, Tasks, Registered, Stages, Premises, NoOrphan,
     Listed, Stop, Terminate, NoPoll, machine, supervisor, tasks
<1>7. Listed'
  BY <1>1 DEF TypeOK, Core, Tasks, Registered, Stages, Premises, NoOrphan,
     Listed, Stop, Terminate, NoPoll, machine, supervisor, tasks
<1>. QED BY <1>1, <1>2, <1>3, <1>4, <1>5, <1>6, <1>7 DEF Core

LEMMA StoppedStep ==
    ASSUME TypeOK, Core, Ordinary', Stopped
    PROVE  Core'
<1>1. met' = {}
  BY DEF Core, Ordinary, Stopped, NoRestart, EnsureFrom, BeginStart,
     machine, supervisor, tasks
<1>2. Tasks'
  BY <1>1 DEF TypeOK, Core, Tasks, Registered, Stages, Premises, NoOrphan,
     Listed, Stopped, NoRestart, EnsureFrom, BeginStart, machine,
     supervisor, tasks
<1>3. Registered'
  BY <1>1 DEF TypeOK, Core, Tasks, Registered, Stages, Premises, NoOrphan,
     Listed, Stopped, NoRestart, EnsureFrom, BeginStart, machine,
     supervisor, tasks
<1>4. Stages'
  BY <1>1 DEF TypeOK, Core, Tasks, Registered, Stages, Premises, NoOrphan,
     Listed, Stopped, NoRestart, EnsureFrom, BeginStart, machine,
     supervisor, tasks
<1>5. Premises'
  BY <1>1 DEF TypeOK, Core, Tasks, Registered, Stages, Premises, NoOrphan,
     Listed, Stopped, NoRestart, EnsureFrom, BeginStart, machine,
     supervisor, tasks
<1>6. NoOrphan'
  BY <1>1 DEF TypeOK, Core, Tasks, Registered, Stages, Premises, NoOrphan,
     Listed, Stopped, NoRestart, EnsureFrom, BeginStart, machine,
     supervisor, tasks
<1>7. Listed'
  BY <1>1 DEF TypeOK, Core, Tasks, Registered, Stages, Premises, NoOrphan,
     Listed, Stopped, NoRestart, EnsureFrom, BeginStart, machine,
     supervisor, tasks
<1>. QED BY <1>1, <1>2, <1>3, <1>4, <1>5, <1>6, <1>7 DEF Core

LEMMA HostRestartsStep ==
    ASSUME TypeOK, Core, Ordinary', Unstopped => Kept, HostRestarts
    PROVE  Core'
<1>1. met' = {}
  BY DEF Core, Ordinary, HostRestarts, Quiet, Meets, Uses, NoPoll, NoStart,
     NoUpdate, NoRestart, machine, supervisor, tasks
<1>2. Tasks'
  BY <1>1 DEF TypeOK, Core, Tasks, Registered, Stages, Premises, NoOrphan,
     Listed, HostRestarts, Quiet, Meets, Uses, NoPoll, NoStart, NoUpdate,
     NoRestart, machine, supervisor, tasks
<1>3. Registered'
  BY <1>1 DEF TypeOK, Core, Tasks, Registered, Stages, Premises, NoOrphan,
     Listed, HostRestarts, Quiet, Meets, Uses, NoPoll, NoStart, NoUpdate,
     NoRestart, machine, supervisor, tasks
<1>4. Stages'
  BY <1>1 DEF TypeOK, Core, Tasks, Registered, Stages, Premises, NoOrphan,
     Listed, HostRestarts, Quiet, Meets, Uses, NoPoll, NoStart, NoUpdate,
     NoRestart, machine, supervisor, tasks
<1>5. Premises'
  BY <1>1 DEF TypeOK, Core, Tasks, Registered, Stages, Premises, NoOrphan,
     Listed, HostRestarts, Quiet, Meets, Uses, NoPoll, NoStart, NoUpdate,
     NoRestart, machine, supervisor, tasks
<1>6. NoOrphan'
  BY <1>1 DEF TypeOK, Core, Tasks, Registered, Stages, Premises, NoOrphan,
     Listed, HostRestarts, Quiet, Meets, Uses, NoPoll, NoStart, NoUpdate,
     NoRestart, machine, supervisor, tasks
<1>7. Listed'
  <2>1. Quiet
    BY <1>1 DEF HostRestarts, Meets
  <2>2. instance' = None /\ start'.pc = "idle" /\ manifest' = manifest /\ upd'.pc = "idle"
       /\ proc' = proc /\ used'.restart = used.restart
    BY DEF HostRestarts, Uses, NoStart, NoUpdate, machine, TypeOK
  <2>3. ASSUME NEW p \in Pids, Contender(p)
        PROVE  manifest \in {None, p} /\ (used.restart = 0 => manifest = p)
    <3>1. CASE instance = None
      BY <2>1, <2>3, <3>1 DEF Core, Listed, Quiet
    <3>2. CASE instance # None
      <4>1. instance = p
        BY <2>1, <2>3, <3>2 DEF Core, Premises, Quiet
      <4>2. used.restart = 0 => manifest = p
        BY <2>1, <2>3, <3>2, <4>1 DEF Core, Unstopped, Kept, Recorded, Quiet
      <4>. QED BY <3>2, <4>1, <4>2 DEF Core, Listed
    <3>. QED BY <3>1, <3>2
  <2>. QED BY <2>2, <2>3 DEF Listed
<1>. QED BY <1>1, <1>2, <1>3, <1>4, <1>5, <1>6, <1>7 DEF Core

LEMMA SpawnChildStep ==
    ASSUME TypeOK, Core, Ordinary', NEW p \in Pids, SpawnChild(p)
    PROVE  Core'
<1>1. met' = {}
  BY DEF Core, Ordinary, SpawnChild, Fresh, machine, supervisor, tasks
<1>2. Tasks'
  BY <1>1 DEF TypeOK, Core, Tasks, Registered, Stages, Premises, NoOrphan,
     Listed, SpawnChild, Fresh, machine, supervisor, tasks
<1>3. Registered'
  BY <1>1 DEF TypeOK, Core, Tasks, Registered, Stages, Premises, NoOrphan,
     Listed, SpawnChild, Fresh, machine, supervisor, tasks
<1>4. Stages'
  BY <1>1 DEF TypeOK, Core, Tasks, Registered, Stages, Premises, NoOrphan,
     Listed, SpawnChild, Fresh, machine, supervisor, tasks
<1>5. Premises'
  BY <1>1 DEF TypeOK, Core, Tasks, Registered, Stages, Premises, NoOrphan,
     Listed, SpawnChild, Fresh, machine, supervisor, tasks
<1>6. NoOrphan'
  BY <1>1 DEF TypeOK, Core, Tasks, Registered, Stages, Premises, NoOrphan,
     Listed, SpawnChild, Fresh, machine, supervisor, tasks
<1>7. Listed'
  BY <1>1 DEF TypeOK, Core, Tasks, Registered, Stages, Premises, NoOrphan,
     Listed, SpawnChild, Fresh, machine, supervisor, tasks
<1>. QED BY <1>1, <1>2, <1>3, <1>4, <1>5, <1>6, <1>7 DEF Core

LEMMA ExitEventStep ==
    ASSUME TypeOK, Core, Ordinary', NEW p \in Pids, ExitEvent(p)
    PROVE  Core'
<1>1. met' = {}
  BY DEF Core, Ordinary, ExitEvent, Trips, EnsureFrom, BeginStart, machine,
     supervisor, tasks
<1>2. Tasks'
  BY <1>1 DEF TypeOK, Core, Tasks, Registered, Stages, Premises, NoOrphan,
     Listed, ExitEvent, Trips, EnsureFrom, BeginStart, machine, supervisor,
     tasks
<1>3. Registered'
  BY <1>1 DEF TypeOK, Core, Tasks, Registered, Stages, Premises, NoOrphan,
     Listed, ExitEvent, Trips, EnsureFrom, BeginStart, machine, supervisor,
     tasks
<1>4. Stages'
  BY <1>1 DEF TypeOK, Core, Tasks, Registered, Stages, Premises, NoOrphan,
     Listed, ExitEvent, Trips, EnsureFrom, BeginStart, machine, supervisor,
     tasks
<1>5. Premises'
  BY <1>1 DEF TypeOK, Core, Tasks, Registered, Stages, Premises, NoOrphan,
     Listed, ExitEvent, Trips, EnsureFrom, BeginStart, machine, supervisor,
     tasks
<1>6. NoOrphan'
  BY <1>1 DEF TypeOK, Core, Tasks, Registered, Stages, Premises, NoOrphan,
     Listed, ExitEvent, Trips, EnsureFrom, BeginStart, machine, supervisor,
     tasks
<1>7. Listed'
  BY <1>1 DEF TypeOK, Core, Tasks, Registered, Stages, Premises, NoOrphan,
     Listed, ExitEvent, Trips, EnsureFrom, BeginStart, machine, supervisor,
     tasks
<1>. QED BY <1>1, <1>2, <1>3, <1>4, <1>5, <1>6, <1>7 DEF Core

LEMMA HandsOverStep ==
    ASSUME TypeOK, Core, Ordinary', NEW p \in Pids, HandsOver(p)
    PROVE  Core'
<1>1. met' = {}
  BY DEF Core, Ordinary, HandsOver, Answers, Fresh, machine, supervisor,
     tasks
<1>2. Tasks'
  BY <1>1 DEF TypeOK, Core, Tasks, Registered, Stages, Premises, NoOrphan,
     Listed, HandsOver, Answers, Fresh, machine, supervisor, tasks
<1>3. Registered'
  BY <1>1 DEF TypeOK, Core, Tasks, Registered, Stages, Premises, NoOrphan,
     Listed, HandsOver, Answers, Fresh, machine, supervisor, tasks
<1>4. Stages'
  <2>1. path \in Pids /\ path # p /\ path = upd.pid
    BY DEF TypeOK, Core, Tasks, Premises, NoOrphan, HandsOver, Answers, Fresh
  <2>2. /\ upd'.pc = "exiting" /\ upd'.succ = p /\ upd'.pid = path
        /\ start.pc = "idle" /\ start' = start
        /\ pred'[p] = path /\ proc'[p] = "waiting" /\ proc'[path] = "leaving"
    BY <2>1 DEF TypeOK, Core, Tasks, HandsOver
  <2>3. \A q \in Pids \ {p, path} :
          proc'[q] = proc[q] /\ proc[q] \notin {"booting", "waiting", "leaving"}
    BY <2>1 DEF TypeOK, Core, Tasks, Stages, HandsOver
  <2>. QED BY <2>1, <2>2, <2>3 DEF Stages
<1>5. Premises'
  BY <1>1 DEF TypeOK, Core, Tasks, Registered, Stages, Premises, NoOrphan,
     Listed, HandsOver, Answers, Fresh, machine, supervisor, tasks
<1>6. NoOrphan'
  BY <1>1 DEF TypeOK, Core, Tasks, Registered, Stages, Premises, NoOrphan,
     Listed, HandsOver, Answers, Fresh, machine, supervisor, tasks
<1>7. Listed'
  BY <1>1 DEF TypeOK, Core, Tasks, Registered, Stages, Premises, NoOrphan,
     Listed, HandsOver, Answers, Fresh, machine, supervisor, tasks
<1>. QED BY <1>1, <1>2, <1>3, <1>4, <1>5, <1>6, <1>7 DEF Core

LEMMA BootStep ==
    ASSUME TypeOK, Core, Ordinary', NEW p \in Pids, Boot(p)
    PROVE  Core'
<1>1. met' = {}
  BY DEF Core, Ordinary, Boot, machine, supervisor, tasks
<1>2. Tasks'
  BY <1>1 DEF TypeOK, Core, Tasks, Registered, Stages, Premises, NoOrphan,
     Listed, Boot, machine, supervisor, tasks
<1>3. Registered'
  BY <1>1 DEF TypeOK, Core, Tasks, Registered, Stages, Premises, NoOrphan,
     Listed, Boot, machine, supervisor, tasks
<1>4. Stages'
  BY <1>1 DEF TypeOK, Core, Tasks, Registered, Stages, Premises, NoOrphan,
     Listed, Boot, machine, supervisor, tasks
<1>5. Premises'
  BY <1>1 DEF TypeOK, Core, Tasks, Registered, Stages, Premises, NoOrphan,
     Listed, Boot, machine, supervisor, tasks
<1>6. NoOrphan'
  BY <1>1 DEF TypeOK, Core, Tasks, Registered, Stages, Premises, NoOrphan,
     Listed, Boot, machine, supervisor, tasks
<1>7. Listed'
  BY <1>1 DEF TypeOK, Core, Tasks, Registered, Stages, Premises, NoOrphan,
     Listed, Boot, machine, supervisor, tasks
<1>. QED BY <1>1, <1>2, <1>3, <1>4, <1>5, <1>6, <1>7 DEF Core

LEMMA LeaveStep ==
    ASSUME TypeOK, Core, Ordinary', NEW p \in Pids, Leave(p)
    PROVE  Core'
<1>1. met' = {}
  BY DEF Core, Ordinary, Leave, machine, supervisor, tasks
<1>2. Tasks'
  BY <1>1 DEF TypeOK, Core, Tasks, Registered, Stages, Premises, NoOrphan,
     Listed, Leave, machine, supervisor, tasks
<1>3. Registered'
  BY <1>1 DEF TypeOK, Core, Tasks, Registered, Stages, Premises, NoOrphan,
     Listed, Leave, machine, supervisor, tasks
<1>4. Stages'
  BY <1>1 DEF TypeOK, Core, Tasks, Registered, Stages, Premises, NoOrphan,
     Listed, Leave, machine, supervisor, tasks
<1>5. Premises'
  BY <1>1 DEF TypeOK, Core, Tasks, Registered, Stages, Premises, NoOrphan,
     Listed, Leave, machine, supervisor, tasks
<1>6. NoOrphan'
  BY <1>1 DEF TypeOK, Core, Tasks, Registered, Stages, Premises, NoOrphan,
     Listed, Leave, machine, supervisor, tasks
<1>7. Listed'
  BY <1>1 DEF TypeOK, Core, Tasks, Registered, Stages, Premises, NoOrphan,
     Listed, Leave, machine, supervisor, tasks
<1>. QED BY <1>1, <1>2, <1>3, <1>4, <1>5, <1>6, <1>7 DEF Core

LEMMA BindStep ==
    ASSUME TypeOK, Core, Ordinary', NEW p \in Pids, Bind(p)
    PROVE  Core'
<1>1. met' = {}
  BY DEF Core, Ordinary, Bind, machine, supervisor, tasks
<1>2. Tasks'
  BY <1>1 DEF TypeOK, Core, Tasks, Registered, Stages, Premises, NoOrphan,
     Listed, Bind, machine, supervisor, tasks
<1>3. Registered'
  BY <1>1 DEF TypeOK, Core, Tasks, Registered, Stages, Premises, NoOrphan,
     Listed, Bind, machine, supervisor, tasks
<1>4. Stages'
  BY <1>1 DEF TypeOK, Core, Tasks, Registered, Stages, Premises, NoOrphan,
     Listed, Bind, machine, supervisor, tasks
<1>5. Premises'
  BY <1>1 DEF TypeOK, Core, Tasks, Registered, Stages, Premises, NoOrphan,
     Listed, Bind, machine, supervisor, tasks
<1>6. NoOrphan'
  BY <1>1 DEF TypeOK, Core, Tasks, Registered, Stages, Premises, NoOrphan,
     Listed, Bind, machine, supervisor, tasks
<1>7. Listed'
  BY <1>1 DEF TypeOK, Core, Tasks, Registered, Stages, Premises, NoOrphan,
     Listed, Bind, machine, supervisor, tasks
<1>. QED BY <1>1, <1>2, <1>3, <1>4, <1>5, <1>6, <1>7 DEF Core

LEMMA DrainedStep ==
    ASSUME TypeOK, Core, Ordinary', NEW p \in Pids, Drained(p)
    PROVE  Core'
<1>1. met' = {}
  BY DEF Core, Ordinary, Drained, machine, supervisor, tasks
<1>2. Tasks'
  BY <1>1 DEF TypeOK, Core, Tasks, Registered, Stages, Premises, NoOrphan,
     Listed, Drained, machine, supervisor, tasks
<1>3. Registered'
  BY <1>1 DEF TypeOK, Core, Tasks, Registered, Stages, Premises, NoOrphan,
     Listed, Drained, machine, supervisor, tasks
<1>4. Stages'
  BY <1>1 DEF TypeOK, Core, Tasks, Registered, Stages, Premises, NoOrphan,
     Listed, Drained, machine, supervisor, tasks
<1>5. Premises'
  BY <1>1 DEF TypeOK, Core, Tasks, Registered, Stages, Premises, NoOrphan,
     Listed, Drained, machine, supervisor, tasks
<1>6. NoOrphan'
  BY <1>1 DEF TypeOK, Core, Tasks, Registered, Stages, Premises, NoOrphan,
     Listed, Drained, machine, supervisor, tasks
<1>7. Listed'
  BY <1>1 DEF TypeOK, Core, Tasks, Registered, Stages, Premises, NoOrphan,
     Listed, Drained, machine, supervisor, tasks
<1>. QED BY <1>1, <1>2, <1>3, <1>4, <1>5, <1>6, <1>7 DEF Core

LEMMA CrashStep ==
    ASSUME TypeOK, Core, Ordinary', NEW p \in Pids, Crash(p)
    PROVE  Core'
<1>1. met' = {}
  BY DEF Core, Ordinary, Crash, Uses, machine, supervisor, tasks
<1>2. Tasks'
  BY <1>1 DEF TypeOK, Core, Tasks, Registered, Stages, Premises, NoOrphan,
     Listed, Crash, Uses, machine, supervisor, tasks
<1>3. Registered'
  BY <1>1 DEF TypeOK, Core, Tasks, Registered, Stages, Premises, NoOrphan,
     Listed, Crash, Uses, machine, supervisor, tasks
<1>4. Stages'
  BY <1>1 DEF TypeOK, Core, Tasks, Registered, Stages, Premises, NoOrphan,
     Listed, Crash, Uses, machine, supervisor, tasks
<1>5. Premises'
  BY <1>1 DEF TypeOK, Core, Tasks, Registered, Stages, Premises, NoOrphan,
     Listed, Crash, Uses, machine, supervisor, tasks
<1>6. NoOrphan'
  BY <1>1 DEF TypeOK, Core, Tasks, Registered, Stages, Premises, NoOrphan,
     Listed, Crash, Uses, machine, supervisor, tasks
<1>7. Listed'
  BY <1>1 DEF TypeOK, Core, Tasks, Registered, Stages, Premises, NoOrphan,
     Listed, Crash, Uses, machine, supervisor, tasks
<1>. QED BY <1>1, <1>2, <1>3, <1>4, <1>5, <1>6, <1>7 DEF Core

-----------------------------------------------------------------------------
(* The manifest. *)

LEMMA EnsureKeeps ==
    ASSUME TypeOK, Unstopped, Kept, Unstopped', Ensure
    PROVE  Kept'
<1>1. Turns'
  BY DEF TypeOK, Unstopped, Kept, Turns, Recorded, Ensure, BeginStart,
     machine, supervisor, tasks
<1>2. Recorded'
  BY DEF TypeOK, Unstopped, Kept, Turns, Recorded, Ensure, BeginStart,
     machine, supervisor, tasks
<1>. QED BY <1>1, <1>2 DEF Kept

LEMMA AdoptAnsweringKeeps ==
    ASSUME TypeOK, Unstopped, Kept, Unstopped', AdoptAnswering
    PROVE  Kept'
<1>1. Turns'
  BY DEF TypeOK, Unstopped, Kept, Turns, Recorded, AdoptAnswering, Answers,
     Adopt, MayUpdate, Overlaps, Meets, BeginUpdate, Uses, NoStart, NoPoll,
     machine, supervisor, tasks
<1>2. Recorded'
  BY DEF TypeOK, Unstopped, Kept, Turns, Recorded, AdoptAnswering, Answers,
     Adopt, MayUpdate, Overlaps, Meets, BeginUpdate, Uses, NoStart, NoPoll,
     machine, supervisor, tasks
<1>. QED BY <1>1, <1>2 DEF Kept

LEMMA AdoptListedKeeps ==
    ASSUME TypeOK, Unstopped, Kept, Unstopped', AdoptListed
    PROVE  Kept'
<1>1. Turns'
  BY DEF TypeOK, Unstopped, Kept, Turns, Recorded, AdoptListed, Answers,
     TrustsListed, Adopt, MayUpdate, Overlaps, Meets, BeginUpdate, Uses,
     NoStart, NoPoll, machine, supervisor, tasks
<1>2. Recorded'
  BY DEF TypeOK, Unstopped, Kept, Turns, Recorded, AdoptListed, Answers,
     TrustsListed, Adopt, MayUpdate, Overlaps, Meets, BeginUpdate, Uses,
     NoStart, NoPoll, machine, supervisor, tasks
<1>. QED BY <1>1, <1>2 DEF Kept

LEMMA ConcedeKeeps ==
    ASSUME TypeOK, Unstopped, Kept, Unstopped', Concede
    PROVE  Kept'
<1>1. Turns'
  BY DEF TypeOK, Unstopped, Kept, Turns, Recorded, Concede, Mistakes,
     TrustsListed, Meets, Answers, machine, supervisor, tasks
<1>2. Recorded'
  BY DEF TypeOK, Unstopped, Kept, Turns, Recorded, Concede, Mistakes,
     TrustsListed, Meets, Answers, machine, supervisor, tasks
<1>. QED BY <1>1, <1>2 DEF Kept

LEMMA SpawnReadyKeeps ==
    ASSUME TypeOK, Unstopped, Kept, Unstopped', SpawnReady
    PROVE  Kept'
<1>1. Turns'
  BY DEF TypeOK, Unstopped, Kept, Turns, Recorded, SpawnReady, Answers,
     NoStart, machine, supervisor, tasks
<1>2. Recorded'
  BY DEF TypeOK, Unstopped, Kept, Turns, Recorded, SpawnReady, Answers,
     NoStart, machine, supervisor, tasks
<1>. QED BY <1>1, <1>2 DEF Kept

LEMMA SpawnTimeoutKeeps ==
    ASSUME TypeOK, Unstopped, Kept, Unstopped', SpawnTimeout
    PROVE  Kept'
<1>1. Turns'
  BY DEF TypeOK, Unstopped, Kept, Turns, Recorded, SpawnTimeout, Answers,
     NoStart, machine, supervisor, tasks
<1>2. Recorded'
  BY DEF TypeOK, Unstopped, Kept, Turns, Recorded, SpawnTimeout, Answers,
     NoStart, machine, supervisor, tasks
<1>. QED BY <1>1, <1>2 DEF Kept

LEMMA WindowPassesKeeps ==
    ASSUME TypeOK, Unstopped, Kept, Unstopped', WindowPasses
    PROVE  Kept'
<1>1. Turns'
  BY DEF TypeOK, Unstopped, Kept, Turns, Recorded, WindowPasses, machine,
     supervisor, tasks
<1>2. Recorded'
  BY DEF TypeOK, Unstopped, Kept, Turns, Recorded, WindowPasses, machine,
     supervisor, tasks
<1>. QED BY <1>1, <1>2 DEF Kept

LEMMA PollDeathKeeps ==
    ASSUME TypeOK, Unstopped, Kept, Unstopped', PollDeath
    PROVE  Kept'
<1>1. Turns'
  BY DEF TypeOK, Unstopped, Kept, Turns, Recorded, PollDeath, DeathClears,
     NoPoll, machine, supervisor, tasks
<1>2. Recorded'
  BY DEF TypeOK, Unstopped, Kept, Turns, Recorded, PollDeath, DeathClears,
     NoPoll, machine, supervisor, tasks
<1>. QED BY <1>1, <1>2 DEF Kept

LEMMA UpdateKeeps ==
    ASSUME TypeOK, Unstopped, Kept, Unstopped', Update
    PROVE  Kept'
<1>1. Turns'
  BY DEF TypeOK, Unstopped, Kept, Turns, Recorded, Update, MayUpdate,
     Overlaps, Meets, BeginUpdate, Uses, NoPoll, machine, supervisor, tasks
<1>2. Recorded'
  BY DEF TypeOK, Unstopped, Kept, Turns, Recorded, Update, MayUpdate,
     Overlaps, Meets, BeginUpdate, Uses, NoPoll, machine, supervisor, tasks
<1>. QED BY <1>1, <1>2 DEF Kept

LEMMA UpdateFailsKeeps ==
    ASSUME TypeOK, Unstopped, Kept, Unstopped', UpdateFails
    PROVE  Kept'
<1>1. Turns'
  BY DEF TypeOK, Unstopped, Kept, Turns, Recorded, UpdateFails, Rearmed,
     NoUpdate, machine, supervisor, tasks
<1>2. Recorded'
  BY DEF TypeOK, Unstopped, Kept, Turns, Recorded, UpdateFails, Rearmed,
     NoUpdate, machine, supervisor, tasks
<1>. QED BY <1>1, <1>2 DEF Kept

LEMMA KillPredecessorKeeps ==
    ASSUME TypeOK, Unstopped, Kept, Unstopped', KillPredecessor
    PROVE  Kept'
<1>1. Turns'
  BY DEF TypeOK, Unstopped, Kept, Turns, Recorded, KillPredecessor, machine,
     supervisor, tasks
<1>2. Recorded'
  BY DEF TypeOK, Unstopped, Kept, Turns, Recorded, KillPredecessor, machine,
     supervisor, tasks
<1>. QED BY <1>1, <1>2 DEF Kept

LEMMA PredecessorGoneKeeps ==
    ASSUME TypeOK, Unstopped, Kept, Unstopped', PredecessorGone
    PROVE  Kept'
<1>1. Turns'
  BY DEF TypeOK, Unstopped, Kept, Turns, Recorded, PredecessorGone, machine,
     supervisor, tasks
<1>2. Recorded'
  BY DEF TypeOK, Unstopped, Kept, Turns, Recorded, PredecessorGone, machine,
     supervisor, tasks
<1>. QED BY <1>1, <1>2 DEF Kept

LEMMA UpdateDoneKeeps ==
    ASSUME TypeOK, Unstopped, Kept, Unstopped', UpdateDone
    PROVE  Kept'
<1>1. Turns'
  BY DEF TypeOK, Unstopped, Kept, Turns, Recorded, UpdateDone,
     SuccessorManifest, Meets, NoUpdate, machine, supervisor, tasks
<1>2. Recorded'
  BY DEF TypeOK, Unstopped, Kept, Turns, Recorded, UpdateDone,
     SuccessorManifest, Meets, NoUpdate, machine, supervisor, tasks
<1>. QED BY <1>1, <1>2 DEF Kept

LEMMA RestartRequestKeeps ==
    ASSUME TypeOK, Unstopped, Kept, Unstopped', RestartRequest
    PROVE  Kept'
<1>1. Turns'
  BY DEF TypeOK, Unstopped, Kept, Turns, Recorded, RestartRequest, Meets,
     EnsureFrom, BeginStart, Uses, machine, supervisor, tasks
<1>2. Recorded'
  BY DEF TypeOK, Unstopped, Kept, Turns, Recorded, RestartRequest, Meets,
     EnsureFrom, BeginStart, Uses, machine, supervisor, tasks
<1>. QED BY <1>1, <1>2 DEF Kept

LEMMA RestartAbortsKeeps ==
    ASSUME TypeOK, Unstopped, Kept, Unstopped', RestartAborts
    PROVE  Kept'
<1>1. Turns'
  BY DEF TypeOK, Unstopped, Kept, Turns, Recorded, RestartAborts, NoRestart,
     machine, supervisor, tasks
<1>2. Recorded'
  BY DEF TypeOK, Unstopped, Kept, Turns, Recorded, RestartAborts, NoRestart,
     machine, supervisor, tasks
<1>. QED BY <1>1, <1>2 DEF Kept

LEMMA StopKeeps ==
    ASSUME TypeOK, Unstopped, Kept, Unstopped', Stop
    PROVE  Kept'
<1>1. Turns'
  BY DEF TypeOK, Unstopped, Kept, Turns, Recorded, Stop, Terminate, NoPoll,
     machine, supervisor, tasks
<1>2. Recorded'
  BY DEF TypeOK, Unstopped, Kept, Turns, Recorded, Stop, Terminate, NoPoll,
     machine, supervisor, tasks
<1>. QED BY <1>1, <1>2 DEF Kept

LEMMA StoppedKeeps ==
    ASSUME TypeOK, Unstopped, Kept, Unstopped', Stopped
    PROVE  Kept'
<1>1. Turns'
  BY DEF TypeOK, Unstopped, Kept, Turns, Recorded, Stopped, NoRestart,
     EnsureFrom, BeginStart, machine, supervisor, tasks
<1>2. Recorded'
  BY DEF TypeOK, Unstopped, Kept, Turns, Recorded, Stopped, NoRestart,
     EnsureFrom, BeginStart, machine, supervisor, tasks
<1>. QED BY <1>1, <1>2 DEF Kept

LEMMA HostRestartsKeeps ==
    ASSUME TypeOK, Unstopped, Kept, Unstopped', HostRestarts
    PROVE  Kept'
<1>1. Turns'
  BY DEF TypeOK, Unstopped, Kept, Turns, Recorded, HostRestarts, Quiet,
     Meets, Uses, NoPoll, NoStart, NoUpdate, NoRestart, machine, supervisor,
     tasks
<1>2. Recorded'
  BY DEF TypeOK, Unstopped, Kept, Turns, Recorded, HostRestarts, Quiet,
     Meets, Uses, NoPoll, NoStart, NoUpdate, NoRestart, machine, supervisor,
     tasks
<1>. QED BY <1>1, <1>2 DEF Kept

LEMMA SpawnChildKeeps ==
    ASSUME TypeOK, Unstopped, Kept, Unstopped', NEW p \in Pids, SpawnChild(p)
    PROVE  Kept'
<1>1. Turns'
  BY DEF TypeOK, Unstopped, Kept, Turns, Recorded, SpawnChild, Fresh,
     machine, supervisor, tasks
<1>2. Recorded'
  BY DEF TypeOK, Unstopped, Kept, Turns, Recorded, SpawnChild, Fresh,
     machine, supervisor, tasks
<1>. QED BY <1>1, <1>2 DEF Kept

LEMMA ExitEventKeeps ==
    ASSUME TypeOK, Unstopped, Kept, Unstopped', NEW p \in Pids, ExitEvent(p)
    PROVE  Kept'
<1>1. Turns'
  BY DEF TypeOK, Unstopped, Kept, Turns, Recorded, ExitEvent, Trips,
     EnsureFrom, BeginStart, machine, supervisor, tasks
<1>2. Recorded'
  BY DEF TypeOK, Unstopped, Kept, Turns, Recorded, ExitEvent, Trips,
     EnsureFrom, BeginStart, machine, supervisor, tasks
<1>. QED BY <1>1, <1>2 DEF Kept

LEMMA HandsOverKeeps ==
    ASSUME TypeOK, Unstopped, Kept, Unstopped', NEW p \in Pids, HandsOver(p)
    PROVE  Kept'
<1>1. Turns'
  BY DEF TypeOK, Unstopped, Kept, Turns, Recorded, HandsOver, Answers,
     Fresh, machine, supervisor, tasks
<1>2. Recorded'
  BY DEF TypeOK, Unstopped, Kept, Turns, Recorded, HandsOver, Answers,
     Fresh, machine, supervisor, tasks
<1>. QED BY <1>1, <1>2 DEF Kept

LEMMA BootKeeps ==
    ASSUME TypeOK, Unstopped, Kept, Unstopped', NEW p \in Pids, Boot(p)
    PROVE  Kept'
<1>1. Turns'
  BY DEF TypeOK, Unstopped, Kept, Turns, Recorded, Boot, machine,
     supervisor, tasks
<1>2. Recorded'
  BY DEF TypeOK, Unstopped, Kept, Turns, Recorded, Boot, machine,
     supervisor, tasks
<1>. QED BY <1>1, <1>2 DEF Kept

LEMMA LeaveKeeps ==
    ASSUME TypeOK, Unstopped, Kept, Unstopped', NEW p \in Pids, Leave(p)
    PROVE  Kept'
<1>1. Turns'
  BY DEF TypeOK, Unstopped, Kept, Turns, Recorded, Leave, machine,
     supervisor, tasks
<1>2. Recorded'
  BY DEF TypeOK, Unstopped, Kept, Turns, Recorded, Leave, machine,
     supervisor, tasks
<1>. QED BY <1>1, <1>2 DEF Kept

LEMMA BindKeeps ==
    ASSUME TypeOK, Unstopped, Kept, Unstopped', NEW p \in Pids, Bind(p)
    PROVE  Kept'
<1>1. Turns'
  BY DEF TypeOK, Unstopped, Kept, Turns, Recorded, Bind, machine,
     supervisor, tasks
<1>2. Recorded'
  BY DEF TypeOK, Unstopped, Kept, Turns, Recorded, Bind, machine,
     supervisor, tasks
<1>. QED BY <1>1, <1>2 DEF Kept

LEMMA DrainedKeeps ==
    ASSUME TypeOK, Unstopped, Kept, Unstopped', NEW p \in Pids, Drained(p)
    PROVE  Kept'
<1>1. Turns'
  BY DEF TypeOK, Unstopped, Kept, Turns, Recorded, Drained, machine,
     supervisor, tasks
<1>2. Recorded'
  BY DEF TypeOK, Unstopped, Kept, Turns, Recorded, Drained, machine,
     supervisor, tasks
<1>. QED BY <1>1, <1>2 DEF Kept

LEMMA CrashKeeps ==
    ASSUME TypeOK, Unstopped, Kept, Unstopped', NEW p \in Pids, Crash(p)
    PROVE  Kept'
<1>1. Turns'
  BY DEF TypeOK, Unstopped, Kept, Turns, Recorded, Crash, Uses, machine,
     supervisor, tasks
<1>2. Recorded'
  BY DEF TypeOK, Unstopped, Kept, Turns, Recorded, Crash, Uses, machine,
     supervisor, tasks
<1>. QED BY <1>1, <1>2 DEF Kept

-----------------------------------------------------------------------------
(* The theorems. *)

LEMMA InitHolds ==
    ASSUME Init
    PROVE  Invariant
<1>1. TypeOK
  <2>1. used \in [{"crash", "restart", "update", "host"} -> Nat]
    BY DEF Init
  <2>2. poll \in [pid : Pids \cup {None}, clears : BOOLEAN]
    BY DEF Init, NoPoll
  <2>3. upd \in [pc : {"idle", "asked", "exiting", "probing"}, pid : Pids \cup {None},
                 succ : Pids \cup {None}, saved : Pids \cup {None}]
    BY DEF Init, NoUpdate
  <2>4. /\ start \in [pc : {"idle", "probing", "conceded", "spawning"}, pid : Pids \cup {None}]
        /\ restart \in [pc : {"idle", "waiting", "stopping"}, pid : Pids \cup {None}]
    BY DEF Init, NoStart, NoRestart
  <2>5. {stopping, circuitOpen} \subseteq BOOLEAN
    BY DEF Init
  <2>6. /\ {path, manifest, instance} \subseteq Pids \cup {None}
        /\ crashTimes \in Nat /\ ~(crashTimes > CrashBudget)
        /\ met \subseteq Circumstances
    BY DEF Init
  <2>7. /\ proc \in [Pids -> {"unborn", "booting", "waiting", "up", "leaving", "draining", "dead"}]
        /\ pred \in [Pids -> Pids \cup {None}]
        /\ wired \subseteq Pids
    BY DEF Init
  <2>. QED BY <2>1, <2>2, <2>3, <2>4, <2>5, <2>6, <2>7 DEF TypeOK
<1>2. Core
  BY DEF Init, Core, Tasks, Registered, Stages, Premises, NoOrphan, Listed, NoPoll, NoStart,
     NoUpdate, NoRestart
<1>3. Kept
  BY DEF Init, Kept, Turns, Recorded, NoPoll, NoStart, NoUpdate, NoRestart
<1>. QED BY <1>1, <1>2, <1>3 DEF Invariant

LEMMA CoreStep ==
    ASSUME TypeOK, Core, Unstopped => Kept, Ordinary', Next
    PROVE  Core'
<1>1. Next
  OBVIOUS
<1>. QED
  BY <1>1, EnsureStep, AdoptAnsweringStep, AdoptListedStep, ConcedeStep,
     SpawnReadyStep, SpawnTimeoutStep, WindowPassesStep, PollDeathStep,
     UpdateStep, UpdateFailsStep, KillPredecessorStep, PredecessorGoneStep,
     UpdateDoneStep, RestartRequestStep, RestartAbortsStep, StopStep,
     StoppedStep, HostRestartsStep, SpawnChildStep, ExitEventStep,
     HandsOverStep, BootStep, LeaveStep, BindStep, DrainedStep, CrashStep
     DEF Next

LEMMA KeptStep ==
    ASSUME TypeOK, Unstopped, Kept, Unstopped', Next
    PROVE  Kept'
<1>1. Next
  OBVIOUS
<1>. QED
  BY <1>1, EnsureKeeps, AdoptAnsweringKeeps, AdoptListedKeeps, ConcedeKeeps,
     SpawnReadyKeeps, SpawnTimeoutKeeps, WindowPassesKeeps, PollDeathKeeps,
     UpdateKeeps, UpdateFailsKeeps, KillPredecessorKeeps,
     PredecessorGoneKeeps, UpdateDoneKeeps, RestartRequestKeeps,
     RestartAbortsKeeps, StopKeeps, StoppedKeeps, HostRestartsKeeps,
     SpawnChildKeeps, ExitEventKeeps, HandsOverKeeps, BootKeeps, LeaveKeeps,
     BindKeeps, DrainedKeeps, CrashKeeps DEF Next

\* No step breaks the invariant.
LEMMA NextStep ==
    ASSUME Invariant, [Next]_vars
    PROVE  Invariant'
<1>1. TypeOK'
  BY TypesStep DEF Invariant
<1>2. CASE UNCHANGED vars
  BY <1>1, <1>2 DEF vars, machine, supervisor, tasks, Invariant, Ordinary, Unstopped, Core,
     Kept, Tasks, Registered, Stages, Premises, NoOrphan, Listed, Turns, Recorded
<1>3. CASE Next
  <2>1. ASSUME Ordinary' PROVE Core'
    BY <1>3, <2>1, OrdinaryBefore, CoreStep DEF Invariant
  <2>2. ASSUME Unstopped' PROVE Kept'
    <3>1. Unstopped
      BY <1>3, <2>2, Grows DEF Invariant, Unstopped
    <3>. QED BY <1>3, <2>2, <3>1, KeptStep DEF Invariant
  <2>. QED BY <1>1, <2>1, <2>2 DEF Invariant
<1>. QED BY <1>2, <1>3

\* The invariant holds in every reachable state.
THEOREM InvariantHolds == Spec => []Invariant
<1>1. Init => Invariant
  BY InitHolds
<1>2. Invariant /\ [Next]_vars => Invariant'
  BY NextStep
<1>. QED BY <1>1, <1>2, PTL DEF Spec

\* Types, and the circuit is open beyond the budget (handleChildExit).
THEOREM TypesHold == Spec => []TypeOK
<1>1. Invariant => TypeOK
  BY DEF Invariant
<1>. QED BY <1>1, InvariantHolds, PTL

\* There is one daemon, at the socket path, while none of the circumstances has
\* been met, a daemon that is slow to answer counting as met only after a
\* restart; and the manifest names it to the next host-service until a restart
\* is asked for or an own daemon is updated (start, tryAdopt, spawn, runUpdate,
\* stop).
THEOREM DaemonStaysKnown == Spec => []OneKnownDaemon
<1>1. Invariant => OneKnownDaemon
  BY DEF Invariant, OneKnownDaemon, ManifestNamesInstance, Ordinary, Core, Unstopped, Kept,
     Recorded, Quiet
<1>. QED BY <1>1, InvariantHolds, PTL
=============================================================================

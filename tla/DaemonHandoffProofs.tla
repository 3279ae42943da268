------------------------ MODULE DaemonHandoffProofs ------------------------
(***************************************************************************)
(* Proofs about DaemonHandoff, for any number of daemons in a row, any set *)
(* of shells and any number of kills, as long as the predecessor leaves    *)
(* within the second its successor waits (Stall = FALSE).                  *)
(*                                                                         *)
(* The argument: a running daemon is in office (it serves, or is on its    *)
(* way out) or a candidate, and of two running daemons one is in office    *)
(* and the other its candidate (Succession).  So nobody but the daemon in  *)
(* office touches the path, and unless a daemon is killed there is always  *)
(* an owner that holds every shell alive: the daemon in office, or the     *)
(* candidate it left behind (Estate).                                      *)
(***************************************************************************)
EXTENDS DaemonHandoff, TLAPS

Office     == {"serving", "leaving", "closed"}
Candidacy  == {"starting", "failing", "waiting"}
InOffice(d)  == st[d] \in Office
Candidate(n) == st[n] \in Candidacy
Succeeds(n, d) == Candidate(n) /\ InOffice(d) /\ parent[n] = d

\* The parts of the inductive invariant.
Succession ==
    /\ \A n \in Daemons : Candidate(n) => parent[n] \in Daemons
    /\ \A n \in Daemons : parent[n] # n
    /\ \A n \in Daemons : parent[n] \in Daemons => st[parent[n]] # "unborn"
    /\ \A d, e \in Daemons :
          d # e /\ Running(d) /\ Running(e) => Succeeds(d, e) \/ Succeeds(e, d)

Verdicts ==
    /\ \A n \in Daemons : st[n] = "unborn" => verdict[n] = "open" /\ ipc[n] = "none"
    /\ \A n \in Daemons : Candidate(n) /\ verdict[n] # "open" =>
          verdict[n] = "ok" /\ st[parent[n]] \in {"leaving", "closed", "dead"}

\* What a process holds, by its state.
Matched  == \A d \in Daemons : InOffice(d) \/ st[d] = "waiting" => fds[d] = rows[d]
Bare     == \A n \in Daemons : st[n] \in {"starting", "failing"} => rows[n] = {}
Stocked  == \A n \in Daemons : st[n] = "starting" => fds[n] = snap[n]
Born     == \A d \in Daemons, s \in Shells :
                s \in fds[d] \/ s \in snap[d] => shell[s] # "unborn"
Holdings == Matched /\ Bare /\ Stocked /\ Born

\* The daemon that has every living shell.
Owner(d) ==
    \/ InOffice(d)
    \/ st[d] = "waiting" /\ ~Running(parent[d])

Owned == \E d \in Daemons : Owner(d) /\ \A s \in Shells : Alive(s) => s \in rows[d]

Kept ==
    \A n \in Daemons, s \in Shells :
        st[n] = "waiting" /\ s \in snap[n] /\ Alive(s) => s \in rows[n]

Late ==
    \A n, d \in Daemons, s \in Shells :
        Succeeds(n, d) /\ s \in rows[d] => s \in snap[n] \/ opener[s] = d

AckWaits ==
    \A n \in Daemons :
        ipc[n] = "ack" /\ parent[n] \in Daemons /\ Running(parent[n]) => st[n] = "waiting"

HeirWaits ==
    \A d \in Daemons : st[d] \in {"leaving", "closed"} =>
        \E n \in Daemons : st[n] = "waiting" /\ parent[n] = d /\ verdict[n] = "ok"

Estate == Owned /\ Kept /\ Late /\ AckWaits /\ HeirWaits

Invariant ==
    /\ TypeOK
    /\ Succession
    /\ Verdicts
    /\ ServingReachable
    /\ Holdings
    /\ crashes = 0 => Estate
    /\ HandoffKeepsShells

USE DEF Daemons, None, Running, Serves, Adopted, Alive, Pending, Office, Candidacy,
        InOffice, Candidate, Succeeds, Connected

LEMMA OpenSessionStep ==
    ASSUME Invariant, NEW d \in Daemons, NEW s \in Shells, OpenSession(d, s)
    PROVE  Invariant'
<1>1. TypeOK'
  BY HandoffAssumption DEF Invariant, TypeOK, Holdings, Matched, Bare,
     Stocked, Born, OpenSession
<1>2. Succession'
  BY DEF Invariant, TypeOK, Succession, Verdicts, OpenSession
<1>3. Verdicts'
  BY DEF Invariant, TypeOK, Succession, Verdicts, Holdings, Matched, Bare,
     Stocked, Born, OpenSession
<1>4. ServingReachable'
  BY DEF Invariant, TypeOK, Succession, ServingReachable, OpenSession
<1>5. Holdings'
  <2>1. Matched'
    <3>. SUFFICES ASSUME NEW e \in Daemons, InOffice(e)' \/ st'[e] = "waiting"
                  PROVE  fds'[e] = rows'[e]
      BY DEF Matched
    <3>1. fds[e] = rows[e]
      BY DEF Invariant, Holdings, Matched, OpenSession
    <3>. QED
      BY <3>1 DEF Invariant, TypeOK, OpenSession
  <2>2. Bare'
    BY DEF Invariant, TypeOK, Succession, Holdings, Bare, OpenSession
  <2>3. Stocked'
    BY DEF Invariant, TypeOK, Succession, Holdings, Stocked, OpenSession
  <2>4. Born'
    BY DEF Invariant, TypeOK, Succession, Holdings, Born, Matched,
       OpenSession
  <2>. QED BY <2>1, <2>2, <2>3, <2>4 DEF Holdings
<1>6. crashes' = 0 => Estate'
  <2>. SUFFICES ASSUME crashes' = 0 PROVE Estate'
    OBVIOUS
  <2>1. Owned'
    BY DEF Invariant, TypeOK, Succession, Verdicts, Holdings, Matched,
       Bare, Stocked, Born, Estate, Owner, Owned, OpenSession
  <2>2. Kept'
    BY DEF Invariant, TypeOK, Succession, Verdicts, Holdings, Matched,
       Bare, Stocked, Born, Estate, Kept, OpenSession
  <2>3. Late'
    BY DEF Invariant, TypeOK, Succession, Verdicts, Holdings, Matched,
       Bare, Stocked, Born, Estate, Late, OpenSession
  <2>4. AckWaits'
    BY DEF Invariant, TypeOK, Succession, Verdicts, Holdings, Matched,
       Bare, Stocked, Born, Estate, AckWaits, OpenSession
  <2>5. HeirWaits'
    BY DEF Invariant, TypeOK, Succession, Verdicts, Holdings, Matched,
       Bare, Stocked, Born, Estate, HeirWaits, OpenSession
  <2>. QED BY <2>1, <2>2, <2>3, <2>4, <2>5 DEF Estate
<1>7. HandoffKeepsShells'
  BY DEF Invariant, TypeOK, Succession, Verdicts, Holdings, Matched, Bare,
     Stocked, Born, Estate, Owned, Owner, Kept, Late, AckWaits, HeirWaits,
     HandoffKeepsShells, OpenSession
<1>. QED BY <1>1, <1>2, <1>3, <1>4, <1>5, <1>6, <1>7 DEF Invariant

LEMMA CloseSessionStep ==
    ASSUME Invariant, NEW d \in Daemons, NEW s \in Shells, CloseSession(d, s)
    PROVE  Invariant'
<1>1. TypeOK'
  BY HandoffAssumption DEF Invariant, TypeOK, Holdings, Matched, Bare,
     Stocked, Born, CloseSession
<1>2. Succession'
  BY DEF Invariant, TypeOK, Succession, Verdicts, CloseSession
<1>3. Verdicts'
  BY DEF Invariant, TypeOK, Succession, Verdicts, Holdings, Matched, Bare,
     Stocked, Born, CloseSession
<1>4. ServingReachable'
  BY DEF Invariant, TypeOK, Succession, ServingReachable, CloseSession
<1>5. Holdings'
  <2>1. Matched'
    <3>. SUFFICES ASSUME NEW e \in Daemons, InOffice(e)' \/ st'[e] = "waiting"
                  PROVE  fds'[e] = rows'[e]
      BY DEF Matched
    <3>1. fds[e] = rows[e]
      BY DEF Invariant, Holdings, Matched, CloseSession
    <3>. QED
      BY <3>1 DEF Invariant, TypeOK, CloseSession
  <2>2. Bare'
    BY DEF Invariant, TypeOK, Succession, Holdings, Bare, CloseSession
  <2>3. Stocked'
    BY DEF Invariant, TypeOK, Succession, Holdings, Stocked, CloseSession
  <2>4. Born'
    BY DEF Invariant, TypeOK, Succession, Holdings, Born, Matched,
       CloseSession
  <2>. QED BY <2>1, <2>2, <2>3, <2>4 DEF Holdings
<1>6. crashes' = 0 => Estate'
  <2>. SUFFICES ASSUME crashes' = 0 PROVE Estate'
    OBVIOUS
  <2>1. Owned'
    BY DEF Invariant, TypeOK, Succession, Verdicts, Holdings, Matched,
       Bare, Stocked, Born, Estate, Owner, Owned, CloseSession
  <2>2. Kept'
    BY DEF Invariant, TypeOK, Succession, Verdicts, Holdings, Matched,
       Bare, Stocked, Born, Estate, Kept, CloseSession
  <2>3. Late'
    BY DEF Invariant, TypeOK, Succession, Verdicts, Holdings, Matched,
       Bare, Stocked, Born, Estate, Late, CloseSession
  <2>4. AckWaits'
    BY DEF Invariant, TypeOK, Succession, Verdicts, Holdings, Matched,
       Bare, Stocked, Born, Estate, AckWaits, CloseSession
  <2>5. HeirWaits'
    BY DEF Invariant, TypeOK, Succession, Verdicts, Holdings, Matched,
       Bare, Stocked, Born, Estate, HeirWaits, CloseSession
  <2>. QED BY <2>1, <2>2, <2>3, <2>4, <2>5 DEF Estate
<1>7. HandoffKeepsShells'
  BY DEF Invariant, TypeOK, Succession, Verdicts, Holdings, Matched, Bare,
     Stocked, Born, Estate, Owned, Owner, Kept, Late, AckWaits, HeirWaits,
     HandoffKeepsShells, CloseSession
<1>. QED BY <1>1, <1>2, <1>3, <1>4, <1>5, <1>6, <1>7 DEF Invariant

LEMMA ReapStep ==
    ASSUME Invariant, NEW d \in Daemons, NEW s \in Shells, Reap(d, s)
    PROVE  Invariant'
<1>1. TypeOK'
  BY HandoffAssumption DEF Invariant, TypeOK, Holdings, Matched, Bare,
     Stocked, Born, Reap, shellVars
<1>2. Succession'
  BY DEF Invariant, TypeOK, Succession, Verdicts, Reap, shellVars
<1>3. Verdicts'
  BY DEF Invariant, TypeOK, Succession, Verdicts, Holdings, Matched, Bare,
     Stocked, Born, Reap, shellVars
<1>4. ServingReachable'
  BY DEF Invariant, TypeOK, Succession, ServingReachable, Reap, shellVars
<1>5. Holdings'
  <2>1. Matched'
    <3>. SUFFICES ASSUME NEW e \in Daemons, InOffice(e)' \/ st'[e] = "waiting"
                  PROVE  fds'[e] = rows'[e]
      BY DEF Matched
    <3>1. fds[e] = rows[e]
      BY DEF Invariant, Holdings, Matched, Reap, shellVars
    <3>. QED
      BY <3>1 DEF Invariant, TypeOK, Reap, shellVars
  <2>2. Bare'
    BY DEF Invariant, TypeOK, Succession, Holdings, Bare, Reap, shellVars
  <2>3. Stocked'
    BY DEF Invariant, TypeOK, Succession, Holdings, Stocked, Reap,
       shellVars
  <2>4. Born'
    BY DEF Invariant, TypeOK, Succession, Holdings, Born, Matched, Reap,
       shellVars
  <2>. QED BY <2>1, <2>2, <2>3, <2>4 DEF Holdings
<1>6. crashes' = 0 => Estate'
  <2>. SUFFICES ASSUME crashes' = 0 PROVE Estate'
    OBVIOUS
  <2>1. Owned'
    BY DEF Invariant, TypeOK, Succession, Verdicts, Holdings, Matched,
       Bare, Stocked, Born, Estate, Owner, Owned, Reap, shellVars
  <2>2. Kept'
    BY DEF Invariant, TypeOK, Succession, Verdicts, Holdings, Matched,
       Bare, Stocked, Born, Estate, Kept, Reap, shellVars
  <2>3. Late'
    BY DEF Invariant, TypeOK, Succession, Verdicts, Holdings, Matched,
       Bare, Stocked, Born, Estate, Late, Reap, shellVars
  <2>4. AckWaits'
    BY DEF Invariant, TypeOK, Succession, Verdicts, Holdings, Matched,
       Bare, Stocked, Born, Estate, AckWaits, Reap, shellVars
  <2>5. HeirWaits'
    BY DEF Invariant, TypeOK, Succession, Verdicts, Holdings, Matched,
       Bare, Stocked, Born, Estate, HeirWaits, Reap, shellVars
  <2>. QED BY <2>1, <2>2, <2>3, <2>4, <2>5 DEF Estate
<1>7. HandoffKeepsShells'
  BY DEF Invariant, TypeOK, Succession, Verdicts, Holdings, Matched, Bare,
     Stocked, Born, Estate, Owned, Owner, Kept, Late, AckWaits, HeirWaits,
     HandoffKeepsShells, Reap, shellVars
<1>. QED BY <1>1, <1>2, <1>3, <1>4, <1>5, <1>6, <1>7 DEF Invariant

LEMMA ShellExitsStep ==
    ASSUME Invariant, NEW s \in Shells, ShellExits(s)
    PROVE  Invariant'
<1>1. TypeOK'
  BY HandoffAssumption DEF Invariant, TypeOK, Holdings, Matched, Bare,
     Stocked, Born, ShellExits, shellVars, daemonVars
<1>2. Succession'
  BY DEF Invariant, TypeOK, Succession, Verdicts, ShellExits, shellVars,
     daemonVars
<1>3. Verdicts'
  BY DEF Invariant, TypeOK, Succession, Verdicts, Holdings, Matched, Bare,
     Stocked, Born, ShellExits, shellVars, daemonVars
<1>4. ServingReachable'
  BY DEF Invariant, TypeOK, Succession, ServingReachable, ShellExits,
     shellVars, daemonVars
<1>5. Holdings'
  BY DEF Invariant, TypeOK, Succession, Holdings, Matched, Bare, Stocked,
     Born, ShellExits, shellVars, daemonVars
<1>6. crashes' = 0 => Estate'
  BY DEF Invariant, TypeOK, Succession, Verdicts, Holdings, Matched, Bare,
     Stocked, Born, Estate, Owned, Owner, Kept, Late, AckWaits, HeirWaits,
     ShellExits, shellVars, daemonVars
<1>7. HandoffKeepsShells'
  BY DEF Invariant, TypeOK, Succession, Verdicts, Holdings, Matched, Bare,
     Stocked, Born, Estate, Owned, Owner, Kept, Late, AckWaits, HeirWaits,
     HandoffKeepsShells, ShellExits, shellVars, daemonVars
<1>. QED BY <1>1, <1>2, <1>3, <1>4, <1>5, <1>6, <1>7 DEF Invariant

LEMMA PrepareStep ==
    ASSUME Invariant, NEW d \in Daemons, NEW n \in Daemons, Prepare(d, n)
    PROVE  Invariant'
<1>1. TypeOK'
  BY HandoffAssumption DEF Invariant, TypeOK, Holdings, Matched, Bare,
     Stocked, Born, Prepare, Inherited, shellVars
<1>2. Succession'
  BY DEF Invariant, TypeOK, Succession, Verdicts, Prepare, Inherited,
     shellVars
<1>3. Verdicts'
  BY DEF Invariant, TypeOK, Succession, Verdicts, Holdings, Matched, Bare,
     Stocked, Born, Prepare, Inherited, shellVars
<1>4. ServingReachable'
  BY DEF Invariant, TypeOK, Succession, ServingReachable, Prepare,
     Inherited, shellVars
<1>5. Holdings'
  BY DEF Invariant, TypeOK, Succession, Holdings, Matched, Bare, Stocked,
     Born, Prepare, Inherited, shellVars
<1>6. crashes' = 0 => Estate'
  <2>. SUFFICES ASSUME crashes' = 0 PROVE Estate'
    OBVIOUS
  <2>1. Owned'
    BY DEF Invariant, TypeOK, Succession, Verdicts, Holdings, Matched,
       Bare, Stocked, Born, Estate, Owner, Owned, Prepare, Inherited,
       shellVars
  <2>2. Kept'
    BY DEF Invariant, TypeOK, Succession, Verdicts, Holdings, Matched,
       Bare, Stocked, Born, Estate, Kept, Prepare, Inherited, shellVars
  <2>3. Late'
    BY DEF Invariant, TypeOK, Succession, Verdicts, Holdings, Matched,
       Bare, Stocked, Born, Estate, Late, Prepare, Inherited, shellVars
  <2>4. AckWaits'
    BY DEF Invariant, TypeOK, Succession, Verdicts, Holdings, Matched,
       Bare, Stocked, Born, Estate, AckWaits, Prepare, Inherited,
       shellVars
  <2>5. HeirWaits'
    BY DEF Invariant, TypeOK, Succession, Verdicts, Holdings, Matched,
       Bare, Stocked, Born, Estate, HeirWaits, Prepare, Inherited,
       shellVars
  <2>. QED BY <2>1, <2>2, <2>3, <2>4, <2>5 DEF Estate
<1>7. HandoffKeepsShells'
  BY DEF Invariant, TypeOK, Succession, Verdicts, Holdings, Matched, Bare,
     Stocked, Born, Estate, Owned, Owner, Kept, Late, AckWaits, HeirWaits,
     HandoffKeepsShells, Prepare, Inherited, shellVars
<1>. QED BY <1>1, <1>2, <1>3, <1>4, <1>5, <1>6, <1>7 DEF Invariant

LEMMA AcceptStep ==
    ASSUME Invariant, NEW d \in Daemons, NEW n \in Daemons, Accept(d, n)
    PROVE  Invariant'
<1>1. TypeOK'
  BY HandoffAssumption DEF Invariant, TypeOK, Holdings, Matched, Bare,
     Stocked, Born, Accept, AckArrives, shellVars
<1>2. Succession'
  BY DEF Invariant, TypeOK, Succession, Verdicts, Accept, AckArrives,
     shellVars
<1>3. Verdicts'
  BY DEF Invariant, TypeOK, Succession, Verdicts, Holdings, Matched, Bare,
     Stocked, Born, Accept, AckArrives, shellVars
<1>4. ServingReachable'
  BY DEF Invariant, TypeOK, Succession, ServingReachable, Accept,
     AckArrives, shellVars
<1>5. Holdings'
  BY DEF Invariant, TypeOK, Succession, Holdings, Matched, Bare, Stocked,
     Born, Accept, AckArrives, shellVars
<1>6. crashes' = 0 => Estate'
  BY DEF Invariant, TypeOK, Succession, Verdicts, Holdings, Matched, Bare,
     Stocked, Born, Estate, Owned, Owner, Kept, Late, AckWaits, HeirWaits,
     Accept, AckArrives, shellVars
<1>7. HandoffKeepsShells'
  BY DEF Invariant, TypeOK, Succession, Verdicts, Holdings, Matched, Bare,
     Stocked, Born, Estate, Owned, Owner, Kept, Late, AckWaits, HeirWaits,
     HandoffKeepsShells, Accept, AckArrives, shellVars
<1>. QED BY <1>1, <1>2, <1>3, <1>4, <1>5, <1>6, <1>7 DEF Invariant

LEMMA GiveUpStep ==
    ASSUME Invariant, NEW d \in Daemons, NEW n \in Daemons, GiveUp(d, n)
    PROVE  Invariant'
<1>1. TypeOK'
  BY HandoffAssumption DEF Invariant, TypeOK, Holdings, Matched, Bare,
     Stocked, Born, GiveUp, Exit, CloseFds, GivesUp, shellVars
<1>2. Succession'
  BY DEF Invariant, TypeOK, Succession, Verdicts, GiveUp, Exit, CloseFds,
     GivesUp, shellVars
<1>3. Verdicts'
  BY DEF Invariant, TypeOK, Succession, Verdicts, Holdings, Matched, Bare,
     Stocked, Born, GiveUp, Exit, CloseFds, GivesUp, shellVars
<1>4. ServingReachable'
  BY DEF Invariant, TypeOK, Succession, ServingReachable, GiveUp, Exit,
     CloseFds, GivesUp, shellVars
<1>5. Holdings'
  BY DEF Invariant, TypeOK, Succession, Holdings, Matched, Bare, Stocked,
     Born, GiveUp, Exit, CloseFds, GivesUp, shellVars
<1>6. crashes' = 0 => Estate'
  <2>. SUFFICES ASSUME crashes' = 0 PROVE Estate'
    OBVIOUS
  <2>1. Owned'
    <3>1. PICK e \in Daemons : Owner(e) /\ \A s \in Shells : Alive(s) => s \in rows[e]
      BY DEF Invariant, Estate, Owned, GiveUp
    <3>2. e # n
      BY <3>1 DEF Invariant, TypeOK, Succession, Verdicts, Owner, GiveUp
    <3>3. Owner(e)'
      BY <3>1, <3>2 DEF Invariant, TypeOK, Owner, GiveUp, Exit
    <3>4. \A s \in Shells : Alive(s)' => Alive(s) /\ s \in rows'[e]
      BY <3>1, <3>2 DEF Invariant, TypeOK, GiveUp, Exit, CloseFds
    <3>. QED BY <3>3, <3>4 DEF Owned
  <2>2. Kept'
    BY DEF Invariant, TypeOK, Succession, Verdicts, Holdings, Matched,
       Bare, Stocked, Born, Estate, Kept, GiveUp, Exit, CloseFds, GivesUp,
       shellVars
  <2>3. Late'
    BY DEF Invariant, TypeOK, Succession, Verdicts, Holdings, Matched,
       Bare, Stocked, Born, Estate, Late, GiveUp, Exit, CloseFds, GivesUp,
       shellVars
  <2>4. AckWaits'
    BY DEF Invariant, TypeOK, Succession, Verdicts, Holdings, Matched,
       Bare, Stocked, Born, Estate, AckWaits, GiveUp, Exit, CloseFds,
       GivesUp, shellVars
  <2>5. HeirWaits'
    BY DEF Invariant, TypeOK, Succession, Verdicts, Holdings, Matched,
       Bare, Stocked, Born, Estate, HeirWaits, GiveUp, Exit, CloseFds,
       GivesUp, shellVars
  <2>. QED BY <2>1, <2>2, <2>3, <2>4, <2>5 DEF Estate
<1>7. HandoffKeepsShells'
  <2>. SUFFICES ASSUME crashes' = 0 PROVE \A s \in Shells : shell'[s] = shell[s]
    BY DEF Invariant, TypeOK, Succession, Verdicts, HandoffKeepsShells, GiveUp
  <2>1. PICK e \in Daemons : Owner(e) /\ \A s \in Shells : Alive(s) => s \in rows[e]
    BY DEF Invariant, Estate, Owned, GiveUp
  <2>2. e # n
    BY <2>1 DEF Invariant, TypeOK, Succession, Verdicts, Owner, GiveUp
  <2>. QED BY <2>1, <2>2 DEF Invariant, TypeOK, GiveUp, Exit, CloseFds
<1>. QED BY <1>1, <1>2, <1>3, <1>4, <1>5, <1>6, <1>7 DEF Invariant

LEMMA CloseStep ==
    ASSUME Invariant, NEW d \in Daemons, Close(d)
    PROVE  Invariant'
<1>1. TypeOK'
  BY HandoffAssumption DEF Invariant, TypeOK, Holdings, Matched, Bare,
     Stocked, Born, Close, shellVars
<1>2. Succession'
  BY DEF Invariant, TypeOK, Succession, Verdicts, Close, shellVars
<1>3. Verdicts'
  BY DEF Invariant, TypeOK, Succession, Verdicts, Holdings, Matched, Bare,
     Stocked, Born, Close, shellVars
<1>4. ServingReachable'
  BY DEF Invariant, TypeOK, Succession, ServingReachable, Close, shellVars
<1>5. Holdings'
  BY DEF Invariant, TypeOK, Succession, Holdings, Matched, Bare, Stocked,
     Born, Close, shellVars
<1>6. crashes' = 0 => Estate'
  BY DEF Invariant, TypeOK, Succession, Verdicts, Holdings, Matched, Bare,
     Stocked, Born, Estate, Owned, Owner, Kept, Late, AckWaits, HeirWaits,
     Close, shellVars
<1>7. HandoffKeepsShells'
  BY DEF Invariant, TypeOK, Succession, Verdicts, Holdings, Matched, Bare,
     Stocked, Born, Estate, Owned, Owner, Kept, Late, AckWaits, HeirWaits,
     HandoffKeepsShells, Close, shellVars
<1>. QED BY <1>1, <1>2, <1>3, <1>4, <1>5, <1>6, <1>7 DEF Invariant

LEMMA LeaveStep ==
    ASSUME Invariant, NEW d \in Daemons, Leave(d)
    PROVE  Invariant'
<1>1. TypeOK'
  BY HandoffAssumption DEF Invariant, TypeOK, Holdings, Matched, Bare,
     Stocked, Born, Leave, Exit, CloseFds, shellVars
<1>2. Succession'
  BY DEF Invariant, TypeOK, Succession, Verdicts, Leave, Exit, CloseFds,
     shellVars
<1>3. Verdicts'
  BY DEF Invariant, TypeOK, Succession, Verdicts, Holdings, Matched, Bare,
     Stocked, Born, Leave, Exit, CloseFds, shellVars
<1>4. ServingReachable'
  BY DEF Invariant, TypeOK, Succession, ServingReachable, Leave, Exit,
     CloseFds, shellVars
<1>5. Holdings'
  BY DEF Invariant, TypeOK, Succession, Holdings, Matched, Bare, Stocked,
     Born, Leave, Exit, CloseFds, shellVars
<1>6. crashes' = 0 => Estate'
  <2>. SUFFICES ASSUME crashes' = 0 PROVE Estate'
    OBVIOUS
  <2>1. Owned'
    <3>1. PICK n \in Daemons : st[n] = "waiting" /\ parent[n] = d /\ verdict[n] = "ok"
      BY DEF Invariant, Estate, HeirWaits, Leave
    <3>2. n # d /\ Owner(n)'
      BY <3>1 DEF Invariant, TypeOK, Owner, Leave, Exit
    <3>3. PICK e \in Daemons : Owner(e) /\ \A s \in Shells : Alive(s) => s \in rows[e]
      BY DEF Invariant, Estate, Owned, Leave
    <3>4. e = d
      BY <3>3 DEF Invariant, TypeOK, Succession, Owner, Leave
    <3>. SUFFICES ASSUME NEW s \in Shells, Alive(s)' PROVE s \in rows'[n]
      BY <3>2 DEF Owned
    <3>5. Alive(s) /\ s \in fds[d]
      BY <3>3, <3>4 DEF Invariant, TypeOK, Leave, Exit, CloseFds
    <3>6. PICK k \in Daemons \ {d} : s \in fds[k]
      BY <3>5 DEF Invariant, TypeOK, Leave, Exit, CloseFds
    <3>7. k = n
      BY <3>1, <3>2, <3>6 DEF Invariant, TypeOK, Succession, Leave
    <3>. QED BY <3>1, <3>2, <3>6, <3>7 DEF Invariant, TypeOK, Holdings, Matched, Leave, Exit
  <2>2. Kept'
    BY DEF Invariant, TypeOK, Succession, Verdicts, Holdings, Matched,
       Bare, Stocked, Born, Estate, Kept, Leave, Exit, CloseFds, shellVars
  <2>3. Late'
    BY DEF Invariant, TypeOK, Succession, Verdicts, Holdings, Matched,
       Bare, Stocked, Born, Estate, Late, Leave, Exit, CloseFds, shellVars
  <2>4. AckWaits'
    BY DEF Invariant, TypeOK, Succession, Verdicts, Holdings, Matched,
       Bare, Stocked, Born, Estate, AckWaits, Leave, Exit, CloseFds,
       shellVars
  <2>5. HeirWaits'
    BY DEF Invariant, TypeOK, Succession, Verdicts, Holdings, Matched,
       Bare, Stocked, Born, Estate, HeirWaits, Leave, Exit, CloseFds,
       shellVars
  <2>. QED BY <2>1, <2>2, <2>3, <2>4, <2>5 DEF Estate
<1>7. HandoffKeepsShells'
  <2>. SUFFICES ASSUME crashes' = 0, NEW s \in Shells, shell'[s] = "hungup",
                       shell[s] # "hungup"
                PROVE  \E n \in Daemons : /\ verdict[n] = "ok"
                                          /\ parent[n] = opener[s]
                                          /\ s \notin snap[n]
    BY DEF Invariant, HandoffKeepsShells, Leave
  <2>1. Alive(s) /\ s \in fds[d] /\ \A e \in Daemons \ {d} : s \notin fds[e]
    BY DEF Invariant, TypeOK, Leave, Exit, CloseFds
  <2>2. PICK n \in Daemons : st[n] = "waiting" /\ parent[n] = d /\ verdict[n] = "ok"
    BY DEF Invariant, Estate, HeirWaits, Leave
  <2>3. n # d /\ s \notin rows[n]
    BY <2>1, <2>2 DEF Invariant, Holdings, Matched, Leave
  <2>4. s \notin snap[n]
    BY <2>1, <2>2, <2>3 DEF Invariant, Estate, Kept, Leave
  <2>5. s \in rows[d]
    BY <2>1 DEF Invariant, Holdings, Matched, Leave
  <2>6. opener[s] = d
    BY <2>2, <2>4, <2>5 DEF Invariant, Estate, Late, Leave
  <2>. QED BY <2>2, <2>4, <2>6
<1>. QED BY <1>1, <1>2, <1>3, <1>4, <1>5, <1>6, <1>7 DEF Invariant

LEMMA CrashStep ==
    ASSUME Invariant, NEW d \in Daemons, Crash(d)
    PROVE  Invariant'
<1>1. TypeOK'
  BY HandoffAssumption DEF Invariant, TypeOK, Holdings, Matched, Bare,
     Stocked, Born, Crash, Exit, CloseFds, shellVars
<1>2. Succession'
  BY DEF Invariant, TypeOK, Succession, Verdicts, Crash, Exit, CloseFds,
     shellVars
<1>3. Verdicts'
  BY DEF Invariant, TypeOK, Succession, Verdicts, Holdings, Matched, Bare,
     Stocked, Born, Crash, Exit, CloseFds, shellVars
<1>4. ServingReachable'
  BY DEF Invariant, TypeOK, Succession, ServingReachable, Crash, Exit,
     CloseFds, shellVars
<1>5. Holdings'
  BY DEF Invariant, TypeOK, Succession, Holdings, Matched, Bare, Stocked,
     Born, Crash, Exit, CloseFds, shellVars
<1>6. crashes' = 0 => Estate'
  BY DEF Invariant, TypeOK, Succession, Verdicts, Holdings, Matched, Bare,
     Stocked, Born, Estate, Owned, Owner, Kept, Late, AckWaits, HeirWaits,
     Crash, Exit, CloseFds, shellVars
<1>7. HandoffKeepsShells'
  BY DEF Invariant, TypeOK, Succession, Verdicts, Holdings, Matched, Bare,
     Stocked, Born, Estate, Owned, Owner, Kept, Late, AckWaits, HeirWaits,
     HandoffKeepsShells, Crash, Exit, CloseFds, shellVars
<1>. QED BY <1>1, <1>2, <1>3, <1>4, <1>5, <1>6, <1>7 DEF Invariant

LEMMA ShutdownStep ==
    ASSUME Invariant, NEW d \in Daemons, Shutdown(d)
    PROVE  Invariant'
<1>1. TypeOK'
  BY HandoffAssumption DEF Invariant, TypeOK, Holdings, Matched, Bare,
     Stocked, Born, Shutdown, shellVars
<1>2. Succession'
  BY DEF Invariant, TypeOK, Succession, Verdicts, Shutdown, shellVars
<1>3. Verdicts'
  BY DEF Invariant, TypeOK, Succession, Verdicts, Holdings, Matched, Bare,
     Stocked, Born, Shutdown, shellVars
<1>4. ServingReachable'
  BY DEF Invariant, TypeOK, Succession, ServingReachable, Shutdown,
     shellVars
<1>5. Holdings'
  BY DEF Invariant, TypeOK, Succession, Holdings, Matched, Bare, Stocked,
     Born, Shutdown, shellVars
<1>6. crashes' = 0 => Estate'
  BY DEF Invariant, TypeOK, Succession, Verdicts, Holdings, Matched, Bare,
     Stocked, Born, Estate, Owned, Owner, Kept, Late, AckWaits, HeirWaits,
     Shutdown, shellVars
<1>7. HandoffKeepsShells'
  BY DEF Invariant, TypeOK, Succession, Verdicts, Holdings, Matched, Bare,
     Stocked, Born, Estate, Owned, Owner, Kept, Late, AckWaits, HeirWaits,
     HandoffKeepsShells, Shutdown, shellVars
<1>. QED BY <1>1, <1>2, <1>3, <1>4, <1>5, <1>6, <1>7 DEF Invariant

LEMMA AdoptStep ==
    ASSUME Invariant, NEW n \in Daemons, Adopt(n)
    PROVE  Invariant'
<1>1. CASE Connected(n)
  <2>. DEFINE Ready == /\ st[n] = "starting" /\ Connected(n)
                       /\ rows' = [rows EXCEPT ![n] = snap[n]]
                       /\ st' = [st EXCEPT ![n] = "waiting"]
                       /\ ipc' = [ipc EXCEPT ![n] = "ack"]
                       /\ UNCHANGED <<fds, shell, parent, snap, verdict, path, opener, crashes>>
  <2>0. Ready
    BY <1>1 DEF Adopt
  <2>1. TypeOK'
    BY <2>0, HandoffAssumption DEF Invariant, TypeOK, Holdings, Matched,
       Bare, Stocked, Born
  <2>2. Succession'
    BY <2>0 DEF Invariant, TypeOK, Succession, Verdicts
  <2>3. Verdicts'
    BY <2>0 DEF Invariant, TypeOK, Succession, Verdicts, Holdings,
       Matched, Bare, Stocked, Born
  <2>4. ServingReachable'
    BY <2>0 DEF Invariant, TypeOK, Succession, ServingReachable
  <2>5. Holdings'
    BY <2>0 DEF Invariant, TypeOK, Succession, Holdings, Matched, Bare,
       Stocked, Born
  <2>6. crashes' = 0 => Estate'
    BY <2>0 DEF Invariant, TypeOK, Succession, Verdicts, Holdings,
       Matched, Bare, Stocked, Born, Estate, Owned, Owner, Kept, Late,
       AckWaits, HeirWaits
  <2>7. HandoffKeepsShells'
    BY <2>0 DEF Invariant, TypeOK, Succession, Verdicts, Holdings,
       Matched, Bare, Stocked, Born, Estate, Owned, Owner, Kept, Late,
       AckWaits, HeirWaits, HandoffKeepsShells
  <2>. QED BY <2>1, <2>2, <2>3, <2>4, <2>5, <2>6, <2>7 DEF Invariant
<1>2. CASE ~Connected(n)
  <2>. DEFINE Gone == /\ st[n] = "starting" /\ ~Connected(n)
                      /\ Exit(n)
                      /\ UNCHANGED <<ipc, parent, snap, verdict, path, opener, crashes>>
  <2>0. Gone
    BY <1>2 DEF Adopt
  <2>1. TypeOK'
    BY <2>0, HandoffAssumption DEF Invariant, TypeOK, Holdings, Matched,
       Bare, Stocked, Born, Exit, CloseFds
  <2>2. Succession'
    BY <2>0 DEF Invariant, TypeOK, Succession, Verdicts, Exit, CloseFds
  <2>3. Verdicts'
    BY <2>0 DEF Invariant, TypeOK, Succession, Verdicts, Holdings,
       Matched, Bare, Stocked, Born, Exit, CloseFds
  <2>4. ServingReachable'
    BY <2>0 DEF Invariant, TypeOK, Succession, ServingReachable, Exit,
       CloseFds
  <2>5. Holdings'
    BY <2>0 DEF Invariant, TypeOK, Succession, Holdings, Matched, Bare,
       Stocked, Born, Exit, CloseFds
  <2>6. crashes' = 0 => Estate'
    BY <2>0 DEF Invariant, TypeOK, Succession, Verdicts, Holdings,
       Matched, Bare, Stocked, Born, Estate, Owned, Owner, Kept, Late,
       AckWaits, HeirWaits, Exit, CloseFds
  <2>7. HandoffKeepsShells'
    BY <2>0 DEF Invariant, TypeOK, Succession, Verdicts, Holdings,
       Matched, Bare, Stocked, Born, Estate, Owned, Owner, Kept, Late,
       AckWaits, HeirWaits, HandoffKeepsShells, Exit, CloseFds
  <2>. QED BY <2>1, <2>2, <2>3, <2>4, <2>5, <2>6, <2>7 DEF Invariant
<1>. QED BY <1>1, <1>2

LEMMA AdoptFailsStep ==
    ASSUME Invariant, NEW n \in Daemons, AdoptFails(n)
    PROVE  Invariant'
<1>1. TypeOK'
  BY HandoffAssumption DEF Invariant, TypeOK, Holdings, Matched, Bare,
     Stocked, Born, AdoptFails, CloseFds, shellVars
<1>2. Succession'
  BY DEF Invariant, TypeOK, Succession, Verdicts, AdoptFails, CloseFds,
     shellVars
<1>3. Verdicts'
  BY DEF Invariant, TypeOK, Succession, Verdicts, Holdings, Matched, Bare,
     Stocked, Born, AdoptFails, CloseFds, shellVars
<1>4. ServingReachable'
  BY DEF Invariant, TypeOK, Succession, ServingReachable, AdoptFails,
     CloseFds, shellVars
<1>5. Holdings'
  BY DEF Invariant, TypeOK, Succession, Holdings, Matched, Bare, Stocked,
     Born, AdoptFails, CloseFds, shellVars
<1>6. crashes' = 0 => Estate'
  BY DEF Invariant, TypeOK, Succession, Verdicts, Holdings, Matched, Bare,
     Stocked, Born, Estate, Owned, Owner, Kept, Late, AckWaits, HeirWaits,
     AdoptFails, CloseFds, shellVars
<1>7. HandoffKeepsShells'
  BY DEF Invariant, TypeOK, Succession, Verdicts, Holdings, Matched, Bare,
     Stocked, Born, Estate, Owned, Owner, Kept, Late, AckWaits, HeirWaits,
     HandoffKeepsShells, AdoptFails, CloseFds, shellVars
<1>. QED BY <1>1, <1>2, <1>3, <1>4, <1>5, <1>6, <1>7 DEF Invariant

LEMMA FailedExitsStep ==
    ASSUME Invariant, NEW n \in Daemons, FailedExits(n)
    PROVE  Invariant'
<1>1. TypeOK'
  BY HandoffAssumption DEF Invariant, TypeOK, Holdings, Matched, Bare,
     Stocked, Born, FailedExits, Exit, CloseFds, shellVars
<1>2. Succession'
  BY DEF Invariant, TypeOK, Succession, Verdicts, FailedExits, Exit,
     CloseFds, shellVars
<1>3. Verdicts'
  BY DEF Invariant, TypeOK, Succession, Verdicts, Holdings, Matched, Bare,
     Stocked, Born, FailedExits, Exit, CloseFds, shellVars
<1>4. ServingReachable'
  BY DEF Invariant, TypeOK, Succession, ServingReachable, FailedExits, Exit,
     CloseFds, shellVars
<1>5. Holdings'
  BY DEF Invariant, TypeOK, Succession, Holdings, Matched, Bare, Stocked,
     Born, FailedExits, Exit, CloseFds, shellVars
<1>6. crashes' = 0 => Estate'
  BY DEF Invariant, TypeOK, Succession, Verdicts, Holdings, Matched, Bare,
     Stocked, Born, Estate, Owned, Owner, Kept, Late, AckWaits, HeirWaits,
     FailedExits, Exit, CloseFds, shellVars
<1>7. HandoffKeepsShells'
  BY DEF Invariant, TypeOK, Succession, Verdicts, Holdings, Matched, Bare,
     Stocked, Born, Estate, Owned, Owner, Kept, Late, AckWaits, HeirWaits,
     HandoffKeepsShells, FailedExits, Exit, CloseFds, shellVars
<1>. QED BY <1>1, <1>2, <1>3, <1>4, <1>5, <1>6, <1>7 DEF Invariant

LEMMA BindStep ==
    ASSUME Invariant, ~Stall, NEW n \in Daemons, Bind(n)
    PROVE  Invariant'
<1>1. TypeOK'
  BY HandoffAssumption DEF Invariant, TypeOK, Holdings, Matched, Bare,
     Stocked, Born, Bind, MayBind, shellVars
<1>2. Succession'
  BY DEF Invariant, TypeOK, Succession, Verdicts, Bind, MayBind, shellVars
<1>3. Verdicts'
  BY DEF Invariant, TypeOK, Succession, Verdicts, Holdings, Matched, Bare,
     Stocked, Born, Bind, MayBind, shellVars
<1>4. ServingReachable'
  BY DEF Invariant, TypeOK, Succession, ServingReachable, Bind, MayBind,
     shellVars
<1>5. Holdings'
  BY DEF Invariant, TypeOK, Succession, Holdings, Matched, Bare, Stocked,
     Born, Bind, MayBind, shellVars
<1>6. crashes' = 0 => Estate'
  BY DEF Invariant, TypeOK, Succession, Verdicts, Holdings, Matched, Bare,
     Stocked, Born, Estate, Owned, Owner, Kept, Late, AckWaits, HeirWaits,
     Bind, MayBind, shellVars
<1>7. HandoffKeepsShells'
  BY DEF Invariant, TypeOK, Succession, Verdicts, Holdings, Matched, Bare,
     Stocked, Born, Estate, Owned, Owner, Kept, Late, AckWaits, HeirWaits,
     HandoffKeepsShells, Bind, MayBind, shellVars
<1>. QED BY <1>1, <1>2, <1>3, <1>4, <1>5, <1>6, <1>7 DEF Invariant

\* No step breaks the invariant.
LEMMA NextStep ==
    ASSUME Invariant, ~Stall, [Next]_vars
    PROVE  Invariant'
<1>1. CASE UNCHANGED vars
  BY <1>1 DEF vars, daemonVars, shellVars, Invariant, TypeOK, Succession, Verdicts,
     ServingReachable, Holdings, Matched, Bare, Stocked, Born, Estate, Owned, Owner,
     Kept, Late, AckWaits, HeirWaits, HandoffKeepsShells
<1>2. CASE Next
  BY <1>2, OpenSessionStep, CloseSessionStep, ReapStep, ShellExitsStep, PrepareStep,
     AcceptStep, GiveUpStep, CloseStep, LeaveStep, CrashStep, ShutdownStep,
     AdoptStep, AdoptFailsStep, FailedExitsStep, BindStep
     DEF Next
<1>. QED BY <1>1, <1>2

LEMMA InitHolds ==
    ASSUME Init
    PROVE  Invariant
<1>. 1 \in Daemons
  BY HandoffAssumption
<1>1. TypeOK
  BY HandoffAssumption DEF Init, TypeOK
<1>2. crashes = 0 => Estate
  BY DEF Init, Estate, Owned, Owner, Kept, Late, AckWaits, HeirWaits
<1>. QED
  BY <1>1, <1>2 DEF Init, Invariant, Succession, Verdicts, ServingReachable, Holdings,
     Matched, Bare, Stocked, Born, HandoffKeepsShells

\* The invariant holds in every reachable state.
THEOREM InvariantHolds == ASSUME ~Stall PROVE Spec => []Invariant
<1>1. Init => Invariant
  BY InitHolds
<1>2. Invariant /\ [Next]_vars => Invariant'
  BY NextStep
<1>. QED BY <1>1, <1>2, PTL DEF Spec

\* Types; a session a daemon lists is one whose master it holds.
THEOREM TypesHold == ASSUME ~Stall PROVE Spec => []TypeOK
<1>1. Invariant => TypeOK
  BY DEF Invariant
<1>. QED BY <1>1, InvariantHolds, PTL

\* No handoff hangs up a shell of its snapshot (prepareUpgrade, adoptSnapshot,
\* the rollback and process.exit), however many follow each other.
THEOREM HandoffsKeepShells == ASSUME ~Stall PROVE Spec => []HandoffKeepsShells
<1>1. Invariant => HandoffKeepsShells
  BY DEF Invariant
<1>. QED BY <1>1, InvariantHolds, PTL

\* The socket path leads to the daemon that serves (finalizeHandoff against
\* runHandoffReceiver and listen).
THEOREM PathLeadsToServer == ASSUME ~Stall PROVE Spec => []ServingReachable
<1>1. Invariant => ServingReachable
  BY DEF Invariant
<1>. QED BY <1>1, InvariantHolds, PTL
=============================================================================

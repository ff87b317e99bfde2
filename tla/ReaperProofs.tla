---------------------------- MODULE ReaperProofs ----------------------------
(***************************************************************************)
(* Theorems about Reaper for every set of runs, names and Networks: types, *)
(* whose sandbox it is, what the ledger names; and about Clocks, for every *)
(* instant: when a verdict of is_alive can be wrong.                       *)
(***************************************************************************)
EXTENDS Reaper, Clocks, TLAPS

\* The record a reaper keeps is indexed by its kind and its run.
LEMMA ReaperFacts ==
  /\ \A r \in Runs : Sweep(r) \in Reapers /\ Watchdog(r) \in Reapers
  /\ \A p \in Reapers : /\ p[2] \in Runs
                        /\ p = Sweep(p[2]) \/ p = Watchdog(p[2])
  /\ \A q, r \in Runs : Sweep(q) # Watchdog(r)
  /\ \A q, r \in Runs : /\ Sweep(q) = Sweep(r) => q = r
                        /\ Watchdog(q) = Watchdog(r) => q = r
BY DEF Reapers, Sweep, Watchdog

\* The initial state has the types TypeOK gives.
LEMMA TypeInit == Init => TypeOK
BY ReaperFacts DEF Init, TypeOK, LedgerInit, LedgerTypeOK, PC, Phase

\* Each action keeps every variable in its type.
LEMMA TypeStep == TypeOK /\ [Next]_vars => TypeOK'
<1> SUFFICES ASSUME TypeOK, [Next]_vars PROVE TypeOK'
  OBVIOUS
<1> USE ReaperAssumption DEF Actors
<1>1. ASSUME NEW r \in Runs, Boot(r) PROVE TypeOK'
  BY <1>1 DEF Boot, TypeOK, LedgerTypeOK, ledgerVars, reapVars
<1>2. ASSUME NEW r \in Runs, Die(r) PROVE TypeOK'
  BY <1>2 DEF Die, TypeOK, LedgerTypeOK, ledgerVars, reapVars
<1>3. ASSUME NEW r \in Runs, ListRuns(r) PROVE TypeOK'
  <2>1. Sweep(r) \in Reapers
    BY ReaperFacts
  <2>2. UNCHANGED <<record, sandboxes, networks, lock, live, netLive, proc,
                    pc, used, spawned, target, kill>>
    BY <1>3 DEF ListRuns, ledgerVars, workVars
  <2>3. phase' \in [Reapers -> Phase] /\ todo' \in [Runs -> SUBSET Runs]
    BY <1>3, <2>1 DEF ListRuns, TypeOK, Phase, CandidateRunIds
  <2> QED  BY <2>2, <2>3 DEF TypeOK, LedgerTypeOK
<1>4. ASSUME NEW n \in Names, NameStep(n) PROVE TypeOK'
  <2>1. CASE Start(n)
    BY <2>1 DEF Start, TypeOK, LedgerTypeOK, ledgerVars, reapVars, Goto, PC,
                AfterNet
  <2>2. CASE BeforeEnsureNetwork(n)
    BY <2>2 DEF BeforeEnsureNetwork, AppendNetwork, TypeOK, LedgerTypeOK,
                ledgerVars, reapVars, Goto, PC
  <2>3. CASE EnsureNetwork(n)
    BY <2>3 DEF EnsureNetwork, TypeOK, LedgerTypeOK, ledgerVars, reapVars,
                Goto, PC, AfterNet
  <2>4. CASE ReadRecord(n)
    BY <2>4 DEF ReadRecord, TypeOK, LedgerTypeOK, ledgerVars, reapVars,
                Goto, PC
  <2>5. CASE CreateRecord(n)
    BY <2>5 DEF CreateRecord, WriteRecord, TypeOK, LedgerTypeOK, reapVars,
                Goto, PC
  <2>6. CASE AppendName(n)
    BY SMTT(30), <2>6
       DEF AppendName, AppendSandbox, TypeOK, LedgerTypeOK, ledgerVars,
                reapVars, Goto, PC
  <2>7. CASE SpawnWatchdog(n)
    <3>1. RunOf[n] \in Runs /\ Watchdog(RunOf[n]) \in Reapers
      BY ReaperFacts
    <3>2. \/ SpawnChild(RunOf[n]) /\ spawned' = [spawned EXCEPT ![RunOf[n]] = TRUE]
          \/ UNCHANGED <<phase, spawned>>
      BY <2>7 DEF SpawnWatchdog
    <3>3. SpawnChild(RunOf[n]) => phase' \in [Reapers -> Phase]
      BY <3>1 DEF SpawnChild, TypeOK, Phase
    <3>4. phase' \in [Reapers -> Phase] /\ spawned' \in [Runs -> BOOLEAN]
      BY <3>1, <3>2, <3>3 DEF TypeOK
    <3> QED
      BY <2>7, <3>4 DEF SpawnWatchdog, TypeOK, LedgerTypeOK, ledgerVars,
                        Goto, PC
  <2>8. CASE Create(n)
    BY <2>8 DEF Create, TypeOK, LedgerTypeOK, ledgerVars, reapVars, Goto, PC,
                AfterStop
  <2>9. CASE StartBackend(n)
    BY <2>9 DEF StartBackend, TypeOK, LedgerTypeOK, ledgerVars, reapVars,
                Goto, PC
  <2>10. CASE Register(n)
    <3>1. UNCHANGED <<record, sandboxes, networks, lock, live, netLive, proc,
                      spawned, phase, target, kill, todo>>
      BY <2>10 DEF Register, ledgerVars, reapVars
    <3>2. pc' \in [Actors -> PC]
      BY <2>10 DEF Register, TypeOK, Goto, PC, StopOf
    <3>3. used' = used \/ used' = used \cup ({NetOf[n]} \ {NoNet})
      BY <2>10 DEF Register
    <3>4. used' \subseteq Nets
      BY <3>3, NetOf[n] \in Nets \cup {NoNet} DEF TypeOK
    <3> QED
      BY <3>1, <3>2, <3>4 DEF TypeOK, LedgerTypeOK
  <2>11. CASE Stop(n)
    BY <2>11 DEF Stop, TypeOK, LedgerTypeOK, ledgerVars, reapVars, Goto, PC,
                 StopOf
  <2>12. CASE Remove(n)
    BY <2>12 DEF Remove, TypeOK, LedgerTypeOK, ledgerVars, reapVars, Goto, PC,
                 AfterStop
  <2>13. CASE Unlist(n)
    BY <2>13 DEF Unlist, RemoveSandboxLine, TypeOK, LedgerTypeOK, reapVars,
                 Goto, PC
  <2>14. CASE LateCreate(n)
    BY <2>14 DEF LateCreate, TypeOK, LedgerTypeOK, ledgerVars, reapVars,
                 Goto, PC
  <2> QED
    BY <1>4, <2>1, <2>2, <2>3, <2>4, <2>5, <2>6, <2>7, <2>8, <2>9, <2>10,
       <2>11, <2>12, <2>13, <2>14 DEF NameStep
<1>5. ASSUME NEW x \in Nets, Close(x) PROVE TypeOK'
  BY <1>5 DEF Close, TypeOK, LedgerTypeOK, ledgerVars, reapVars, Goto, PC
<1>6. ASSUME NEW x \in Actors, ActorStep(x) PROVE TypeOK'
  <2>1. CASE AfterRemoveNetwork(x)
    BY <2>1 DEF AfterRemoveNetwork, RemoveNetworkLine, TypeOK, LedgerTypeOK,
                reapVars, Goto, PC, NetDone
  <2>2. CASE PruneFiles(x)
    BY <2>2 DEF PruneFiles, Prune, RemoveFiles, TypeOK, LedgerTypeOK,
                reapVars, Goto, PC, NetDone
  <2> QED  BY <1>6, <2>1, <2>2 DEF ActorStep
<1>7. ASSUME NEW p \in Reapers, ReaperStep(p) PROVE TypeOK'
  <2>1. CASE ReadSandboxes(p)
    BY <2>1 DEF ReadSandboxes, TypeOK, LedgerTypeOK, ledgerVars, workVars,
                Phase
  <2>2. CASE RemoveNetworks(p)
    BY <2>2 DEF RemoveNetworks, TypeOK, LedgerTypeOK, ledgerVars, Phase
  <2>3. CASE DeleteRun(p)
    BY <2>3 DEF DeleteRun, DeleteFiles, RemoveFiles, TypeOK, LedgerTypeOK,
                workVars, Phase
  <2>4. ASSUME NEW n \in Names, RemoveByName(p, n) PROVE TypeOK'
    BY <2>4 DEF RemoveByName, TypeOK, LedgerTypeOK, ledgerVars
  <2> QED  BY <1>7, <2>1, <2>2, <2>3, <2>4 DEF ReaperStep
<1>8. ASSUME NEW r \in Runs, SweepStep(r) PROVE TypeOK'
  <2>1. CASE SweepDone(r)
    BY <2>1, ReaperFacts
       DEF SweepDone, TypeOK, LedgerTypeOK, ledgerVars, workVars, Phase
  <2>2. ASSUME NEW s \in Runs, ReapIfDead(r, s) PROVE TypeOK'
    <3>1. Sweep(r) \in Reapers
      BY ReaperFacts
    <3>2. /\ phase' \in [Reapers -> Phase] /\ target' \in [Reapers -> Runs]
          /\ todo' \in [Runs -> SUBSET Runs]
      BY <2>2, <3>1 DEF ReapIfDead, TypeOK, Phase
    <3> QED
      BY <2>2, <3>2 DEF ReapIfDead, TypeOK, LedgerTypeOK, ledgerVars, workVars
  <2> QED  BY <1>7, <1>8, <2>1, <2>2, ReaperFacts DEF SweepStep
<1>9. ASSUME NEW r \in Runs, WatchdogStep(r) PROVE TypeOK'
  <2>1. CASE WatchdogEof(r)
    BY <2>1, ReaperFacts
       DEF WatchdogEof, TypeOK, LedgerTypeOK, ledgerVars, workVars, Phase
  <2> QED  BY <1>7, <1>9, <2>1, ReaperFacts DEF WatchdogStep
<1>10. CASE UNCHANGED vars
  BY <1>10 DEF vars, ledgerVars, workVars, reapVars, TypeOK, LedgerTypeOK
<1> QED
  BY <1>1, <1>2, <1>3, <1>4, <1>5, <1>6, <1>8, <1>9, <1>10 DEF Next

\* Type correctness, for any number of runs, sandboxes, Networks and any
\* faults.
THEOREM TypeCorrect == Spec => []TypeOK
BY TypeInit, TypeStep, PTL DEF Spec

-----------------------------------------------------------------------------
(* Whose sandbox it is: no reaper touches a process that is up, for any    *)
(* number of processes, sandboxes and Networks and with every fault but a  *)
(* wrong liveness verdict.                                                 *)

\* the start time of a live process can always be determined
LivenessIsKnown == "ps" \notin Faults

Reaps(p) == phase[p] \in {"open", "kill", "delete"}

\* before the backend has been asked for the sandbox
Early == {"idle", "listNet", "ensure", "read", "write", "append", "watch",
          "create"}

\* the watchdog's target never moves, and its OnceLock was taken first
WatchdogInv ==
  \A r \in Runs : /\ target[Watchdog(r)] = r
                  /\ phase[Watchdog(r)] # "idle" => spawned[r]

\* only dead runs are reaped, and a run that never was up has no record
ReapsTheDead ==
  /\ \A p \in Reapers : Reaps(p) => proc[target[p]] = "dead"
  /\ \A r \in Runs : proc[r] = "unborn" => ~record[r]

\* the names of a ledger are the run's own and not keep_alive, and so is
\* what a reaper has read of them
OwnNames(r) == {n \in Names : RunOf[n] = r /\ n \notin KeepAlive}
NamesInv ==
  /\ \A r \in Runs : sandboxes[r] \subseteq OwnNames(r)
  /\ \A p \in Reapers : /\ kill[p] \subseteq OwnNames(target[p])
                        /\ kill[p] # {} => phase[p] = "kill"

\* where an actor stands and whether its sandbox exists
LiveInv ==
  /\ \A n \in Names : pc[n] = "register" /\ proc[RunOf[n]] = "up" => n \in live
  /\ RunningIsLive
  /\ \A n \in live : pc[n] \notin Early
  /\ \A x \in Actors : proc[RunOf[x]] = "unborn" => pc[x] = "idle"

Parts == WatchdogInv /\ ReapsTheDead /\ NamesInv /\ LiveInv
OwnershipInv == TypeOK /\ Parts

\* At the start nobody reaps and no create is in flight.
LEMMA OwnershipInit == Init => OwnershipInv
<1> SUFFICES ASSUME Init PROVE Parts
  BY TypeInit DEF OwnershipInv
<1> USE ReaperFacts DEF Init, LedgerInit
<1>1. WatchdogInv
  BY DEF WatchdogInv, Watchdog
<1>2. ReapsTheDead /\ NamesInv
  BY DEF ReapsTheDead, Reaps, NamesInv
<1>3. LiveInv
  BY DEF LiveInv, RunningIsLive, At, Actors
<1> QED  BY <1>1, <1>2, <1>3 DEF Parts

\* A backend that is asked to start leaves its guard with a sandbox, or on its
\* way to the removal of one.
LEMMA StartedIsLive ==
  ASSUME TypeOK, LiveInv, NEW n \in Names, StartBackend(n)
  PROVE  LiveInv'
<1>1. /\ proc' = proc /\ pc[n] = "start" /\ proc[RunOf[n]] = "up"
      /\ live \subseteq live' /\ live' \subseteq live \cup {n}
  BY DEF StartBackend, At
<1>2. PICK where \in {"register", "remove"} :
        /\ pc' = [pc EXCEPT ![n] = where]
        /\ where = "register" => n \in live'
  BY DEF StartBackend, Goto
<1>3. \A x \in Actors : pc'[x] = IF x = n THEN where ELSE pc[x]
  BY <1>2 DEF TypeOK, Actors
<1>4. \A m \in Names : pc'[m] = "register" /\ proc'[RunOf[m]] = "up" => m \in live'
  BY <1>1, <1>2, <1>3 DEF LiveInv, Actors
<1>5. RunningIsLive'
  BY <1>1, <1>3 DEF LiveInv, RunningIsLive, At, Actors
<1>6. \A m \in live' : pc'[m] \notin Early
  BY <1>1, <1>3 DEF LiveInv, Early, TypeOK, Actors
<1>7. \A x \in Actors : proc'[RunOf[x]] = "unborn" => pc'[x] = "idle"
  BY <1>1, <1>3 DEF LiveInv
<1> QED
  BY <1>4, <1>5, <1>6, <1>7 DEF LiveInv

\* Each action keeps the invariant.  What the programs do is a matter of pc,
\* live and the ledger; what the reapers do, of phase, target and kill.
LEMMA OwnershipStep ==
  ASSUME LivenessIsKnown, OwnershipInv, [Next]_vars
  PROVE  OwnershipInv'
<1>1. TypeOK /\ TypeOK'
  BY TypeStep DEF OwnershipInv
<1>2. Parts
  BY DEF OwnershipInv
<1> SUFFICES Parts'
  BY <1>1 DEF OwnershipInv
<1> USE ReaperAssumption, <1>1, <1>2
    DEF Actors, Parts, WatchdogInv, ReapsTheDead, Reaps, NamesInv, OwnNames,
        LiveInv, RunningIsLive, At, Early, Goto, TypeOK, LedgerTypeOK, PC,
        ledgerVars, workVars, reapVars
<1>3. ASSUME NEW r \in Runs, Boot(r) PROVE Parts'
  <2>1. WatchdogInv' /\ ReapsTheDead'
    BY <1>3 DEF Boot
  <2>2. NamesInv'
    BY <1>3 DEF Boot
  <2>3. UNCHANGED <<pc, live>>
    BY <1>3 DEF Boot
  <2>4. \A x \in Actors : pc[x] # "idle" => proc[RunOf[x]] # "unborn"
    OBVIOUS
  <2>5. \A n \in Names : pc[n] # "idle" => proc'[RunOf[n]] = proc[RunOf[n]]
    BY <1>3, <2>4 DEF Boot
  <2>6. RunningIsLive' /\ \A n \in live' : pc'[n] \notin Early
    BY <2>3, <2>5
  <2>7. \A n \in Names : pc'[n] = "register" /\ proc'[RunOf[n]] = "up" => n \in live'
    BY <2>3, <2>5
  <2>8. \A x \in Actors : proc'[RunOf[x]] = "unborn" => pc'[x] = "idle"
    BY <1>3, <2>3 DEF Boot
  <2> QED  BY <2>1, <2>2, <2>6, <2>7, <2>8
<1>4. ASSUME NEW r \in Runs, Die(r) PROVE Parts'
  BY <1>4 DEF Die
<1>5. ASSUME NEW r \in Runs, ListRuns(r) PROVE Parts'
  <2>1. Sweep(r) \in Reapers /\ \A q \in Runs : Sweep(r) # Watchdog(q)
    BY ReaperFacts
  <2>2. WatchdogInv' /\ ReapsTheDead'
    BY <1>5, <2>1, ReaperFacts DEF ListRuns
  <2>3. NamesInv'
    BY <1>5, <2>1 DEF ListRuns
  <2>4. LiveInv'
    BY <1>5 DEF ListRuns
  <2> QED  BY <2>2, <2>3, <2>4
<1>6. ASSUME NEW n \in Names, NameStep(n) PROVE Parts'
  <2>1. CASE Start(n)
    BY <2>1 DEF Start, AfterNet
  <2>2. CASE BeforeEnsureNetwork(n)
    BY <2>2 DEF BeforeEnsureNetwork, AppendNetwork
  <2>3. CASE EnsureNetwork(n)
    BY <2>3 DEF EnsureNetwork, AfterNet
  <2>4. CASE ReadRecord(n)
    BY <2>4 DEF ReadRecord
  <2>5. CASE CreateRecord(n)
    BY <2>5 DEF CreateRecord, WriteRecord
  <2>6. CASE AppendName(n)
    <3>1. \/ UNCHANGED sandboxes
          \/ /\ n \in OwnNames(RunOf[n])
             /\ sandboxes' = [sandboxes EXCEPT ![RunOf[n]] = @ \cup {n}]
      BY <2>6 DEF AppendName, AppendSandbox
    <3>2. NamesInv'
      BY <2>6, <3>1 DEF AppendName
    <3>3. WatchdogInv' /\ ReapsTheDead' /\ LiveInv'
      BY <2>6 DEF AppendName, AppendSandbox
    <3> QED  BY <3>2, <3>3
  <2>7. CASE SpawnWatchdog(n)
    <3>1. RunOf[n] \in Runs /\ Watchdog(RunOf[n]) \in Reapers
      BY ReaperFacts
    <3>2. CASE UNCHANGED <<phase, spawned>>
      BY <2>7, <3>2 DEF SpawnWatchdog
    <3>3. CASE /\ ~spawned[RunOf[n]] /\ SpawnChild(RunOf[n])
               /\ spawned' = [spawned EXCEPT ![RunOf[n]] = TRUE]
      <4>1. phase[Watchdog(RunOf[n])] = "idle"
        BY <3>1, <3>3
      <4>2. \/ UNCHANGED phase
            \/ phase' = [phase EXCEPT ![Watchdog(RunOf[n])] = "watching"]
        BY <3>1, <3>3, <4>1 DEF SpawnChild
      <4>3. WatchdogInv'
        BY <2>7, <3>1, <3>3, <4>1, <4>2, ReaperFacts DEF SpawnWatchdog
      <4>4. ReapsTheDead' /\ NamesInv'
        BY <2>7, <3>1, <4>1, <4>2 DEF SpawnWatchdog
      <4>5. LiveInv'
        BY <2>7 DEF SpawnWatchdog
      <4> QED  BY <4>3, <4>4, <4>5
    <3> QED  BY <2>7, <3>2, <3>3 DEF SpawnWatchdog
  <2>8. CASE Create(n)
    BY <2>8 DEF Create, AfterStop
  <2>9. CASE StartBackend(n)
    <3>1. WatchdogInv' /\ ReapsTheDead' /\ NamesInv'
      BY <2>9 DEF StartBackend
    <3>2. LiveInv'
      BY <2>9, StartedIsLive
    <3> QED  BY <3>1, <3>2
  <2>10. CASE Register(n)
    BY <2>10 DEF Register, StopOf
  <2>11. CASE Stop(n)
    BY <2>11 DEF Stop, StopOf
  <2>12. CASE Remove(n)
    BY <2>12 DEF Remove, AfterStop
  <2>13. CASE Unlist(n)
    BY <2>13 DEF Unlist, RemoveSandboxLine
  <2>14. CASE LateCreate(n)
    BY <2>14 DEF LateCreate
  <2> QED
    BY <1>6, <2>1, <2>2, <2>3, <2>4, <2>5, <2>6, <2>7, <2>8, <2>9, <2>10,
       <2>11, <2>12, <2>13, <2>14 DEF NameStep
<1>7. ASSUME NEW x \in Nets, Close(x) PROVE Parts'
  BY <1>7 DEF Close
<1>8. ASSUME NEW x \in Actors, ActorStep(x) PROVE Parts'
  <2>1. CASE AfterRemoveNetwork(x)
    <3>1. WatchdogInv' /\ ReapsTheDead'
      BY <2>1 DEF AfterRemoveNetwork, RemoveNetworkLine
    <3>2. NamesInv'
      BY <2>1 DEF AfterRemoveNetwork, RemoveNetworkLine
    <3>3. PICK l \in PC : /\ pc' = [pc EXCEPT ![x] = l]
                          /\ x \in Names => l \in {"prune", "gone"}
      BY <2>1 DEF AfterRemoveNetwork, NetDone
    <3>4. LiveInv'
      BY <1>8, <2>1, <3>3 DEF AfterRemoveNetwork
    <3> QED  BY <3>1, <3>2, <3>4
  <2>2. CASE PruneFiles(x)
    BY <1>8, <2>2 DEF PruneFiles, Prune, RemoveFiles, NetDone
  <2> QED  BY <1>8, <2>1, <2>2 DEF ActorStep
<1>9. ASSUME NEW p \in Reapers, ReaperStep(p) PROVE Parts'
  <2>1. CASE ReadSandboxes(p)
    BY <1>9, <2>1, ReaperFacts DEF ReadSandboxes, Reaping
  <2>2. CASE RemoveNetworks(p)
    BY <1>9, <2>2, ReaperFacts DEF RemoveNetworks, Reaping
  <2>3. CASE DeleteRun(p)
    BY <1>9, <2>3, ReaperFacts DEF DeleteRun, DeleteFiles, RemoveFiles, Reaping
  <2>4. ASSUME NEW n \in Names, RemoveByName(p, n) PROVE Parts'
    BY <1>9, <2>4, ReaperFacts DEF RemoveByName, Reaping
  <2> QED  BY <1>9, <2>1, <2>2, <2>3, <2>4 DEF ReaperStep
<1>10. ASSUME NEW r \in Runs, SweepStep(r) PROVE Parts'
  <2>1. Sweep(r) \in Reapers /\ \A q \in Runs : Sweep(r) # Watchdog(q)
    BY ReaperFacts
  <2>2. CASE SweepDone(r)
    BY <2>1, <2>2, ReaperFacts DEF SweepDone
  <2>3. ASSUME NEW s \in Runs, ReapIfDead(r, s) PROVE Parts'
    <3>1. AliveVerdicts(s) = {proc[s] = "up"}
      BY LivenessIsKnown DEF AliveVerdicts, LivenessIsKnown
    <3>2. CASE UNCHANGED <<phase, target>>
      BY <2>3, <3>2 DEF ReapIfDead
    <3>3. CASE /\ Reapable(r, s, proc[s] = "up")
               /\ phase' = [phase EXCEPT ![Sweep(r)] = "open"]
               /\ target' = [target EXCEPT ![Sweep(r)] = s]
      <4>1. proc[s] = "dead"
        BY <3>3 DEF Reapable
      <4>2. kill[Sweep(r)] = {}
        BY <2>1, <2>3 DEF ReapIfDead
      <4> QED
        BY <2>1, <2>3, <3>3, <4>1, <4>2, ReaperFacts DEF ReapIfDead
    <3> QED  BY <2>3, <3>1, <3>2, <3>3 DEF ReapIfDead
  <2> QED  BY <1>9, <1>10, <2>1, <2>2, <2>3 DEF SweepStep
<1>11. ASSUME NEW r \in Runs, WatchdogStep(r) PROVE Parts'
  <2>1. Watchdog(r) \in Reapers
    BY ReaperFacts
  <2>2. CASE WatchdogEof(r)
    BY <2>1, <2>2, ReaperFacts DEF WatchdogEof
  <2> QED  BY <1>9, <1>11, <2>1, <2>2 DEF WatchdogStep
<1>12. CASE UNCHANGED vars
  BY <1>12 DEF vars
<1> QED
  BY <1>3, <1>4, <1>5, <1>6, <1>7, <1>8, <1>10, <1>11, <1>12 DEF Next

\* The invariant behind the theorems below, for any constants.
THEOREM OwnershipInvariant ==
  ASSUME LivenessIsKnown
  PROVE  Spec => []OwnershipInv
<1>1. Init => OwnershipInv
  BY OwnershipInit
<1>2. OwnershipInv /\ [Next]_vars => OwnershipInv'
  BY OwnershipStep, LivenessIsKnown
<1> QED  BY <1>1, <1>2, PTL DEF Spec

\* A guard that start() returned and nobody stopped has its sandbox, whatever
\* the other processes, their sweeps and the watchdogs do.
THEOREM RunningIsSafe ==
  ASSUME LivenessIsKnown
  PROVE  Spec => []RunningIsLive
<1>1. OwnershipInv => RunningIsLive
  BY DEF OwnershipInv, Parts, LiveInv
<1> QED  BY <1>1, OwnershipInvariant, LivenessIsKnown, PTL

-----------------------------------------------------------------------------
(* What one actor does to its own sandbox, and to no other                 *)

Over == {"remove", "unlist", "prune", "gone"}

Progress(n) ==
  /\ UNCHANGED proc
  /\ \A m \in Names \ {n} : pc'[m] = pc[m] /\ (m \in live' <=> m \in live)
  /\ n \in live' /\ n \notin live => pc[n] \in {"create", "start"}
  /\ n \in live /\ n \notin live' => pc[n] = "remove" /\ pc'[n] \in Over
  /\ pc[n] \in Over => pc'[n] \in Over

\* A step of a guard touches no other sandbox: it brings up its own while
\* creating it, and takes its own away only while removing it.
LEMMA NameProgress ==
  ASSUME TypeOK, NEW n \in Names, NameStep(n), ~LateCreate(n)
  PROVE  Progress(n) /\ proc[RunOf[n]] = "up"
<1> USE ReaperAssumption
    DEF Actors, TypeOK, PC, Goto, At, Progress, Over, reapVars
<1>1. CASE Start(n)
  BY <1>1 DEF Start, AfterNet
<1>2. CASE BeforeEnsureNetwork(n)
  BY <1>2 DEF BeforeEnsureNetwork
<1>3. CASE EnsureNetwork(n)
  BY <1>3 DEF EnsureNetwork, AfterNet
<1>4. CASE ReadRecord(n)
  BY <1>4 DEF ReadRecord
<1>5. CASE CreateRecord(n)
  BY <1>5 DEF CreateRecord
<1>6. CASE AppendName(n)
  BY <1>6 DEF AppendName
<1>7. CASE SpawnWatchdog(n)
  BY <1>7 DEF SpawnWatchdog
<1>8. CASE Create(n)
  BY <1>8 DEF Create, AfterStop
<1>9. CASE StartBackend(n)
  BY <1>9 DEF StartBackend
<1>10. CASE Register(n)
  BY <1>10 DEF Register, StopOf
<1>11. CASE Stop(n)
  BY <1>11 DEF Stop, StopOf
<1>12. CASE Remove(n)
  BY <1>12 DEF Remove, AfterStop
<1>13. CASE Unlist(n)
  BY <1>13 DEF Unlist
<1> QED
  BY <1>1, <1>2, <1>3, <1>4, <1>5, <1>6, <1>7, <1>8, <1>9, <1>10, <1>11,
     <1>12, <1>13 DEF NameStep

\* Network::close, after_remove_network and the pruning of the files leave
\* every sandbox where it is.
LEMMA OtherProgress ==
  ASSUME TypeOK, NEW x \in Actors, ActorStep(x) \/ (x \in Nets /\ Close(x))
  PROVE  /\ UNCHANGED <<proc, live>>
         /\ proc[RunOf[x]] = "up"
         /\ \A m \in Names \ {x} : pc'[m] = pc[m]
         /\ x \in Names => pc'[x] \in Over
<1> USE ReaperAssumption DEF Actors, TypeOK, PC, Goto, At, Over, reapVars
<1>1. CASE AfterRemoveNetwork(x)
  BY <1>1 DEF AfterRemoveNetwork, NetDone
<1>2. CASE PruneFiles(x)
  BY <1>2 DEF PruneFiles, NetDone
<1>3. CASE x \in Nets /\ Close(x)
  BY <1>3 DEF Close
<1> QED  BY <1>1, <1>2, <1>3 DEF ActorStep

\* A reaper and a process's birth leave every actor where it stands; only
\* remove_by_name takes a sandbox.
ReaperProgress ==
  /\ UNCHANGED pc
  /\ \/ UNCHANGED live
     \/ \E p \in Reapers : \E n \in kill[p] :
          live' = live \ {n} /\ UNCHANGED proc
  /\ \/ UNCHANGED proc
     \/ \E r \in Runs : Boot(r) \/ Die(r)

\* The sweeps and the watchdogs remove only what nobody alive owns.
LEMMA ReapersProgress ==
  ASSUME TypeOK,
         NEW r \in Runs,
         Boot(r) \/ Die(r) \/ ListRuns(r) \/ SweepStep(r) \/ WatchdogStep(r)
  PROVE  ReaperProgress
<1>1. CASE Boot(r) \/ Die(r)
  BY <1>1 DEF Boot, Die, ReaperProgress
<1>2. CASE ListRuns(r)
  BY <1>2 DEF ListRuns, workVars, ReaperProgress
<1>3. ASSUME NEW p \in Reapers, ReaperStep(p) PROVE ReaperProgress
  BY <1>3 DEF ReaperStep, ReadSandboxes, RemoveNetworks, DeleteRun,
              RemoveByName, workVars, ReaperProgress
<1>4. CASE SweepStep(r)
  BY <1>3, <1>4, ReaperFacts
     DEF SweepStep, SweepDone, ReapIfDead, workVars, ReaperProgress
<1>5. CASE WatchdogStep(r)
  BY <1>3, <1>5, ReaperFacts
     DEF WatchdogStep, WatchdogEof, workVars, ReaperProgress
<1> QED  BY <1>1, <1>2, <1>4, <1>5

\* Every step is one of the three.
LEMMA NextCases ==
  ASSUME [Next]_vars
  PROVE  \/ \E n \in Names : NameStep(n)
         \/ \E x \in Actors : ActorStep(x) \/ (x \in Nets /\ Close(x))
         \/ \E r \in Runs : \/ Boot(r) \/ Die(r) \/ ListRuns(r)
                            \/ SweepStep(r) \/ WatchdogStep(r)
         \/ UNCHANGED vars
BY DEF Next, Actors

-----------------------------------------------------------------------------
\* While its process is up a sandbox disappears only by its own teardown, a
\* keep_alive sandbox never by anybody else's.
THEOREM OwnerOnly ==
  ASSUME LivenessIsKnown
  PROVE  Spec => OnlyOwnerRemoves
<1> DEFINE Mine == \A n \in live : n \notin live' =>
                      \/ pc[n] = "remove"
                      \/ n \notin KeepAlive /\ proc[RunOf[n]] = "dead"
<1>1. OwnershipInv /\ [Next]_vars => Mine
  <2> SUFFICES ASSUME OwnershipInv, [Next]_vars PROVE Mine
    OBVIOUS
  <2>0. TypeOK /\ ReapsTheDead /\ NamesInv
    BY DEF OwnershipInv, Parts
  <2>1. ASSUME NEW n \in Names, NameStep(n) PROVE Mine
    <3>1. CASE LateCreate(n)
      BY <3>1 DEF LateCreate
    <3>2. CASE ~LateCreate(n)
      BY <2>0, <2>1, <3>2, NameProgress DEF Progress, TypeOK
    <3> QED  BY <3>1, <3>2
  <2>2. ASSUME NEW x \in Actors, ActorStep(x) \/ (x \in Nets /\ Close(x))
        PROVE  Mine
    BY <2>0, <2>2, OtherProgress
  <2>3. ASSUME NEW r \in Runs,
               Boot(r) \/ Die(r) \/ ListRuns(r) \/ SweepStep(r) \/ WatchdogStep(r)
        PROVE  Mine
    <3>1. ReaperProgress
      BY <2>0, <2>3, ReapersProgress
    <3>2. ASSUME NEW p \in Reapers, NEW n \in kill[p], live' = live \ {n}
          PROVE  Mine
      BY <2>0, <3>2
         DEF NamesInv, OwnNames, ReapsTheDead, Reaps, TypeOK
    <3> QED  BY <3>1, <3>2 DEF ReaperProgress
  <2>4. CASE UNCHANGED vars
    BY <2>4 DEF vars, workVars
  <2> QED  BY <2>1, <2>2, <2>3, <2>4, NextCases
<1>2. OwnershipInv /\ [Next]_vars => [Mine]_vars
  BY <1>1
<1> QED  BY <1>2, OwnershipInvariant, LivenessIsKnown, PTL DEF Spec, OnlyOwnerRemoves

-----------------------------------------------------------------------------
(* The refinement                                                          *)

\* The abstract status of a sandbox is one of the three of Ownership.
LEMMA StatusRange ==
  /\ status \in [Names -> {"absent", "live", "over"}]
  /\ \A n \in Names :
       /\ status[n] = "live" <=> n \in live
       /\ status[n] = "absent" <=> /\ n \notin live /\ pc[n] \notin Over
                                   /\ proc[RunOf[n]] # "dead"
BY DEF status, Over

\* One actor's step is its sandbox coming up, going away, or nothing.
LEMMA NameRefines ==
  ASSUME TypeOK, NEW n \in Names, Progress(n), proc[RunOf[n]] = "up"
  PROVE  Owned!ComeUp(n) \/ Owned!GoAway(n) \/ UNCHANGED <<proc, status>>
<1> DEFINE s == status[n]
           t == status'[n]
<1>1. proc' = proc
  BY DEF Progress
<1>2. /\ status' \in [Names -> {"absent", "live", "over"}]
      /\ \A m \in Names :
           /\ status'[m] = "live" <=> m \in live'
           /\ status'[m] = "absent" <=> /\ m \notin live' /\ pc'[m] \notin Over
                                        /\ proc'[RunOf[m]] # "dead"
  BY DEF status, Over
<1>3. ASSUME NEW m \in Names \ {n} PROVE status'[m] = status[m]
  BY <1>1, <1>2, StatusRange DEF Progress
<1>4. status' = [status EXCEPT ![n] = t]
  BY <1>2, <1>3, StatusRange
<1>5. \/ s = "absent" /\ t = "live"
      \/ s \in {"absent", "live"} /\ t = "over"
      \/ s = t
  BY <1>1, <1>2, StatusRange DEF Progress, Over
<1>6. CASE s = "absent" /\ t = "live"
  BY <1>1, <1>4, <1>6 DEF Owned!ComeUp
<1>7. CASE s \in {"absent", "live"} /\ t = "over"
  BY <1>1, <1>4, <1>7 DEF Owned!GoAway
<1>8. CASE s = t
  BY <1>1, <1>4, <1>8, StatusRange
<1> QED  BY <1>5, <1>6, <1>7, <1>8

\* The reaper implements Ownership for every set of processes, sandboxes and
\* Networks, every backend assignment and mode, and every fault but a wrong
\* liveness verdict and a create that outlives its process.
THEOREM Refinement ==
  ASSUME LivenessIsKnown, "late" \notin Faults
  PROVE  Spec => ImplementsOwnership
<1>1. Init => Owned!Init
  <2> SUFFICES ASSUME Init PROVE Owned!Init
    OBVIOUS
  <2>1. \A n \in Names : status[n] = "absent"
    BY ReaperAssumption DEF Init, status, Actors
  <2>2. status = [n \in Names |-> "absent"]
    BY <2>1, StatusRange
  <2> QED  BY <2>2 DEF Init, Owned!Init
<1>2. OwnershipInv /\ [Next]_vars => [Owned!Next]_<<proc, status>>
  <2> SUFFICES ASSUME OwnershipInv, [Next]_vars
               PROVE  Owned!Next \/ UNCHANGED <<proc, status>>
    BY DEF Owned!ownershipVars
  <2>0. TypeOK /\ ReapsTheDead /\ NamesInv
    BY DEF OwnershipInv, Parts
  <2>1. ASSUME NEW n \in Names, NameStep(n)
        PROVE  Owned!Next \/ UNCHANGED <<proc, status>>
    <3>1. ~LateCreate(n)
      BY DEF LateCreate
    <3> QED  BY <2>0, <2>1, <3>1, NameProgress, NameRefines DEF Owned!Next
  <2>2. ASSUME NEW x \in Actors, ActorStep(x) \/ (x \in Nets /\ Close(x))
        PROVE  Owned!Next \/ UNCHANGED <<proc, status>>
    <3>1. CASE x \in Names
      <4>1. Progress(x) /\ proc[RunOf[x]] = "up"
        BY <2>0, <2>2, <3>1, OtherProgress DEF Progress
      <4> QED  BY <2>0, <3>1, <4>1, NameRefines DEF Owned!Next
    <3>2. CASE x \notin Names
      BY <2>0, <2>2, <3>2, OtherProgress DEF status
    <3> QED  BY <3>1, <3>2
  <2>3. ASSUME NEW r \in Runs,
               Boot(r) \/ Die(r) \/ ListRuns(r) \/ SweepStep(r) \/ WatchdogStep(r)
        PROVE  Owned!Next \/ UNCHANGED <<proc, status>>
    <3>1. ReaperProgress
      BY <2>0, <2>3, ReapersProgress
    <3>2. CASE UNCHANGED proc /\ UNCHANGED live
      BY <3>1, <3>2 DEF ReaperProgress, status
    <3>3. ASSUME NEW p \in Reapers, NEW n \in kill[p], live' = live \ {n},
                 UNCHANGED proc
          PROVE  Owned!Next \/ UNCHANGED <<proc, status>>
      <4>1. CASE n \notin live
        BY <3>1, <3>2, <3>3, <4>1
      <4>2. CASE n \in live
        <5>1. n \in Names /\ n \notin KeepAlive /\ proc[RunOf[n]] = "dead"
          BY <2>0, <3>3 DEF NamesInv, OwnNames, ReapsTheDead, Reaps, TypeOK
        <5>2. status' = [status EXCEPT ![n] = "over"]
          BY <3>1, <3>3, <5>1 DEF status, ReaperProgress
        <5>3. status[n] = "live"
          BY <4>2, <5>1, StatusRange
        <5> QED  BY <3>3, <5>1, <5>2, <5>3 DEF Owned!Reap, Owned!Next
      <4> QED  BY <4>1, <4>2
    <3>4. ASSUME NEW q \in Runs, Boot(q)
          PROVE  Owned!Next \/ UNCHANGED <<proc, status>>
      <4>1. \A m \in Names : proc'[RunOf[m]] = "dead" <=> proc[RunOf[m]] = "dead"
        BY <2>0, <3>4, ReaperAssumption DEF Boot, TypeOK, Actors
      <4>2. UNCHANGED status
        BY <3>1, <3>4, <4>1 DEF Boot, status
      <4> QED  BY <3>4, <4>2 DEF Boot, Owned!Boot, Owned!Next
    <3>5. ASSUME NEW q \in Runs, Die(q)
          PROVE  Owned!Next \/ UNCHANGED <<proc, status>>
      <4>1. UNCHANGED <<live, pc>>
        BY <3>5 DEF Die
      <4>2. \A m \in Names : proc'[RunOf[m]] = "dead"
                               <=> proc[RunOf[m]] = "dead" \/ RunOf[m] = q
        BY <2>0, <3>5, ReaperAssumption DEF Die, TypeOK, Actors
      <4>3. proc[q] # "dead"
        BY <3>5 DEF Die
      <4>4. status' = [m \in Names |-> IF RunOf[m] = q /\ status[m] = "absent"
                                       THEN "over" ELSE status[m]]
        BY <4>1, <4>2, <4>3 DEF status
      <4> QED  BY <3>5, <4>4 DEF Die, Owned!Die, Owned!Next
    <3> QED  BY <3>1, <3>2, <3>3, <3>4, <3>5 DEF ReaperProgress
  <2>4. CASE UNCHANGED vars
    BY <2>4 DEF vars, workVars, status
  <2> QED  BY <2>1, <2>2, <2>3, <2>4, NextCases
<1> QED
  BY <1>1, <1>2, OwnershipInvariant, LivenessIsKnown, PTL
     DEF Spec, ImplementsOwnership, Owned!Spec, Owned!ownershipVars

-----------------------------------------------------------------------------
(* The two rules of the ledger: a sandbox never exists without a line      *)
(* naming it, and the files of a process that has torn everything down are *)
(* gone.                                                                   *)

(* The calls whose errors the code ignores succeed, and none outlives its  *)
(* process.                                                                *)
CallsSucceed == Faults \cap {"remove", "io", "late", "connect"} = {}

\* a sandbox may exist from "start" on; its line is there from "watch" on
MayBeLive == {"start", "register", "running", "remove"}
HasLine == MayBeLive \cup {"watch", "create"}

LineInv ==
  \A n \in Names :
    Ephemeral(n) =>
      /\ pc[n] \in HasLine /\ proc[RunOf[n]] = "up" => n \in sandboxes[RunOf[n]]
      /\ n \in live => pc[n] \in MayBeLive

\* whoever holds the lock between two steps has emptied the files
LockInv == \A r \in Runs : lock[r] # NoOne => sandboxes[r] = {}

\* a reaper has read every live sandbox of its target, and lets go of a name
\* only once the sandbox is gone
ReapInv ==
  \A p \in Reapers :
    /\ Reaps(p) => SameBackend(p)
    /\ phase[p] \in {"kill", "delete"} =>
         \A n \in live : RunOf[n] = target[p] /\ Ephemeral(n) => n \in kill[p]

LedgerParts == LineInv /\ LockInv /\ ReapInv /\ ListedWhileLive

\* At the start nothing is live and no guard is past its create.
LEMMA LedgerStart == Init => LedgerParts
BY ReaperAssumption
   DEF Init, LedgerInit, LedgerParts, LineInv, LockInv, ReapInv, Reaps,
       ListedWhileLive, HasLine, MayBeLive, Actors

\* Each action keeps the rule, given what OwnershipInv says of who reaps whom.
LEMMA LedgerStep ==
  ASSUME LivenessIsKnown, CallsSucceed, OwnershipInv, OwnershipInv',
         LedgerParts, [Next]_vars
  PROVE  LedgerParts'
<1>1. TypeOK /\ TypeOK' /\ WatchdogInv /\ ReapsTheDead /\ NamesInv
  BY DEF OwnershipInv, Parts
<1> USE ReaperAssumption, LedgerAssumption, CallsSucceed, <1>1
    DEF Actors, CallsSucceed, LedgerParts, LineInv, LockInv, ReapInv,
        ListedWhileLive, HasLine, MayBeLive, Reaps, SameBackend, Ephemeral,
        At, Goto, Unlocked, TypeOK, LedgerTypeOK, PC,
        ledgerVars, workVars, reapVars
<1>2. ASSUME NEW r \in Runs, Boot(r) PROVE LedgerParts'
  BY <1>2, OwnershipInv DEF Boot, OwnershipInv, Parts, LiveInv
<1>3. ASSUME NEW r \in Runs, Die(r) PROVE LedgerParts'
  BY <1>3 DEF Die
<1>4. ASSUME NEW r \in Runs, ListRuns(r) PROVE LedgerParts'
  BY <1>4, ReaperFacts DEF ListRuns
<1>5. ASSUME NEW n \in Names, NameStep(n) PROVE LedgerParts'
  <2>1. CASE Start(n)
    BY <2>1 DEF Start, AfterNet
  <2>2. CASE BeforeEnsureNetwork(n)
    BY <2>2 DEF BeforeEnsureNetwork, AppendNetwork
  <2>3. CASE EnsureNetwork(n)
    BY <2>3 DEF EnsureNetwork, AfterNet
  <2>4. CASE ReadRecord(n)
    BY <2>4 DEF ReadRecord
  <2>5. CASE CreateRecord(n)
    BY <2>5 DEF CreateRecord, WriteRecord
  <2>6. CASE AppendName(n)
    <3>1. LineInv'
      BY <2>6 DEF AppendName, AppendSandbox
    <3>2. LockInv'
      BY SMTT(30), <2>6 DEF AppendName, AppendSandbox
    <3>3. ReapInv'
      BY <2>6 DEF AppendName, AppendSandbox
    <3>4. ListedWhileLive'
      BY <2>6 DEF AppendName, AppendSandbox
    <3> QED  BY <3>1, <3>2, <3>3, <3>4
  <2>7. CASE SpawnWatchdog(n)
    <3>1. LineInv'
      BY <2>7 DEF SpawnWatchdog, SpawnChild
    <3>2. LockInv'
      BY <2>7 DEF SpawnWatchdog, SpawnChild
    <3>3. ReapInv'
      <4>1. ASSUME NEW p \in Reapers, phase'[p] # phase[p]
            PROVE  p = Watchdog(RunOf[n]) /\ phase'[p] \in {"watching", "open"}
        BY <2>7, <4>1 DEF SpawnWatchdog, SpawnChild
      <4>2. /\ RunOf[n] \in Runs
            /\ SameBackend(Watchdog(RunOf[n]))
        BY DEF WatchdogInv, Watchdog
      <4> QED  BY <2>7, <4>1, <4>2 DEF SpawnWatchdog
    <3>4. ListedWhileLive'
      BY <2>7 DEF SpawnWatchdog, SpawnChild
    <3> QED  BY <3>1, <3>2, <3>3, <3>4
  <2>8. CASE Create(n)
    <3>1. LineInv'
      BY <2>8 DEF Create, AfterStop
    <3>2. LockInv'
      BY <2>8 DEF Create, AfterStop
    <3>3. ReapInv'
      <4>1. \A p \in Reapers : Reaps(p) => target[p] # RunOf[n]
        BY <2>8 DEF Create, ReapsTheDead
      <4> QED  BY <2>8, <4>1 DEF Create
    <3>4. ListedWhileLive'
      BY <2>8 DEF Create, AfterStop
    <3> QED  BY <3>1, <3>2, <3>3, <3>4
  <2>9. CASE StartBackend(n)
    <3>1. LineInv'
      <4>1. /\ sandboxes' = sandboxes /\ proc' = proc /\ pc[n] = "start"
            /\ live' \subseteq live \cup {n}
        BY <2>9 DEF StartBackend
      <4>2. \E where \in {"register", "remove"} : pc' = [pc EXCEPT ![n] = where]
        BY <2>9 DEF StartBackend
      <4> QED
        BY <4>1, <4>2
    <3>2. LockInv'
      BY <2>9 DEF StartBackend
    <3>3. ReapInv'
      <4>1. \A p \in Reapers : Reaps(p) => target[p] # RunOf[n]
        BY <2>9 DEF StartBackend, ReapsTheDead
      <4> QED  BY <2>9, <4>1 DEF StartBackend
    <3>4. ListedWhileLive'
      BY <2>9 DEF StartBackend
    <3> QED  BY <3>1, <3>2, <3>3, <3>4
  <2>10. CASE Register(n)
    BY <2>10 DEF Register, StopOf
  <2>11. CASE Stop(n)
    BY <2>11 DEF Stop, StopOf
  <2>12. CASE Remove(n)
    BY <2>12 DEF Remove, AfterStop
  <2>13. CASE Unlist(n)
    <3>1. LineInv'
      BY <2>13 DEF Unlist, RemoveSandboxLine
    <3>2. LockInv'
      BY <2>13 DEF Unlist, RemoveSandboxLine, IsEmpty
    <3>3. ReapInv'
      BY <2>13 DEF Unlist, RemoveSandboxLine
    <3>4. ListedWhileLive'
      BY <2>13 DEF Unlist, RemoveSandboxLine
    <3> QED  BY <3>1, <3>2, <3>3, <3>4
  <2>14. CASE LateCreate(n)
    BY <2>14 DEF LateCreate
  <2> QED
    BY <1>5, <2>1, <2>2, <2>3, <2>4, <2>5, <2>6, <2>7, <2>8, <2>9, <2>10,
       <2>11, <2>12, <2>13, <2>14 DEF NameStep
<1>6. ASSUME NEW x \in Nets, Close(x) PROVE LedgerParts'
  BY <1>6 DEF Close
<1>7. ASSUME NEW x \in Actors, ActorStep(x) PROVE LedgerParts'
  <2>1. CASE AfterRemoveNetwork(x)
    BY <1>7, <2>1 DEF AfterRemoveNetwork, RemoveNetworkLine, IsEmpty, NetDone
  <2>2. CASE PruneFiles(x)
    BY <1>7, <2>2 DEF PruneFiles, Prune, RemoveFiles, NetDone
  <2> QED  BY <1>7, <2>1, <2>2 DEF ActorStep
<1>8. ASSUME NEW p \in Reapers, ReaperStep(p) PROVE LedgerParts'
  <2>1. CASE ReadSandboxes(p)
    BY <1>8, <2>1, ReaperFacts DEF ReadSandboxes, Reaping
  <2>2. CASE RemoveNetworks(p)
    BY <1>8, <2>2, ReaperFacts DEF RemoveNetworks, Reaping
  <2>3. CASE DeleteRun(p)
    <3>0. proc[target[p]] = "dead"
      BY <1>8, <2>3 DEF DeleteRun, Reaping, ReapsTheDead
    <3>1. LineInv'
      BY <1>8, <2>3, <3>0 DEF DeleteRun, DeleteFiles, RemoveFiles, Reaping
    <3>2. LockInv'
      BY <1>8, <2>3 DEF DeleteRun, DeleteFiles, RemoveFiles, Reaping
    <3>3. ReapInv'
      BY <1>8, <2>3 DEF DeleteRun, DeleteFiles, RemoveFiles, Reaping
    <3>4. ListedWhileLive'
      <4>1. \A m \in live : RunOf[m] = target[p] /\ Ephemeral(m) => m \in kill[p]
        BY <1>8, <2>3 DEF DeleteRun, Reaping
      <4>2. kill[p] = {}
        BY <1>8, <2>3 DEF DeleteRun, Reaping, NamesInv
      <4> QED
        BY <2>3, <4>1, <4>2 DEF DeleteRun, DeleteFiles, RemoveFiles
    <3> QED  BY <3>1, <3>2, <3>3, <3>4
  <2>4. ASSUME NEW n \in Names, RemoveByName(p, n) PROVE LedgerParts'
    BY <1>8, <2>4, ReaperFacts DEF RemoveByName, Reaping
  <2> QED  BY <1>8, <2>1, <2>2, <2>3, <2>4 DEF ReaperStep
<1>9. ASSUME NEW r \in Runs, SweepStep(r) PROVE LedgerParts'
  <2>1. Sweep(r) \in Reapers
    BY ReaperFacts
  <2>2. CASE SweepDone(r)
    BY <2>1, <2>2, ReaperFacts DEF SweepDone
  <2>3. ASSUME NEW t \in Runs, ReapIfDead(r, t) PROVE LedgerParts'
    <3>1. CASE UNCHANGED <<phase, target>>
      BY <2>3, <3>1 DEF ReapIfDead
    <3>2. CASE /\ BackendOf[t] = BackendOf[r]
               /\ phase' = [phase EXCEPT ![Sweep(r)] = "open"]
               /\ target' = [target EXCEPT ![Sweep(r)] = t]
      <4>1. Sweep(r)[2] = r
        BY DEF Sweep
      <4>2. ReapInv'
        BY <2>1, <2>3, <3>2, <4>1 DEF ReapIfDead
      <4> QED  BY <2>3, <4>2 DEF ReapIfDead
    <3> QED  BY <2>3, <3>1, <3>2 DEF ReapIfDead, Reapable
  <2> QED  BY <1>8, <1>9, <2>1, <2>2, <2>3 DEF SweepStep
<1>10. ASSUME NEW r \in Runs, WatchdogStep(r) PROVE LedgerParts'
  <2>1. Watchdog(r) \in Reapers
    BY ReaperFacts
  <2>2. CASE WatchdogEof(r)
    BY <2>1, <2>2 DEF WatchdogEof, WatchdogInv, Watchdog
  <2> QED  BY <1>8, <1>10, <2>1, <2>2 DEF WatchdogStep
<1>11. CASE UNCHANGED vars
  BY <1>11 DEF vars
<1> QED
  BY <1>2, <1>3, <1>4, <1>5, <1>6, <1>7, <1>9, <1>10, <1>11 DEF Next

\* A sandbox of a run never exists without a line naming it, through every
\* interleaving of creates, stops, crashes, watchdogs and sweeps.
THEOREM Superset ==
  ASSUME LivenessIsKnown, CallsSucceed
  PROVE  Spec => []ListedWhileLive
<1>1. Init => LedgerParts
  BY LedgerStart
<1>2. OwnershipInv /\ OwnershipInv' /\ LedgerParts /\ [Next]_vars => LedgerParts'
  BY LedgerStep, LivenessIsKnown, CallsSucceed
<1>3. LedgerParts => ListedWhileLive
  BY DEF LedgerParts
<1> QED
  BY <1>1, <1>2, <1>3, OwnershipInvariant, LivenessIsKnown, PTL DEF Spec

-----------------------------------------------------------------------------
(* The clean-shutdown rule                                                 *)

\* the ledger of a run is touched only when its mode enables it
LedgerLabels == {"listNet", "read", "write", "append", "watch", "unlist",
                 "unlistNet", "prune"}
EnabledInv ==
  /\ \A x \in Actors : pc[x] \in LedgerLabels => LedgerEnabled(RunOf[x])
  /\ \A r \in Runs : record[r] => LedgerEnabled(r)
  /\ \A r \in Runs : sandboxes[r] # {} => LedgerEnabled(r) /\ proc[r] # "unborn"

\* a listed sandbox of a process that is up has yet to be torn down
ListedIsBusy ==
  \A r \in Runs, n \in Names :
    n \in sandboxes[r] /\ proc[r] = "up" => pc[n] \in HasLine \cup {"unlist"}

(* The rule, read the other way: somebody holds on to the record.          *)
Busy(x) == pc[x] # "idle" /\ (pc[x] = "gone" => x \in KeepAlive)
RecordIsHeld ==
  \A r \in Runs :
    proc[r] = "up" /\ record[r] /\ ~networks[r] =>
      \E x \in Actors : RunOf[x] = r /\ Busy(x)

\* RecordIsHeld says of each run what CleanShutdown says of it.
LEMMA HeldIsClean == TypeOK => (RecordIsHeld <=> CleanShutdown)
BY DEF TypeOK, LedgerTypeOK, RecordIsHeld, CleanShutdown, Busy

ShutdownParts == EnabledInv /\ ListedIsBusy /\ RecordIsHeld

\* At the start no run has a record, so no record outlives a shutdown.
LEMMA ShutdownStart == Init => ShutdownParts
BY DEF Init, LedgerInit, ShutdownParts, EnabledInv, ListedIsBusy,
       RecordIsHeld, LedgerLabels, Actors

\* What a step of actor x must do for the record of its run to stay held:
\* stay busy, or leave a line behind whose owner is busy.
Holds(x) ==
  /\ UNCHANGED proc
  /\ \A y \in Actors \ {x} : pc'[y] = pc[y]
  /\ \A r \in Runs \ {RunOf[x]} : record'[r] = record[r] /\ networks'[r] = networks[r]
  /\ \/ proc[RunOf[x]] # "up" \/ ~record'[RunOf[x]] \/ networks'[RunOf[x]]
     \/ Busy(x)'
     \/ \E m \in Names \ {x} : m \in sandboxes[RunOf[x]]

\* A step of actor x that leaves the record of its run gone, or held by x or by
\* another listed sandbox, keeps RecordIsHeld.
LEMMA HoldsTheRecord ==
  ASSUME TypeOK, NamesInv, ListedIsBusy, RecordIsHeld, NEW x \in Actors, Holds(x)
  PROVE  RecordIsHeld'
<1> USE ReaperAssumption DEF Actors
<1>1. SUFFICES ASSUME NEW r \in Runs, proc'[r] = "up", record'[r], ~networks'[r]
               PROVE  \E y \in Actors : RunOf[y] = r /\ Busy(y)'
  BY DEF RecordIsHeld, Busy
<1>2. CASE r # RunOf[x]
  <2>1. PICK y \in Actors : RunOf[y] = r /\ Busy(y)
    BY <1>1, <1>2 DEF Holds, RecordIsHeld
  <2> QED  BY <1>2, <2>1 DEF Holds, Busy
<1>3. CASE r = RunOf[x]
  <2>1. CASE Busy(x)'
    BY <1>3, <2>1
  <2>2. ASSUME NEW m \in Names \ {x}, m \in sandboxes[r]
        PROVE  \E y \in Actors : RunOf[y] = r /\ Busy(y)'
    <3>1. RunOf[m] = r /\ Busy(m)
      BY <1>1, <2>2
         DEF Holds, NamesInv, OwnNames, ListedIsBusy, Busy, HasLine, MayBeLive
    <3> QED  BY <3>1 DEF Holds, Busy
  <2> QED  BY <1>1, <1>3, <2>1, <2>2 DEF Holds
<1> QED  BY <1>2, <1>3

\* The rule needs no call to succeed: whoever becomes quiet last either finds
\* a line, whose owner is still busy, or holds the lock and prunes.
LEMMA ShutdownStep ==
  ASSUME OwnershipInv, ShutdownParts, [Next]_vars
  PROVE  ShutdownParts'
<1>1. TypeOK /\ ReapsTheDead /\ NamesInv /\ LiveInv
  BY DEF OwnershipInv, Parts
<1> USE ReaperAssumption, LedgerAssumption, <1>1
    DEF Actors, ShutdownParts, EnabledInv, ListedIsBusy,
        HasLine, MayBeLive, LedgerLabels, At, Goto, Unlocked, TypeOK,
        LedgerTypeOK, PC, ledgerVars, workVars, reapVars
<1> DEFINE Rest == EnabledInv' /\ ListedIsBusy'
<1>2. ASSUME NEW r \in Runs, Boot(r) PROVE ShutdownParts'
  <2>1. Rest
    BY <1>2 DEF Boot, NamesInv, LiveInv, OwnNames
  <2>2. RecordIsHeld'
    BY <1>2 DEF Boot, ReapsTheDead, RecordIsHeld, Busy
  <2> QED  BY <2>1, <2>2
<1>3. ASSUME NEW r \in Runs, Die(r) PROVE ShutdownParts'
  BY <1>3 DEF Die, RecordIsHeld, Busy
<1>4. ASSUME NEW r \in Runs, ListRuns(r) PROVE ShutdownParts'
  BY <1>4 DEF ListRuns, RecordIsHeld, Busy
<1>5. ASSUME NEW n \in Names, NameStep(n) PROVE Rest /\ Holds(n)
  <2>1. CASE Start(n)
    <3>1. Rest
      BY <2>1 DEF Start, AfterNet
    <3>2. Holds(n)
      BY <2>1 DEF Start, AfterNet, Holds, Busy
    <3> QED  BY <3>1, <3>2
  <2>2. CASE BeforeEnsureNetwork(n)
    <3>1. Rest
      BY <2>2 DEF BeforeEnsureNetwork, AppendNetwork
    <3>2. Holds(n)
      BY <2>2 DEF BeforeEnsureNetwork, AppendNetwork, Holds, Busy
    <3> QED  BY <3>1, <3>2
  <2>3. CASE EnsureNetwork(n)
    <3>1. Rest
      BY <2>3 DEF EnsureNetwork, AfterNet
    <3>2. Holds(n)
      BY <2>3 DEF EnsureNetwork, AfterNet, Holds, Busy
    <3> QED  BY <3>1, <3>2
  <2>4. CASE ReadRecord(n)
    <3>1. Rest
      BY <2>4 DEF ReadRecord
    <3>2. Holds(n)
      BY <2>4 DEF ReadRecord, Holds, Busy
    <3> QED  BY <3>1, <3>2
  <2>5. CASE CreateRecord(n)
    <3>1. Rest
      BY <2>5 DEF CreateRecord, WriteRecord
    <3>2. Holds(n)
      BY <2>5 DEF CreateRecord, WriteRecord, Holds, Busy
    <3> QED  BY <3>1, <3>2
  <2>6. CASE AppendName(n)
    <3>1. EnabledInv'
      BY <2>6 DEF AppendName, AppendSandbox
    <3>3. ListedIsBusy'
      <4>1. \/ UNCHANGED sandboxes
            \/ sandboxes' = [sandboxes EXCEPT ![RunOf[n]] = @ \cup {n}]
        BY <2>6 DEF AppendName, AppendSandbox
      <4> QED  BY SMTT(30), <2>6, <4>1 DEF AppendName
    <3>2. Holds(n)
      BY <2>6 DEF AppendName, AppendSandbox, Holds, Busy
    <3> QED  BY <3>1, <3>2, <3>3
  <2>7. CASE SpawnWatchdog(n)
    <3>1. Rest
      BY <2>7 DEF SpawnWatchdog
    <3>2. Holds(n)
      BY <2>7 DEF SpawnWatchdog, Holds, Busy
    <3> QED  BY <3>1, <3>2
  <2>8. CASE Create(n)
    <3>1. Rest
      BY <2>8 DEF Create, AfterStop, NamesInv, OwnNames
    <3>2. Holds(n)
      BY <2>8 DEF Create, AfterStop, Holds, Busy
    <3> QED  BY <3>1, <3>2
  <2>9. CASE StartBackend(n)
    <3>1. Rest
      BY SMTT(30), <2>9 DEF StartBackend
    <3>2. Holds(n)
      BY <2>9 DEF StartBackend, Holds, Busy
    <3> QED  BY <3>1, <3>2
  <2>10. CASE Register(n)
    <3>1. Rest
      BY <2>10 DEF Register, StopOf, NamesInv, OwnNames
    <3>2. Holds(n)
      BY <2>10 DEF Register, StopOf, Holds, Busy
    <3> QED  BY <3>1, <3>2
  <2>11. CASE Stop(n)
    <3>1. Rest
      BY <2>11 DEF Stop, StopOf, NamesInv, OwnNames
    <3>2. Holds(n)
      BY <2>11 DEF Stop, StopOf, Holds, Busy
    <3> QED  BY <3>1, <3>2
  <2>12. CASE Remove(n)
    <3>1. Rest
      BY <2>12 DEF Remove, AfterStop, NamesInv, OwnNames
    <3>2. Holds(n)
      BY <2>12 DEF Remove, AfterStop, Holds, Busy
    <3> QED  BY <3>1, <3>2
  <2>13. CASE Unlist(n)
    <3>1. Rest
      BY <2>13 DEF Unlist, RemoveSandboxLine, IsEmpty, NamesInv, OwnNames
    <3>2. Holds(n)
      BY <2>13 DEF Unlist, RemoveSandboxLine, IsEmpty, Holds, Busy
    <3> QED  BY <3>1, <3>2
  <2>14. CASE LateCreate(n)
    <3>1. Rest
      BY <2>14 DEF LateCreate, NamesInv, OwnNames
    <3>2. Holds(n)
      BY <2>14 DEF LateCreate, Holds, Busy
    <3> QED  BY <3>1, <3>2
  <2> QED
    BY <1>5, <2>1, <2>2, <2>3, <2>4, <2>5, <2>6, <2>7, <2>8, <2>9, <2>10,
       <2>11, <2>12, <2>13, <2>14 DEF NameStep
<1>6. ASSUME NEW x \in Nets, Close(x) PROVE Rest /\ Holds(x)
  BY <1>6 DEF Close, Holds, Busy
<1>7. ASSUME NEW x \in Actors, ActorStep(x) PROVE Rest /\ Holds(x)
  <2>1. CASE AfterRemoveNetwork(x)
    <3>1. Rest
      BY <1>7, <2>1 DEF AfterRemoveNetwork, RemoveNetworkLine, NetDone
    <3>2. CASE sandboxes[RunOf[x]] = {}
      BY <1>7, <2>1, <3>2 DEF AfterRemoveNetwork, RemoveNetworkLine, IsEmpty,
                              Holds, Busy
    <3>3. ASSUME NEW m \in sandboxes[RunOf[x]] PROVE Holds(x)
      <4>1. m \in Names \ {x}
        BY ZenonT(40), <1>7, <2>1 DEF AfterRemoveNetwork
      <4> QED
        BY ZenonT(40), <1>7, <2>1, <3>3, <4>1
           DEF AfterRemoveNetwork, RemoveNetworkLine, Holds
    <3> QED  BY <3>1, <3>2, <3>3
  <2>2. CASE PruneFiles(x)
    <3>1. Rest
      BY <1>7, <2>2 DEF PruneFiles, Prune, RemoveFiles, NetDone
    <3>2. Holds(x)
      BY <1>7, <2>2 DEF PruneFiles, Prune, RemoveFiles, Holds
    <3> QED  BY <3>1, <3>2
  <2> QED  BY <1>7, <2>1, <2>2 DEF ActorStep
<1>8. ASSUME NEW p \in Reapers, ReaperStep(p) PROVE ShutdownParts'
  <2>1. CASE ReadSandboxes(p)
    BY <2>1 DEF ReadSandboxes, RecordIsHeld, Busy
  <2>2. CASE RemoveNetworks(p)
    BY <2>2 DEF RemoveNetworks, RecordIsHeld, Busy
  <2>3. CASE DeleteRun(p)
    BY <1>8, <2>3 DEF DeleteRun, DeleteFiles, RemoveFiles, RecordIsHeld, Busy
  <2>4. ASSUME NEW n \in Names, RemoveByName(p, n) PROVE ShutdownParts'
    BY <2>4 DEF RemoveByName, RecordIsHeld, Busy
  <2> QED  BY <1>8, <2>1, <2>2, <2>3, <2>4 DEF ReaperStep
<1>9. ASSUME NEW r \in Runs, SweepStep(r) PROVE ShutdownParts'
  <2>1. CASE SweepDone(r)
    BY <2>1 DEF SweepDone, RecordIsHeld, Busy
  <2>2. ASSUME NEW t \in Runs, ReapIfDead(r, t) PROVE ShutdownParts'
    BY <2>2 DEF ReapIfDead, RecordIsHeld, Busy
  <2> QED  BY <1>8, <1>9, <2>1, <2>2, ReaperFacts DEF SweepStep
<1>10. ASSUME NEW r \in Runs, WatchdogStep(r) PROVE ShutdownParts'
  <2>1. CASE WatchdogEof(r)
    BY <2>1 DEF WatchdogEof, RecordIsHeld, Busy
  <2> QED  BY <1>8, <1>10, <2>1, ReaperFacts DEF WatchdogStep
<1>11. CASE UNCHANGED vars
  BY <1>11 DEF vars, RecordIsHeld, Busy
<1> QED
  BY <1>2, <1>3, <1>4, <1>5, <1>6, <1>7, <1>9, <1>10, <1>11, HoldsTheRecord
     DEF Next

\* When the last of a process's concurrent teardowns is over, its run record
\* is gone, even if every call to the backend and every append failed; the
\* rewrites of the ledger's files are taken to succeed.
THEOREM LastOneOut ==
  ASSUME LivenessIsKnown
  PROVE  Spec => []CleanShutdown
<1>1. Init => ShutdownParts
  BY ShutdownStart
<1>2. OwnershipInv /\ ShutdownParts /\ [Next]_vars => ShutdownParts'
  BY ShutdownStep
<1>3. OwnershipInv /\ ShutdownParts => CleanShutdown
  BY HeldIsClean DEF ShutdownParts, OwnershipInv
<1> QED
  BY <1>1, <1>2, <1>3, OwnershipInvariant, LivenessIsKnown, PTL DEF Spec

-----------------------------------------------------------------------------
(* The tolerance of is_alive                                               *)

\* A reading lies less than a second around the true start plus the delay
LEMMA ReadingBounds ==
  ASSUME NEW started \in Int, NEW s \in Int, NEW t \in Int,
         NEW delay \in Int, NEW step \in Int,
         Reading(started, s, t, delay, step)
  PROVE  /\ Second * started > s + delay + step - Second
         /\ Second * started < s + delay + step + Second
<1>1. PICK now \in Int, etime \in Int :
        /\ Cut(now, t + delay + step) /\ Cut(etime, t - s)
        /\ started = ProcessStarted(now, etime)
  BY DEF Reading
<1> QED
  BY <1>1 DEF Cut, ProcessStarted, Second

\* One process never looks like another: if the clock has not been stepped
\* between two readings and each was taken within a second of its ps, they are
\* within the tolerance; is_alive's 2 seconds leave nothing to spare
THEOREM SameProcessIsAlive ==
  ASSUME NEW s \in Int, NEW step \in Int,
         NEW t1 \in Int, NEW delay1 \in 0..(Second - 1), NEW r1 \in Int,
         NEW t2 \in Int, NEW delay2 \in 0..(Second - 1), NEW r2 \in Int,
         Reading(r1, s, t1, delay1, step),
         Reading(r2, s, t2, delay2, step)
  PROVE  IsAlive(r1, r2)
<1>1. /\ delay1 \in Int /\ 0 <= delay1 /\ delay1 < Second
      /\ delay2 \in Int /\ 0 <= delay2 /\ delay2 < Second
  BY DEF Second
<1>2. /\ Second * r1 > s + delay1 + step - Second
      /\ Second * r1 < s + delay1 + step + Second
      /\ Second * r2 > s + delay2 + step - Second
      /\ Second * r2 < s + delay2 + step + Second
  BY <1>1, ReadingBounds
<1>3. Second * (r1 - r2) < 3 * Second /\ Second * (r2 - r1) < 3 * Second
  BY <1>1, <1>2 DEF Second
<1> QED
  BY <1>3 DEF IsAlive, Second

\* A later process under the same pid is told apart once it started five
\* seconds after the recorded one; closer than that nothing is promised
THEOREM ReusedPidIsDead ==
  ASSUME NEW s1 \in Int, NEW s2 \in Int, s2 >= s1 + 5 * Second,
         NEW step \in Int,
         NEW t1 \in Int, NEW delay1 \in 0..(Second - 1), NEW r1 \in Int,
         NEW t2 \in Int, NEW delay2 \in 0..(Second - 1), NEW r2 \in Int,
         Reading(r1, s1, t1, delay1, step),
         Reading(r2, s2, t2, delay2, step)
  PROVE  ~IsAlive(r1, r2)
<1>1. /\ delay1 \in Int /\ 0 <= delay1 /\ delay1 < Second
      /\ delay2 \in Int /\ 0 <= delay2 /\ delay2 < Second
  BY DEF Second
<1>2. /\ Second * r1 < s1 + delay1 + step + Second
      /\ Second * r2 > s2 + delay2 + step - Second
  BY <1>1, ReadingBounds
<1>3. Second * (r2 - r1) > 2 * Second
  BY <1>1, <1>2 DEF Second
<1> QED
  BY <1>3 DEF IsAlive, Second

\* A clock stepped by five seconds or more between the two readings makes a
\* process that is up look dead: the sweep of another run then takes its
\* sandboxes (the hazard at is_alive)
THEOREM ClockStepKills ==
  ASSUME NEW s \in Int, NEW step1 \in Int, NEW step2 \in Int,
         step2 >= step1 + 5 * Second \/ step1 >= step2 + 5 * Second,
         NEW t1 \in Int, NEW delay1 \in 0..(Second - 1), NEW r1 \in Int,
         NEW t2 \in Int, NEW delay2 \in 0..(Second - 1), NEW r2 \in Int,
         Reading(r1, s, t1, delay1, step1),
         Reading(r2, s, t2, delay2, step2)
  PROVE  ~IsAlive(r1, r2)
<1>1. /\ delay1 \in Int /\ 0 <= delay1 /\ delay1 < Second
      /\ delay2 \in Int /\ 0 <= delay2 /\ delay2 < Second
  BY DEF Second
<1>2. /\ Second * r1 > s + delay1 + step1 - Second
      /\ Second * r1 < s + delay1 + step1 + Second
      /\ Second * r2 > s + delay2 + step2 - Second
      /\ Second * r2 < s + delay2 + step2 + Second
  BY <1>1, ReadingBounds
<1>3. CASE step2 >= step1 + 5 * Second
  <2>1. Second * (r2 - r1) > 2 * Second
    BY <1>1, <1>2, <1>3 DEF Second
  <2> QED
    BY <2>1 DEF IsAlive, Second
<1>4. CASE step1 >= step2 + 5 * Second
  <2>1. Second * (r1 - r2) > 2 * Second
    BY <1>1, <1>2, <1>4 DEF Second
  <2> QED
    BY <2>1 DEF IsAlive, Second
<1> QED
  BY <1>3, <1>4

-----------------------------------------------------------------------------
(* The calendar                                                            *)

LEMMA QuotientRoundsDown ==
  ASSUME NEW a \in Int, NEW b \in Nat \ {0}, 0 <= a
  PROVE  \E q \in Int : Quotient(a, b) = q /\ b * q <= a /\ a < b * q + b /\ 0 <= q
BY SMT DEF Quotient

\* days and years before the first of an era belong to the era before
LEMMA EraRoundsDown ==
  ASSUME NEW n \in Int
  PROVE  /\ \E era \in Int : /\ EraOf(n, 400) = era
                             /\ 0 <= n - era * 400 /\ n - era * 400 <= 399
         /\ \E era \in Int : /\ EraOf(n, 146097) = era
                             /\ 0 <= n - era * 146097
                             /\ n - era * 146097 <= 146096
<1>1. CASE n >= 0
  <2>1. EraOf(n, 400) = n \div 400 /\ EraOf(n, 146097) = n \div 146097
    BY <1>1, SMT DEF EraOf, Quotient
  <2> QED
    BY <2>1, SMT
<1>2. CASE n < 0
  <2>1. /\ EraOf(n, 400) = -((399 - n) \div 400)
        /\ EraOf(n, 146097) = -((146096 - n) \div 146097)
    BY <1>2, SMT DEF EraOf, Quotient
  <2> QED
    BY <2>1, SMT
<1> QED
  BY <1>1, <1>2, SMT

\* An era has 400 years, and every day of it a year and a day of that year: the
\* corrections for leap days carry none into the next.
LEMMA YearAndDay ==
  ASSUME NEW doe \in Int, 0 <= doe, doe <= 146096
  PROVE  \E yoe, leap \in Int :
           /\ YearOfEra(doe) = yoe /\ LeapDays(yoe) = leap
           /\ 0 <= yoe /\ yoe <= 399
           /\ 0 <= doe - (365 * yoe + leap) /\ doe - (365 * yoe + leap) <= 365
<1>1. PICK q1 \in Int : Quotient(doe, 1460) = q1 /\ 1460 * q1 <= doe
                        /\ doe < 1460 * q1 + 1460
  BY QuotientRoundsDown, SMT
<1>2. PICK q2 \in Int : Quotient(doe, 36524) = q2 /\ 36524 * q2 <= doe
                        /\ doe < 36524 * q2 + 36524
  BY QuotientRoundsDown, SMT
<1>3. PICK q3 \in Int : Quotient(doe, 146096) = q3 /\ 146096 * q3 <= doe
                        /\ doe < 146096 * q3 + 146096
  BY QuotientRoundsDown, SMT
<1>4. PICK n \in Int : n = doe - q1 + q2 - q3 /\ 0 <= n
  BY <1>1, <1>2, <1>3, SMT
<1>5. PICK yoe \in Int : Quotient(n, 365) = yoe /\ 365 * yoe <= n
                         /\ n < 365 * yoe + 365 /\ 0 <= yoe
  BY <1>4, QuotientRoundsDown, SMT
<1> yoe >= 0
  BY <1>5
<1>6. PICK y4 \in Int : Quotient(yoe, 4) = y4 /\ 4 * y4 <= yoe
                        /\ yoe < 4 * y4 + 4
  BY QuotientRoundsDown, SMT
<1>7. PICK y100 \in Int : Quotient(yoe, 100) = y100 /\ 100 * y100 <= yoe
                          /\ yoe < 100 * y100 + 100
  BY QuotientRoundsDown, SMT
<1>8. /\ yoe <= 399
      /\ 0 <= doe - (365 * yoe + (y4 - y100))
      /\ doe - (365 * yoe + (y4 - y100)) <= 365
  <2>1. 1460 * q1 <= doe /\ doe < 1460 * q1 + 1460
    BY <1>1
  <2>2. 36524 * q2 <= doe /\ doe < 36524 * q2 + 36524
    BY <1>2
  <2>3. 146096 * q3 <= doe /\ doe < 146096 * q3 + 146096
    BY <1>3
  <2>4. 365 * yoe <= n /\ n < 365 * yoe + 365 /\ n = doe - q1 + q2 - q3
    BY <1>4, <1>5
  <2>5. 4 * y4 <= yoe /\ yoe < 4 * y4 + 4
        /\ 100 * y100 <= yoe /\ yoe < 100 * y100 + 100
    BY <1>6, <1>7
  <2> QED
    BY <2>1, <2>2, <2>3, <2>4, <2>5, SMT
<1>9. YearOfEra(doe) = yoe
  BY <1>1, <1>2, <1>3, <1>4, <1>5, SMT DEF YearOfEra
<1>10. LeapDays(yoe) = y4 - y100
  BY <1>6, <1>7, SMT DEF LeapDays
<1> QED
  BY <1>5, <1>8, <1>9, <1>10, SMT

LEMMA MonthAndDay ==
  ASSUME NEW doy \in Int, 0 <= doy, doy <= 365
  PROVE  \E mp, start \in Int :
           /\ MonthOfYear(doy) = mp /\ MonthStart(mp) = start
           /\ 0 <= mp /\ mp <= 11
           /\ start <= doy /\ doy <= start + 30
BY SMT DEF MonthOfYear, MonthStart, Quotient

\* A day has one date: days_from_civil takes civil_from_days back, on every day
\* before and after the epoch, and the date's month and day are in range.
THEOREM DateRoundTrip ==
  \A days \in Int :
    LET date == CivilFromDays(days)
    IN /\ date.y \in Int /\ date.m \in 1..12 /\ date.d \in 1..31
       /\ DaysFromCivil(date.y, date.m, date.d) = days
<1> SUFFICES ASSUME NEW days \in Int
             PROVE  LET date == CivilFromDays(days)
                    IN /\ date.y \in Int /\ date.m \in 1..12 /\ date.d \in 1..31
                       /\ DaysFromCivil(date.y, date.m, date.d) = days
  OBVIOUS
<1>1. PICK z \in Int : z = days + 719468
  BY SMT
<1>2. PICK era \in Int : /\ EraOf(z, 146097) = era
                         /\ 0 <= z - era * 146097 /\ z - era * 146097 <= 146096
  BY EraRoundsDown, SMT
<1>3. PICK doe \in Int : doe = z - era * 146097 /\ 0 <= doe /\ doe <= 146096
  BY <1>2, SMT
<1>4. PICK yoe, leap \in Int :
        /\ YearOfEra(doe) = yoe /\ LeapDays(yoe) = leap
        /\ 0 <= yoe /\ yoe <= 399
        /\ 0 <= doe - (365 * yoe + leap) /\ doe - (365 * yoe + leap) <= 365
  BY <1>3, YearAndDay, SMT
<1>5. PICK doy \in Int : doy = doe - (365 * yoe + leap) /\ 0 <= doy /\ doy <= 365
  BY <1>4, SMT
<1>6. PICK mp, start \in Int :
        /\ MonthOfYear(doy) = mp /\ MonthStart(mp) = start
        /\ 0 <= mp /\ mp <= 11
        /\ start <= doy /\ doy <= start + 30
  BY <1>5, MonthAndDay, SMT
<1>7. PICK m \in Int : /\ m = IF mp < 10 THEN mp + 3 ELSE mp - 9
                       /\ 1 <= m /\ m <= 12 /\ (m + 9) % 12 = mp
  BY <1>6, SMT
<1>8. PICK d \in Int : d = doy - start + 1 /\ 1 <= d /\ d <= 31
  BY <1>6, SMT
<1>9. PICK y \in Int : y = yoe + era * 400
  BY SMT
<1>10. PICK year \in Int : year = y + (IF m <= 2 THEN 1 ELSE 0)
  BY SMT
<1>11. CivilFromDays(days) = [ y |-> year, m |-> m, d |-> d ]
  BY <1>1, <1>2, <1>3, <1>4, <1>5, <1>6, <1>7, <1>8, <1>9, <1>10, SMT
     DEF CivilFromDays
<1>12. EraOf(y, 400) = era
  <2>1. PICK e \in Int : EraOf(y, 400) = e /\ 0 <= y - e * 400 /\ y - e * 400 <= 399
    BY EraRoundsDown, SMT
  <2>2. 0 <= yoe /\ yoe <= 399
    BY <1>4
  <2> QED
    BY <1>9, <2>1, <2>2, SMT
<1>13. DaysFromCivil(year, m, d)
         = era * 146097 + yoe * 365 + leap + doy - 719468
  <2>1. (IF m <= 2 THEN year - 1 ELSE year) = y
    BY <1>10, SMT
  <2>2. y - era * 400 = yoe
    BY <1>9, SMT
  <2>3. MonthStart((m + 9) % 12) = start
    BY <1>6, <1>7, SMT
  <2>4. start + d - 1 = doy
    BY <1>8, SMT
  <2>5. DaysFromCivil(year, m, d)
          = era * 146097 + (y - era * 400) * 365 + LeapDays(y - era * 400)
              + (MonthStart((m + 9) % 12) + d - 1) - 719468
    BY <1>12, <2>1, SMT DEF DaysFromCivil
  <2>6. DaysFromCivil(year, m, d)
          = era * 146097 + yoe * 365 + leap + (start + d - 1) - 719468
    BY <1>4, <2>2, <2>3, <2>5, SMT
  <2> QED
    BY <2>4, <2>6, SMT
<1>14. DaysFromCivil(year, m, d) = days
  BY <1>1, <1>3, <1>5, <1>13, SMT
<1>15. m \in 1..12 /\ d \in 1..31
  BY <1>7, <1>8, SMT
<1>16. /\ CivilFromDays(days).y = year /\ CivilFromDays(days).m = m
       /\ CivilFromDays(days).d = d
  BY <1>11, SMT
<1> QED
  BY <1>14, <1>15, <1>16, SMT

\* The calendar repeats after an era of 400 years: what holds of the days of one
\* era holds of every day.
THEOREM CalendarRepeats ==
  \A days \in Int :
    CivilFromDays(days + 146097)
      = [ CivilFromDays(days) EXCEPT !.y = @ + 400 ]
<1> SUFFICES ASSUME NEW days \in Int
             PROVE  CivilFromDays(days + 146097)
                      = [ CivilFromDays(days) EXCEPT !.y = @ + 400 ]
  OBVIOUS
<1>1. PICK z \in Int : z = days + 719468
  BY SMT
<1>2. PICK era \in Int : /\ EraOf(z, 146097) = era
                         /\ 0 <= z - era * 146097 /\ z - era * 146097 <= 146096
  BY EraRoundsDown, SMT
<1>3. PICK later, next \in Int :
        later = days + 146097 /\ next = later + 719468 /\ next = z + 146097
  BY <1>1, SMT
<1>4. PICK era2 \in Int : EraOf(next, 146097) = era2 /\ era2 = era + 1
  <2>1. PICK e \in Int : /\ EraOf(next, 146097) = e
                         /\ 0 <= next - e * 146097 /\ next - e * 146097 <= 146096
    BY EraRoundsDown, SMT
  <2> QED
    BY <1>2, <1>3, <2>1, SMT
<1>5. PICK doe \in Int : /\ doe = z - era * 146097 /\ 0 <= doe /\ doe <= 146096
                         /\ doe = next - era2 * 146097
  BY <1>2, <1>3, <1>4, SMT
<1>6. PICK yoe, leap \in Int :
        /\ YearOfEra(doe) = yoe /\ LeapDays(yoe) = leap
        /\ 0 <= yoe /\ yoe <= 399
        /\ 0 <= doe - (365 * yoe + leap) /\ doe - (365 * yoe + leap) <= 365
  BY <1>5, YearAndDay, SMT
<1>7. PICK doy \in Int : doy = doe - (365 * yoe + leap) /\ 0 <= doy /\ doy <= 365
  BY <1>6, SMT
<1>8. PICK mp, start \in Int :
        /\ MonthOfYear(doy) = mp /\ MonthStart(mp) = start
        /\ 0 <= mp /\ mp <= 11
        /\ start <= doy /\ doy <= start + 30
  BY <1>7, MonthAndDay, SMT
<1>9. PICK m \in Int : m = IF mp < 10 THEN mp + 3 ELSE mp - 9
  BY <1>8, SMT
<1>10. PICK y \in Int : y = yoe + era * 400 + (IF m <= 2 THEN 1 ELSE 0)
  BY SMT
<1>11. CivilFromDays(days) = [ y |-> y, m |-> m, d |-> doy - start + 1 ]
  BY <1>1, <1>2, <1>5, <1>6, <1>7, <1>8, <1>9, <1>10, SMT DEF CivilFromDays
<1>12. PICK y2 \in Int : /\ y2 = yoe + era2 * 400 + (IF m <= 2 THEN 1 ELSE 0)
                         /\ y2 = y + 400
  BY <1>4, <1>10, SMT
<1>13. CivilFromDays(later) = [ y |-> y2, m |-> m, d |-> doy - start + 1 ]
  BY <1>3, <1>4, <1>5, <1>6, <1>7, <1>8, <1>9, <1>12, SMT DEF CivilFromDays
<1> QED
  BY <1>3, <1>11, <1>12, <1>13, SMT

\* What the ledger says of an instant is read as that instant again: writing
\* the start of a process and parsing it loses nothing, at any second.
THEOREM LedgerTimeIsExact ==
  \A secs \in Int : Iso8601ToUnixSecs(UnixSecsToIso8601(secs)) = secs
<1> SUFFICES ASSUME NEW secs \in Int
             PROVE  Iso8601ToUnixSecs(UnixSecsToIso8601(secs)) = secs
  OBVIOUS
<1> DEFINE date == CivilFromDays(secs \div 86400)
<1>1. PICK days, rem \in Int : /\ days = secs \div 86400 /\ rem = secs % 86400
                               /\ secs = days * 86400 + rem /\ 0 <= rem
  BY SMT
<1>2. PICK hh, mm, ss \in Int : /\ hh = rem \div 3600
                                /\ mm = (rem % 3600) \div 60 /\ ss = rem % 60
                                /\ rem = hh * 3600 + mm * 60 + ss
  BY SMT
<1>3. DaysFromCivil(date.y, date.m, date.d) = days
  BY <1>1, DateRoundTrip, SMT
<1>4. Iso8601ToUnixSecs(UnixSecsToIso8601(secs)) =
        DaysFromCivil(date.y, date.m, date.d) * 86400 + hh * 3600 + mm * 60 + ss
  BY <1>1, <1>2, SMT DEF Iso8601ToUnixSecs, UnixSecsToIso8601
<1>5. secs = days * 86400 + hh * 3600 + mm * 60 + ss
  BY <1>1, <1>2, SMT
<1> QED
  BY <1>3, <1>4, <1>5, SMT

=============================================================================

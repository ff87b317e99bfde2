------------------------------ MODULE MsbProofs -----------------------------
(***************************************************************************)
(* Proofs about the microsandbox backend.  First about Provisioner, the    *)
(* bootstrap of its toolchain, for any number of calls and any ages; then  *)
(* about MsbBoot, for any number of candidate names, of polls of the       *)
(* install lock and of checkpoints, and any choice of boots.               *)
(***************************************************************************)
EXTENDS Provisioner, MsbBoot, FiniteSetTheorems, TLAPS

-----------------------------------------------------------------------------
(* Provisioner: types                                                      *)

\* The type invariant: every call stands at one of its steps, the lock has at
\* most one maker, an installed file is missing, partial or whole.
THEOREM ProvisionTypes == ProvisionSpec => []ProvisionTypeOK
<1>1. ProvisionInit => ProvisionTypeOK
  <2>1. 0 \in 0..StaleAge /\ 0 \in 0..WaitLimit
    BY ProvisionerAssumption
  <2> QED
    BY <2>1 DEF ProvisionInit, ProvisionTypeOK, Places
<1>2. ProvisionTypeOK /\ [ProvisionNext]_provisionVars => ProvisionTypeOK'
  <2> SUFFICES ASSUME ProvisionTypeOK, [ProvisionNext]_provisionVars PROVE ProvisionTypeOK'
    OBVIOUS
  <2> USE ProvisionerAssumption DEF ProvisionTypeOK, Places
  <2>1. ASSUME NEW p \in Procs, NEW l \in Places, Goto(p, l)
        PROVE at' \in [Procs -> Places] /\ waited' \in [Procs -> 0..WaitLimit]
    BY <2>1 DEF Goto
  <2>2. CASE Tick
    <3>1. \A n, limit \in Nat : n \in 0..limit => Bump(n, limit) \in 0..limit
      BY DEF Bump
    <3>2. age' \in 0..StaleAge
      BY <2>2, <3>1 DEF Tick
    <3>3. waited' \in [Procs -> 0..WaitLimit]
      BY <2>2, <3>1 DEF Tick
    <3> QED
      BY <2>2, <3>2, <3>3 DEF Tick
  <2>3. ASSUME NEW p \in Procs, EnsureInstalled(p) PROVE ProvisionTypeOK'
    BY <2>1, <2>3 DEF EnsureInstalled
  <2>4. ASSUME NEW p \in Procs, Acquire(p) PROVE ProvisionTypeOK'
    <3>1. contested' \in BOOLEAN
      BY <2>4 DEF Acquire, AgeSeen, CannotMake
    <3>2. lock' \in Procs \cup {None} /\ age' \in 0..StaleAge
      BY <2>4 DEF Acquire, MakeLock, AgeSeen, CannotMake, Poll
    <3>3. PICK l \in {"recheck", "evict", "failed", "acquire"} : Goto(p, l)
      BY <2>4 DEF Acquire, MakeLock, AgeSeen, CannotMake, Poll
    <3> QED
      BY <2>1, <2>4, <3>1, <3>2, <3>3 DEF Acquire
  <2>5. ASSUME NEW p \in Procs, Evict(p) PROVE ProvisionTypeOK'
    BY <2>1, <2>5 DEF Evict
  <2>6. ASSUME NEW p \in Procs, Retake(p) PROVE ProvisionTypeOK'
    BY <2>1, <2>6 DEF Retake, MakeLock, Poll, CannotMake
  <2>7. ASSUME NEW p \in Procs, Unlock(p) PROVE ProvisionTypeOK'
    BY <2>1, <2>7 DEF Unlock
  <2>8. ASSUME NEW p \in Procs, Recheck(p) PROVE ProvisionTypeOK'
    BY <2>1, <2>8 DEF Recheck, Quiet
  <2>9. ASSUME NEW p \in Procs, DownloadMsb(p) \/ DownloadKrun(p) PROVE ProvisionTypeOK'
    BY <2>1, <2>9 DEF DownloadMsb, DownloadKrun, Quiet
  <2>10. ASSUME NEW p \in Procs, Install(p) PROVE ProvisionTypeOK'
    BY <2>1, <2>10 DEF Install, Move, Quiet, Files
  <2>11. ASSUME NEW p \in Procs, Die(p) \/ EnsureAgain(p) PROVE ProvisionTypeOK'
    BY <2>1, <2>11 DEF Die, EnsureAgain, Quiet
  <2>12. CASE UNCHANGED provisionVars
    BY <2>12 DEF provisionVars
  <2> QED
    BY <2>2, <2>3, <2>4, <2>5, <2>6, <2>7, <2>8, <2>9, <2>10, <2>11, <2>12
    DEF ProvisionNext, Step
<1> QED
  BY <1>1, <1>2, PTL DEF ProvisionSpec

-----------------------------------------------------------------------------
(* One installer                                                           *)

\* who holds has made the directory; a taker-over that nobody contests has
\* judged the lock of a dead process, alone
HolderMadeIt == \A p \in Procs : at[p] \in Holding => lock = p
EvictorAlone ==
  \A p \in Procs : at[p] = "evict" =>
    /\ lock # None
    /\ \A q \in Procs : at[q] \notin Holding /\ (at[q] = "evict" => q = p)
LockHeld == lock # None => at[lock] \in Holding \cup {"dead"}
LockInv == ~contested => HolderMadeIt /\ EvictorAlone /\ LockHeld

LEMMA LockInvInit == ProvisionInit => LockInv
BY DEF ProvisionInit, LockInv, HolderMadeIt, EvictorAlone, LockHeld, Holding

\* A step that changes neither the lock nor the history and moves one call
\* within Holding, or within its complement, keeps the invariant.
LEMMA PrivateStep ==
  ASSUME ProvisionTypeOK, LockInv, NEW p \in Procs, NEW l, Goto(p, l),
         lock' = lock, contested' = contested,
         (at[p] \in Holding) <=> (l \in Holding), l # "evict", at[p] # "dead"
  PROVE LockInv'
BY ProvisionerAssumption DEF ProvisionTypeOK, LockInv, HolderMadeIt, EvictorAlone, LockHeld, Goto, Holding

LEMMA LockInvNext == ProvisionTypeOK /\ LockInv /\ [ProvisionNext]_provisionVars => LockInv'
<1> SUFFICES ASSUME ProvisionTypeOK, LockInv, [ProvisionNext]_provisionVars PROVE LockInv'
  OBVIOUS
<1> USE ProvisionerAssumption
<1>1. CASE Tick
  BY <1>1 DEF Tick, LockInv, HolderMadeIt, EvictorAlone, LockHeld
<1>2. ASSUME NEW p \in Procs, EnsureInstalled(p) PROVE LockInv'
  BY <1>2, PrivateStep DEF EnsureInstalled, Holding
<1>3. ASSUME NEW p \in Procs, Acquire(p) PROVE LockInv'
  <2>1. CASE lock = None /\ MakeLock(p, "recheck") /\ UNCHANGED contested
    BY <1>3, <2>1 DEF Acquire, MakeLock, Goto, ProvisionTypeOK, LockInv, HolderMadeIt, EvictorAlone, LockHeld, Holding
  <2>2. CASE lock # None /\ age < StaleAge /\ Poll(p) /\ UNCHANGED <<lock, contested>>
    <3>1. PICK l \in {"failed", "acquire"} : Goto(p, l)
      BY <2>2 DEF Poll
    <3> QED
      BY <1>3, <2>2, <3>1, PrivateStep DEF Acquire, Holding
  <2>3. CASE /\ lock # None /\ Goto(p, "evict") /\ UNCHANGED lock
             /\ contested' = (contested \/ \E q \in Procs : at[q] \in Holding \cup {"evict"})
    BY <1>3, <2>3 DEF Acquire, Goto, ProvisionTypeOK, LockInv, HolderMadeIt, EvictorAlone, LockHeld, Holding
  <2>4. CASE CannotMake(p) /\ UNCHANGED contested
    BY <1>3, <2>4, PrivateStep DEF Acquire, CannotMake, Holding
  <2> QED
    BY <1>3, <2>1, <2>2, <2>3, <2>4 DEF Acquire, AgeSeen
<1>4. ASSUME NEW p \in Procs, Evict(p) PROVE LockInv'
  BY <1>4 DEF Evict, Goto, ProvisionTypeOK, LockInv, HolderMadeIt, EvictorAlone, LockHeld, Holding
<1>5. ASSUME NEW p \in Procs, Retake(p) PROVE LockInv'
  <2>1. CASE lock = None /\ MakeLock(p, "recheck")
    BY <1>5, <2>1 DEF Retake, MakeLock, Goto, ProvisionTypeOK, LockInv, HolderMadeIt, EvictorAlone, LockHeld, Holding
  <2>2. CASE lock # None /\ Poll(p) /\ UNCHANGED lock
    <3>1. PICK l \in {"failed", "acquire"} : Goto(p, l)
      BY <2>2 DEF Poll
    <3> QED
      BY <1>5, <2>2, <3>1, PrivateStep DEF Retake, Holding
  <2>3. CASE CannotMake(p) /\ UNCHANGED contested
    BY <1>5, <2>3, PrivateStep DEF Retake, CannotMake, Holding
  <2> QED
    BY <1>5, <2>1, <2>2, <2>3 DEF Retake
<1>6. ASSUME NEW p \in Procs, Unlock(p) PROVE LockInv'
  BY <1>6 DEF Unlock, Goto, ProvisionTypeOK, LockInv, HolderMadeIt, EvictorAlone, LockHeld, Holding
<1>7. ASSUME NEW p \in Procs, Recheck(p) PROVE LockInv'
  BY <1>7, PrivateStep DEF Recheck, Quiet, Holding
<1>8. ASSUME NEW p \in Procs, DownloadMsb(p) \/ DownloadKrun(p) PROVE LockInv'
  BY <1>8, PrivateStep DEF DownloadMsb, DownloadKrun, Quiet, Holding
<1>9. ASSUME NEW p \in Procs, Install(p) PROVE LockInv'
  BY <1>9, PrivateStep DEF Install, Move, Quiet, Holding
<1>10. ASSUME NEW p \in Procs, Die(p) PROVE LockInv'
  BY <1>10 DEF Die, Goto, Quiet, Returned, ProvisionTypeOK, LockInv, HolderMadeIt, EvictorAlone, LockHeld, Holding
<1>11. ASSUME NEW p \in Procs, EnsureAgain(p) PROVE LockInv'
  BY <1>11, PrivateStep DEF EnsureAgain, Returned, Holding
<1>12. CASE UNCHANGED provisionVars
  BY <1>12 DEF provisionVars, LockInv, HolderMadeIt, EvictorAlone, LockHeld
<1> QED
  BY <1>1, <1>2, <1>3, <1>4, <1>5, <1>6, <1>7, <1>8, <1>9, <1>10, <1>11, <1>12 DEF ProvisionNext, Step

\* The directory is a mutex as long as nobody contests a takeover: at most one
\* call is between acquire and drop, whoever died before.
THEOREM MutualExclusion == ProvisionSpec => []OneInstaller
<1>1. LockInv => OneInstaller
  BY DEF LockInv, HolderMadeIt, OneInstaller, Holders
<1> QED
  BY <1>1, LockInvInit, LockInvNext, ProvisionTypes, PTL DEF ProvisionSpec

\* A call that returned has released the lock: one that is there belongs to a
\* holder or to a killed process.
THEOREM Released == ProvisionSpec => []LockIsReleased
<1>1. LockInv => LockIsReleased
  BY DEF LockInv, LockHeld, LockIsReleased
<1> QED
  BY <1>1, LockInvInit, LockInvNext, ProvisionTypes, PTL DEF ProvisionSpec

-----------------------------------------------------------------------------
(* What is installed                                                       *)

\* what is in place is whole, the library before the binary, and both before
\* a call returns their path
InstallInv ==
  /\ \A f \in Files : installed[f] # "part"
  /\ BinaryIsTheMarker
  /\ \A p \in Procs : at[p] = "moveMsb" => installed["krun"] # "none"
  /\ \A p \in Procs : at[p] \in {"unlock", "ready"} => IsInstalled

LEMMA InstallInvInit == ProvisionInit => InstallInv
BY DEF ProvisionInit, InstallInv, Files, BinaryIsTheMarker

\* Files are only ever added, so a step that installs nothing may move a call
\* to any step that asks for no file.
LEMMA InstallsNothing ==
  ASSUME ProvisionTypeOK, InstallInv, NEW p \in Procs, NEW l, Goto(p, l), installed' = installed,
         l = "moveMsb" => installed["krun"] # "none",
         l \in {"unlock", "ready"} => IsInstalled
  PROVE InstallInv'
BY DEF ProvisionTypeOK, InstallInv, BinaryIsTheMarker, IsInstalled, Goto

LEMMA InstallInvNext == ProvisionTypeOK /\ InstallInv /\ [ProvisionNext]_provisionVars => InstallInv'
<1> SUFFICES ASSUME ProvisionTypeOK, InstallInv, [ProvisionNext]_provisionVars PROVE InstallInv'
  OBVIOUS
<1>1. CASE Tick
  BY <1>1 DEF Tick, InstallInv, BinaryIsTheMarker, IsInstalled
<1>2. ASSUME NEW p \in Procs, EnsureInstalled(p) PROVE InstallInv'
  BY <1>2, InstallsNothing DEF EnsureInstalled
<1>3. ASSUME NEW p \in Procs, Acquire(p) \/ Evict(p) \/ Retake(p) PROVE InstallInv'
  <2>1. PICK l \in {"recheck", "evict", "retake", "failed", "acquire"} : Goto(p, l)
    BY <1>3 DEF Acquire, Evict, Retake, MakeLock, AgeSeen, CannotMake, Poll
  <2>2. installed' = installed
    BY <1>3 DEF Acquire, Evict, Retake
  <2> QED
    BY <2>1, <2>2, InstallsNothing
<1>4. ASSUME NEW p \in Procs, Unlock(p) PROVE InstallInv'
  BY <1>4, InstallsNothing DEF Unlock, InstallInv
<1>5. ASSUME NEW p \in Procs, Recheck(p) PROVE InstallInv'
  BY <1>5, InstallsNothing DEF Recheck, Quiet
<1>6. ASSUME NEW p \in Procs, DownloadMsb(p) \/ DownloadKrun(p) PROVE InstallInv'
  BY <1>6, InstallsNothing DEF DownloadMsb, DownloadKrun, Quiet
<1>7. ASSUME NEW p \in Procs, Install(p) PROVE InstallInv'
  <2>1. CASE Goto(p, "fail") /\ UNCHANGED installed
    BY <2>1, InstallsNothing
  <2>2. CASE Goto(p, "moveMsb") /\ installed' = [installed EXCEPT !["krun"] = "whole"]
    BY <2>2 DEF ProvisionTypeOK, InstallInv, BinaryIsTheMarker, IsInstalled, Goto, Files
  <2>3. CASE /\ at[p] = "moveMsb" /\ Goto(p, "unlock")
             /\ installed' = [installed EXCEPT !["msb"] = "whole"]
    BY <2>3 DEF ProvisionTypeOK, InstallInv, BinaryIsTheMarker, IsInstalled, Goto, Files
  <2> QED
    BY <1>7, <2>1, <2>2, <2>3 DEF Install, Move
<1>8. ASSUME NEW p \in Procs, Die(p) \/ EnsureAgain(p) PROVE InstallInv'
  BY <1>8, InstallsNothing DEF Die, EnsureAgain, Quiet
<1>9. CASE UNCHANGED provisionVars
  BY <1>9 DEF provisionVars, InstallInv, BinaryIsTheMarker, IsInstalled
<1> QED
  BY <1>1, <1>2, <1>3, <1>4, <1>5, <1>6, <1>7, <1>8, <1>9 DEF ProvisionNext, Step

\* Whatever crashed, failed or ran at the same time, also under a contested
\* lock, the binary is never in place without the library.
THEOREM MarkerIsLast == ProvisionSpec => []BinaryIsTheMarker
BY InstallInvInit, InstallInvNext, ProvisionTypes, PTL DEF ProvisionSpec, InstallInv

\* A path ensure_installed returned leads to a whole toolchain, from then on.
THEOREM ReadyIsUsable == ProvisionSpec => []ReadyIsWhole
<1>1. ProvisionTypeOK /\ InstallInv => ReadyIsWhole
  BY DEF ProvisionTypeOK, InstallInv, ReadyIsWhole, IsInstalled, Files
<1> QED
  BY <1>1, InstallInvInit, InstallInvNext, ProvisionTypes, PTL DEF ProvisionSpec

-----------------------------------------------------------------------------
(* MsbBoot: names                                                          *)

LEMMA NamesAre ==
  /\ Cardinality(Names) = Batch * (MaxCheckpoints + 1)
  /\ Cardinality(Names) \in Nat
  /\ Names = 1..Cardinality(Names)
  /\ Names \subseteq Nat /\ NoName \notin Names
  /\ Batch \in Nat /\ Batch >= 1 /\ Batch <= Cardinality(Names)
<1> DEFINE K == Batch * (MaxCheckpoints + 1)
<1>1. /\ Batch \in Nat /\ Batch >= 1 /\ MaxCheckpoints \in Nat
      /\ Batch * MaxCheckpoints \in Nat
  BY MsbAssumption
<1>2. K = Batch * MaxCheckpoints + Batch
  BY <1>1
<1>3. K \in Nat /\ Batch <= K
  BY <1>1, <1>2
<1>4. Cardinality(1..K) = K
  <2>1. K >= 1
    BY <1>1, <1>3
  <2>2. Cardinality(1..K) = IF 1 > K THEN 0 ELSE K - 1 + 1
    BY <1>3, FS_Interval
  <2> QED
    BY <1>3, <2>1, <2>2
<1> QED
  BY <1>1, <1>3, <1>4 DEF Names, NoName

\* A checkpoint more takes a batch of names more.
LEMMA RoomForOne ==
  ASSUME NEW v \in Nat, NEW m \in Nat, Batch * v < m,
         m + Batch <= Cardinality(Names)
  PROVE  v + 1 <= MaxCheckpoints /\ Batch * (v + 1) < m + Batch
<1>0. Batch \in Nat /\ Batch >= 1 /\ MaxCheckpoints \in Nat
  BY MsbAssumption
<1>1. Batch * (v + 1) = Batch * v + Batch /\ Batch * v \in Nat
  BY <1>0
<1>2. Batch * (v + 1) < Batch * (MaxCheckpoints + 1)
  BY <1>0, <1>1, NamesAre
<1>3. v + 1 < MaxCheckpoints + 1
  <2> SUFFICES ASSUME MaxCheckpoints + 1 <= v + 1 PROVE FALSE
    BY <1>0
  <2>1. PICK d \in Nat : v + 1 = MaxCheckpoints + 1 + d
    <3>1. v - MaxCheckpoints \in Nat
      BY <1>0
    <3> QED
      BY <1>0, <3>1
  <2>2. /\ Batch * (v + 1) = Batch * (MaxCheckpoints + 1) + Batch * d
        /\ Batch * d \in Nat
    BY <1>0, <2>1
  <2> QED
    BY <1>0, <1>2, <2>2
<1> QED
  BY <1>0, <1>1, <1>3

-----------------------------------------------------------------------------
(* Types                                                                   *)

Cycle == {"ckptStop", "ckptSnapshot", "ckptRm", "ckptRelease"}
InCall ==
  Launches \cup Cycle \cup
  {"create", "won", "adopt", "undoStop", "undoRemove", "undoLedger"}
Guarding == {"up", "stop", "remove", "unlist", "syncStop", "syncRemove", "close"}

\* The walk is over the names minted last, and each checkpoint has had a batch
\* of its own; what a guard is named after is one of the names.
WalkInv ==
  /\ pc = "idle" => minted = 0 /\ version = 0
  /\ pc # "idle" =>
       /\ walk.first \in Names /\ walk.tried \in 1..walk.size
       /\ minted = walk.first + walk.size - 1
       /\ Batch * version < minted
  /\ pc \in {"idle", "create", "undoStop", "undoRemove", "failed"} =>
       walk.goal = "start"
  /\ pc \in Cycle => walk.goal = "checkpoint"
HeldInv ==
  pc \in Guarding \/ walk.goal = "checkpoint" =>
    handle \in Names /\ ledgerName = handle
BaseInv == TypeOK /\ WalkInv /\ HeldInv

LEMMA Here ==
  ASSUME BaseInv, pc # "idle"
  PROVE  /\ Current \in Names /\ Current \in Candidates
         /\ Candidates \subseteq Names
         /\ walk.first \in Candidates
         /\ walk.tried \in Nat /\ walk.size \in Nat /\ walk.tried >= 1
         /\ walk.tried <= walk.size
<1>1. /\ walk.first \in Names /\ walk.size \in Nat /\ walk.tried \in 1..walk.size
      /\ minted = walk.first + walk.size - 1
      /\ minted \in 0..Cardinality(Names)
  BY NamesAre DEF BaseInv, TypeOK, WalkInv, Walk
<1>2. Current \in Names
  <2>1. /\ walk.first \in Int /\ walk.size \in Int /\ walk.tried \in Int
        /\ 1 <= walk.first /\ 1 <= walk.tried /\ walk.tried <= walk.size
        /\ walk.first + walk.size - 1 <= Cardinality(Names)
    <3>1. walk.first \in Int /\ 1 <= walk.first
      BY <1>1, NamesAre
    <3>2. walk.size \in Int /\ walk.tried \in Int
          /\ 1 <= walk.tried /\ walk.tried <= walk.size
      BY <1>1
    <3>3. walk.first + walk.size - 1 <= Cardinality(Names)
      BY <1>1, NamesAre
    <3> QED
      BY <3>1, <3>2, <3>3
  <2>2. Current \in 1..Cardinality(Names)
    BY <2>1, NamesAre DEF Current
  <2> QED
    BY <2>2, NamesAre
<1>3. \A n \in Names : n \in Nat
  BY NamesAre
<1>4. /\ walk.first \in Nat /\ Current \in Nat
      /\ walk.tried \in Nat /\ walk.tried >= 1 /\ walk.tried <= walk.size
  <2>1. walk.first \in Nat /\ Current \in Nat
    BY <1>1, <1>2, <1>3
  <2>2. walk.tried \in Nat /\ walk.tried >= 1 /\ walk.tried <= walk.size
    BY <1>1
  <2> QED
    BY <2>1, <2>2
<1>5. walk.first <= Current /\ Current < walk.first + walk.size
      /\ walk.first < walk.first + walk.size
  BY <1>1, <1>4 DEF Current
<1> QED
  BY <1>1, <1>2, <1>4, <1>5 DEF Candidates

\* The parts of the types that an action changes together.
CallTypes ==
  /\ kind \in BootKinds /\ keep \in BOOLEAN /\ rmWorks \in BOOLEAN
  /\ pc \in PC /\ verdict \in Classes \cup {"none"}
  /\ walk \in Walk /\ minted \in 0..Cardinality(Names)
  /\ version \in 0..MaxCheckpoints /\ snaps \subseteq 0..MaxCheckpoints
DataTypes ==
  /\ msb \in [Names -> {"none", "starting", "running", "stopped"}]
  /\ late \subseteq Names
  /\ attached \subseteq Names /\ handles \subseteq Names
  /\ started \subseteq Names /\ rekey \subseteq Names \X Names
  /\ ledger \subseteq Names /\ leaked \subseteq Names
  /\ {handle, ledgerName, diag} \subseteq Names \cup {NoName}

LEMMA TypeParts == TypeOK <=> CallTypes /\ DataTypes
BY DEF TypeOK, CallTypes, DataTypes

\* An attempt, and what it leads to, changes the call and msb alone.
LEMMA AttemptsAside ==
  Attempts => UNCHANGED <<scenario, minted, tables, files, guard, disk>>
BY DEF Attempts, SpawnRun, SpawnRestore, Spawned, Activates, ExitsEarly,
       RunIsUp, RunIsOver, RestoreIsUp, RunTimesOut, RestoreDies, Shows,
       Revives, ReviveFails, RetryRelay, RetryHealed, RetryPaused, RetryOnce,
       PollLock, LoseAttempt, NextCandidate

\* Which candidates a walk has, and how far it has come, is not touched when
\* it notes a retry, a poll or a denial.
SameNames(w) ==
  w.goal = walk.goal /\ w.first = walk.first /\ w.size = walk.size

LEMMA AttemptWalk ==
  ASSUME BaseInv, Attempts
  PROVE  /\ pc \in Launches /\ pc' \in Launches \cup {"won", "undoStop", "undoLedger"}
         /\ pc' \in PC /\ verdict' \in Classes \cup {"none"}
         /\ walk' \in Walk
         /\ SameNames(walk')
         /\ \/ walk'.tried = walk.tried
            \/ /\ NextCandidate /\ walk' = NextOf
               /\ walk.tried < walk.size /\ walk'.tried = walk.tried + 1
         /\ pc' = "undoStop" => walk.goal = "start"
<1>0. /\ pc # "idle" => /\ walk.tried \in Nat /\ walk.size \in Nat
                       /\ walk.tried <= walk.size
      /\ walk \in Walk /\ verdict \in Classes \cup {"none"}
  BY Here DEF BaseInv, TypeOK
<1>a. /\ pc \in Launches /\ pc' \in Launches \cup {"won", "undoStop", "undoLedger"}
      /\ pc' \in PC
      /\ pc' = "undoStop" => walk.goal = "start"
  BY <1>0
  DEF Attempts, SpawnRun, SpawnRestore, Spawned, Activates, ExitsEarly,
      RunIsUp, RunIsOver, RestoreIsUp, RunTimesOut, RestoreDies, Shows,
      Revives, ReviveFails, RetryRelay, RetryHealed, RetryPaused, RetryOnce,
      PollLock, LoseAttempt, NextCandidate, Again, GiveUp, Launches, PC
<1>b. pc # "idle"
  BY <1>a DEF Launches
<1>c. verdict' \in Classes \cup {"none"}
  <2>1. Ends \subseteq Classes /\ "other" \in Classes
    BY DEF Ends, RestoreEnds, RunEnds, Classes, Refused
  <2>2. \/ verdict' \in Ends \/ verdict' = "other"
        \/ verdict' = "none" \/ verdict' = verdict
    BY DEF Attempts, SpawnRun, SpawnRestore, Spawned, Activates, ExitsEarly,
           RunIsUp, RunIsOver, RestoreIsUp, RunTimesOut, RestoreDies, Revives,
           ReviveFails, RetryRelay, RetryHealed, RetryPaused, RetryOnce,
           PollLock, LoseAttempt, NextCandidate, Again
  <2> QED
    BY <1>0, <2>1, <2>2
<1>d. /\ walk' \in Walk /\ SameNames(walk')
      /\ \/ walk'.tried = walk.tried
         \/ /\ NextCandidate /\ walk' = NextOf
            /\ walk.tried < walk.size /\ walk'.tried = walk.tried + 1
  <2>1. CASE UNCHANGED walk
    BY <1>0, <1>b, <2>1 DEF SameNames
  <2>2. CASE RetryRelay
    <3>1. walk' = [walk EXCEPT !.relayed = TRUE]
      BY <2>2 DEF RetryRelay
    <3> QED
      BY <1>0, <1>b, <3>1 DEF Walk, SameNames
  <2>3. CASE RetryHealed \/ RetryPaused
    <3>1. verdict \in {"lock", "denied"} \cup Transient
      BY <2>3 DEF RetryHealed, RetryPaused, RetryOnce, InPlace
    <3>2. walk' = [walk EXCEPT !.retried = verdict, !.relayed = FALSE]
      BY <2>3 DEF RetryHealed, RetryPaused, RetryOnce
    <3> QED
      BY <1>0, <1>b, <3>1, <3>2 DEF Walk, SameNames
  <2>4. CASE PollLock
    <3>1. walk.polls + 1 \in 0..LockPolls
      BY <1>0, <2>4, MsbAssumption DEF PollLock, Walk
    <3>2. walk' = [walk EXCEPT !.retried = "lock", !.relayed = FALSE,
                              !.polls = walk.polls + 1]
      BY <2>4 DEF PollLock
    <3> QED
      BY <1>0, <1>b, <3>1, <3>2 DEF Walk, SameNames
  <2>5. CASE LoseAttempt /\ walk' # walk
    <3>1. walk' = [walk EXCEPT !.escalated = walk.escalated \/ verdict = "denied"]
      BY <2>5 DEF LoseAttempt
    <3>2. (walk.escalated \/ verdict = "denied") \in BOOLEAN
      OBVIOUS
    <3> QED
      BY <1>0, <1>b, <3>1, <3>2 DEF Walk, SameNames
  <2>6. CASE NextCandidate /\ walk' # walk
    <3>1. walk' = NextOf /\ walk.tried < walk.size
      BY <2>6 DEF NextCandidate
    <3>2. walk.tried + 1 \in 0..Batch
      BY <1>0, <1>b, <3>1, MsbAssumption DEF Walk
    <3>3. walk' = [walk EXCEPT !.tried = walk.tried + 1, !.retried = "no",
                              !.relayed = FALSE, !.polls = 0]
      BY <3>1 DEF NextOf
    <3>4. walk' \in Walk
      <4>1. 0 \in 0..LockPolls
        BY MsbAssumption
      <4> QED
        BY <1>0, <3>2, <3>3, <4>1 DEF Walk
    <3>5. SameNames(walk') /\ walk'.tried = walk.tried + 1
      BY <1>0, <3>3 DEF Walk, SameNames
    <3> QED
      BY <2>6, <3>1, <3>4, <3>5
  <2> QED
    BY <2>1, <2>2, <2>3, <2>4, <2>5, <2>6
    DEF Attempts, SpawnRun, SpawnRestore, Spawned, Activates, ExitsEarly,
        RunIsUp, RunIsOver, RestoreIsUp, RunTimesOut, RestoreDies, Shows,
        Revives, ReviveFails
<1> QED
  BY <1>a, <1>c, <1>d

\* ... and of msb only what it has under the current name, with the broker's
\* restore of that name noted.
LEMMA AttemptMsb ==
  ASSUME BaseInv, Attempts
  PROVE  /\ \E s \in {"none", "starting", "running", "stopped"} :
              msb' = Set(Current, s)
         /\ late' \subseteq late \cup {Current}
         /\ late' \subseteq Names
<1>0. /\ pc # "idle" /\ Current \in Names /\ late \subseteq Names
      /\ msb \in [Names -> {"none", "starting", "running", "stopped"}]
  BY AttemptWalk, Here DEF Launches, BaseInv, TypeOK
<1>1. msb = Set(Current, msb[Current])
     /\ msb[Current] \in {"none", "starting", "running", "stopped"}
  BY <1>0 DEF Set
<1>2. CASE ExitsEarly
  <2>1. PICK c \in Ends : \E r \in Residue(c) : msb' = Set(Current, r)
    BY <1>2 DEF ExitsEarly
  <2>4. PICK r \in Residue(c) : msb' = Set(Current, r)
    BY <2>1
  <2>2. r \in {"none", "starting", "running", "stopped"}
    BY <1>1, <2>1 DEF Residue
  <2>3. late' = late \cup {Current} \/ late' = late
    BY <1>2 DEF ExitsEarly
  <2> QED
    BY <1>0, <2>2, <2>3, <2>4
<1>3. CASE Activates \/ RunIsUp \/ RunIsOver \/ RestoreIsUp
  BY <1>0, <1>3
  DEF Activates, RunIsUp, RunIsOver, RestoreIsUp, Shows
<1>4. CASE RunTimesOut \/ RestoreDies \/ Revives
  BY <1>0, <1>4
  DEF RunTimesOut, RestoreDies, Shows, Revives
<1>5. CASE RetryRelay \/ NextCandidate
  BY <1>0, <1>1, <1>5 DEF RetryRelay, NextCandidate, Rm
<1>6. CASE UNCHANGED <<msb, late>>
  BY <1>0, <1>1, <1>6
<1> QED
  BY <1>2, <1>3, <1>4, <1>5, <1>6
  DEF Attempts, SpawnRun, SpawnRestore, Spawned, ReviveFails, RetryHealed,
      RetryPaused, RetryOnce, PollLock, LoseAttempt

\* The actions of a call that are no attempt, but for those that mint names.
Between ==
  \/ Create \/ WonStart \/ WonCheckpoint \/ Adopt
  \/ CkptStop \/ CkptSnapshot \/ CkptRm \/ CkptRelease
  \/ UndoStop \/ UndoRemove \/ UndoLedger
  \/ StopSandbox \/ RemoveSandbox \/ SyncStop \/ SyncRemove
  \/ UnlistStopped \/ Close \/ Stop \/ CloseBegins

LEMMA NextIs == Next <=> Start \/ Checkpoint \/ Attempts \/ Between \/ Land \/ Done
BY DEF Next, User, Call, Between

LEMMA BetweenCall ==
  ASSUME BaseInv, Between
  PROVE  /\ UNCHANGED <<scenario, walk, minted, version>>
         /\ pc # "idle" /\ pc' # "idle" /\ pc' \in PC
         /\ pc' # "create" /\ (pc' \in {"undoStop", "undoRemove", "failed"} => walk.goal = "start")
         /\ pc' \in Cycle => pc \in Cycle
         /\ verdict' \in Classes \cup {"none"}
         /\ snaps' \subseteq 0..MaxCheckpoints
<1>0. /\ verdict \in Classes \cup {"none"} /\ snaps \subseteq 0..MaxCheckpoints
      /\ version \in 0..MaxCheckpoints
      /\ (pc \in {"undoStop", "undoRemove", "failed"} => walk.goal = "start")
  BY DEF BaseInv, TypeOK, WalkInv
<1> USE DEF PC, Launches, Cycle
<1>1. CASE Create \/ WonStart \/ WonCheckpoint \/ Adopt
  BY <1>0, <1>1 DEF Create, WonStart, WonCheckpoint, Adopt, Goes, disk
<1>2. CASE CkptStop \/ CkptSnapshot \/ CkptRm \/ CkptRelease
  BY <1>0, <1>2 DEF CkptStop, CkptSnapshot, CkptRm, CkptRelease, disk
<1>3. CASE UndoStop \/ UndoRemove \/ UndoLedger
  BY <1>0, <1>3 DEF UndoStop, UndoRemove, UndoLedger, disk
<1>4. CASE StopSandbox \/ RemoveSandbox \/ SyncStop \/ SyncRemove
  BY <1>0, <1>4 DEF StopSandbox, RemoveSandbox, SyncStop, SyncRemove, disk
<1>5. CASE UnlistStopped \/ Close \/ Stop \/ CloseBegins
  BY <1>0, <1>5 DEF UnlistStopped, Close, Stop, CloseBegins, disk
<1> QED
  BY <1>1, <1>2, <1>3, <1>4, <1>5 DEF Between

LEMMA CallStep ==
  ASSUME BaseInv, [Next]_vars
  PROVE  CallTypes' /\ WalkInv'
<1>0. CallTypes /\ WalkInv
  BY TypeParts DEF BaseInv
<1>1. CASE Start
  <2>0. PICK size \in {1, Batch} : Mint("start", size, "create")
    BY <1>1 DEF Start
  <2>7. pc = "idle" /\ minted = 0 /\ version = 0
    BY <1>0, <1>1 DEF Start, WalkInv
  <2>8. walk' = Fresh("start", 1, size) /\ minted' = size
    BY <2>0, <2>7, NamesAre DEF Mint
  <2>9. walk'.size = size
    BY <2>8 DEF Fresh
  <2>1. /\ walk' = Fresh("start", 1, walk'.size)
        /\ walk'.size \in {1, Batch} /\ minted' = walk'.size
        /\ pc' = "create" /\ UNCHANGED <<scenario, verdict, disk>>
        /\ version = 0
    BY <1>1, <2>0, <2>7, <2>8, <2>9 DEF Start, Mint
  <2>2. /\ walk'.size \in 0..Batch /\ walk'.size >= 1 /\ walk'.size \in Nat
        /\ minted' \in 0..Cardinality(Names) /\ 1 \in Names
        /\ 1 \in 0..Batch
    BY <2>1, NamesAre
  <2>3. 0 \in 0..LockPolls
    BY MsbAssumption
  <2>4. walk' \in Walk
    <3>1. size \in 0..Batch /\ 1 \in Names \cup {NoName}
      BY <2>2, <2>9
    <3> QED
      BY <2>2, <2>3, <2>8, <3>1 DEF Fresh, Walk
  <2>5. CallTypes'
    BY <1>0, <2>1, <2>2, <2>4 DEF CallTypes, PC, scenario, disk
  <2>6. WalkInv'
    <3>1. walk'.first = 1 /\ walk'.tried = 1 /\ walk'.goal = "start"
      BY <2>1 DEF Fresh
    <3>2. version' = 0 /\ Batch * 0 = 0
      BY <2>1, NamesAre DEF disk
    <3> QED
      BY <2>1, <2>2, <3>1, <3>2, NamesAre DEF WalkInv, Cycle
  <2> QED
    BY <2>5, <2>6
<1>2. CASE Checkpoint
  <2>1. /\ walk' = Fresh("checkpoint", minted + 1, Batch)
        /\ minted' = minted + Batch /\ minted + Batch <= Cardinality(Names)
        /\ pc = "up" /\ pc' = "ckptStop"
        /\ UNCHANGED <<scenario, verdict, snaps>>
        /\ version' \in {version, version + 1}
    BY <1>2 DEF Checkpoint, Mint
  <2>2. minted \in Nat /\ version \in Nat /\ Batch * version < minted
    BY <1>0, <2>1, NamesAre, MsbAssumption DEF CallTypes, WalkInv
  <2>3. version + 1 <= MaxCheckpoints /\ Batch * (version + 1) < minted + Batch
    BY <2>1, <2>2, RoomForOne
  <2>4. minted + 1 \in Names /\ minted' \in 0..Cardinality(Names)
    BY <2>1, <2>2, NamesAre
  <2>5. walk' \in Walk
    <3>1. 0 \in 0..LockPolls /\ 1 \in 0..Batch /\ Batch \in 0..Batch
      BY MsbAssumption
    <3> QED
      BY <2>1, <2>4, <3>1 DEF Fresh, Walk
  <2>6. version' \in 0..MaxCheckpoints /\ Batch * version' < minted'
    <3>1. Batch * version < minted + Batch
      BY <2>2, NamesAre
    <3>2. CASE version' = version
      BY <1>0, <2>1, <3>1, <3>2 DEF CallTypes
    <3>3. CASE version' = version + 1
      BY <2>1, <2>2, <2>3, <3>3, MsbAssumption
    <3> QED
      BY <2>1, <3>2, <3>3
  <2>7. CallTypes'
    BY <1>0, <2>1, <2>4, <2>5, <2>6 DEF CallTypes, PC, scenario
  <2>8. /\ walk'.first = minted + 1 /\ walk'.tried = 1 /\ walk'.size = Batch
        /\ walk'.goal = "checkpoint"
    BY <2>1 DEF Fresh
  <2>9. WalkInv'
    <3>1. walk'.tried \in 1..walk'.size /\ minted' = walk'.first + walk'.size - 1
      BY <2>1, <2>2, <2>8, NamesAre
    <3> QED
      BY <2>1, <2>4, <2>6, <2>8, <3>1 DEF WalkInv, Cycle
  <2> QED
    BY <2>7, <2>9
<1>3. CASE Attempts
  <2>1. UNCHANGED <<scenario, minted, disk>>
    BY <1>3, AttemptsAside
  <2>2. /\ pc # "idle" /\ pc' \in Launches \cup {"won", "undoStop", "undoLedger"}
        /\ pc' = "undoStop" => walk.goal = "start"
        /\ SameNames(walk')
        /\ \/ walk'.tried = walk.tried
           \/ walk.tried < walk.size /\ walk'.tried = walk.tried + 1
    BY <1>3, AttemptWalk DEF Launches
  <2>3. CallTypes'
    BY <1>0, <1>3, <2>1, AttemptWalk DEF CallTypes, scenario, disk
  <2>4. walk'.tried \in 1..walk.size
    BY <1>0, <2>2, Here
  <2>5. WalkInv'
    BY <1>0, <2>1, <2>2, <2>4 DEF WalkInv, SameNames, Launches, Cycle, disk
  <2> QED
    BY <2>3, <2>5
<1>4. CASE Between
  <2>1. CallTypes'
    BY <1>0, <1>4, BetweenCall DEF CallTypes, scenario
  <2>2. WalkInv'
    BY <1>0, <1>4, BetweenCall DEF WalkInv
  <2> QED
    BY <2>1, <2>2
<1>5. CASE Land \/ Done \/ UNCHANGED vars
  <2>1. UNCHANGED <<scenario, pc, verdict, walk, minted, disk>>
    BY <1>5 DEF Land, Done, vars
  <2> QED
    BY <1>0, <2>1 DEF CallTypes, WalkInv, scenario, disk
<1> QED
  BY <1>1, <1>2, <1>3, <1>4, <1>5, NextIs

LEMMA WinnerIsAName ==
  ASSUME BaseInv, pc # "idle"
  PROVE  Winner \in Names
BY DEF Winner, BaseInv, WalkInv

\* What is set under a name of the table is a state of a sandbox.
Sandbox == {"none", "starting", "running", "stopped"}

LEMMA MsbTypes ==
  ASSUME BaseInv, [Next]_vars
  PROVE  msb' \in [Names -> Sandbox] /\ late' \subseteq Names
<1>0. /\ msb \in [Names -> Sandbox] /\ late \subseteq Names
      /\ \A n : \A s \in Sandbox : Set(n, s) \in [Names -> Sandbox]
  BY DEF BaseInv, TypeOK, Set, Sandbox
<1>1. \A n : /\ Rm(n) => msb' \in [Names -> Sandbox]
             /\ Stopped(n) => msb' \in [Names -> Sandbox]
  BY <1>0 DEF Rm, Stopped, Sandbox
<1>2. CASE Attempts
  BY <1>0, <1>2, AttemptMsb DEF Sandbox
<1>3. CASE Land
  BY <1>0, <1>3 DEF Land, Sandbox
<1>4. CASE Between
  <2>1. late' = late
    BY <1>4
    DEF Between, Create, WonStart, WonCheckpoint, Adopt, CkptStop,
        CkptSnapshot, CkptRm, CkptRelease, UndoStop, UndoRemove, UndoLedger,
        StopSandbox, RemoveSandbox, SyncStop, SyncRemove, UnlistStopped,
        Close, Stop, CloseBegins
  <2>2. CASE Close
    BY <1>0, <2>1, <2>2 DEF Close, Sandbox
  <2>3. CASE CkptStop
    BY <1>0, <2>1, <2>3 DEF CkptStop, Sandbox
  <2>4. CASE CkptRm \/ UndoStop \/ UndoRemove \/ StopSandbox \/ RemoveSandbox
             \/ SyncStop \/ SyncRemove
    BY <1>0, <1>1, <2>1, <2>4 DEF CkptRm, UndoStop, UndoRemove, StopSandbox, RemoveSandbox,
                      SyncStop, SyncRemove
  <2>5. CASE UNCHANGED msb
    BY <1>0, <2>1, <2>5
  <2> QED
    BY <1>0, <1>4, <2>1, <2>2, <2>3, <2>4, <2>5
    DEF Between, Create, WonStart, WonCheckpoint, Adopt,
        CkptSnapshot, CkptRelease, UndoLedger, UnlistStopped, Stop, CloseBegins
<1>5. CASE UNCHANGED <<msb, late>>
  BY <1>0, <1>5
<1> QED
  BY <1>2, <1>3, <1>4, <1>5, NextIs DEF Start, Checkpoint, Done, vars

LEMMA TableTypes ==
  ASSUME BaseInv, [Next]_vars
  PROVE  /\ attached' \subseteq Names /\ handles' \subseteq Names
         /\ started' \subseteq Names /\ rekey' \subseteq Names \X Names
<1>0. /\ attached \subseteq Names /\ handles \subseteq Names
      /\ started \subseteq Names /\ rekey \subseteq Names \X Names
  BY DEF BaseInv, TypeOK
<1>1. CASE Create
  <2>1. walk.first \in Names
    BY <1>1, Here DEF Create, BaseInv, WalkInv
  <2> QED
    BY <1>0, <1>1, <2>1 DEF Create
<1>2. CASE WonStart \/ WonCheckpoint
  <2>1. walk.first \in Names /\ Current \in Names
    BY <1>2, Here DEF WonStart, WonCheckpoint, BaseInv, WalkInv
  <2> QED
    BY <1>0, <1>2, <2>1 DEF WonStart, WonCheckpoint, Unless
<1>3. CASE Adopt
  BY <1>0, <1>3 DEF Adopt
<1>4. CASE Checkpoint \/ UndoStop \/ UndoRemove \/ StopSandbox \/ RemoveSandbox
  BY <1>0, <1>4 DEF Checkpoint, ChildTaken, UndoStop, UndoRemove, StopSandbox,
                    RemoveSandbox
<1>5. CASE UNCHANGED tables
  BY <1>0, <1>5 DEF tables
<1> QED
  BY <1>1, <1>2, <1>3, <1>4, <1>5, NextIs, AttemptsAside
  DEF Start, Between, CkptStop, CkptSnapshot, CkptRm, CkptRelease, UndoLedger,
      SyncStop, SyncRemove, UnlistStopped, Close, Stop, CloseBegins, Land,
      Done, vars

\* The guard's names change when a call has adopted a winner, and the
\* diagnostics entry when the guard goes.
LEMMA GuardStep ==
  ASSUME BaseInv, [Next]_vars
  PROVE  /\ {handle, ledgerName, diag}' \subseteq Names \cup {NoName}
         /\ HeldInv'
<1>0. {handle, ledgerName, diag} \subseteq Names \cup {NoName} /\ HeldInv
  BY DEF BaseInv, TypeOK
<1>1. CASE Adopt
  <2>1. /\ handle' \in Names /\ ledgerName' = handle' /\ diag' = handle'
    BY <1>1, Here, WinnerIsAName DEF Adopt, Goes
  <2> QED
    BY <2>1 DEF HeldInv
<1>2. CASE Stop \/ CloseBegins
  BY <1>0, <1>2 DEF Stop, CloseBegins, guard, HeldInv, Guarding
<1>3. CASE Start
  BY <1>0, <1>3 DEF Start, Mint, Fresh, guard, HeldInv, Guarding
<1>4. CASE Checkpoint
  BY <1>0, <1>4 DEF Checkpoint, Mint, Fresh, guard, HeldInv, Guarding
<1>5. CASE Attempts
  <2>1. /\ UNCHANGED guard /\ walk'.goal = walk.goal
        /\ pc' \notin Guarding
    BY <1>5, AttemptsAside, AttemptWalk DEF SameNames, Guarding, Launches
  <2> QED
    BY <1>0, <2>1 DEF guard, HeldInv
<1>6. CASE Create \/ WonStart \/ WonCheckpoint \/ CkptStop \/ CkptSnapshot
           \/ CkptRm \/ CkptRelease \/ UndoStop \/ UndoRemove
  <2>1. /\ UNCHANGED <<guard, walk>> /\ pc' \notin Guarding
    BY <1>6 DEF Create, WonStart, WonCheckpoint, CkptStop, CkptSnapshot,
                CkptRm, CkptRelease, UndoStop, UndoRemove, Guarding
  <2> QED
    BY <1>0, <2>1 DEF guard, HeldInv
<1>7. CASE UndoLedger
  <2>1. UNCHANGED <<guard, walk>> /\ pc' \in {"failed", "up"}
        /\ (pc' = "up" => walk.goal # "start")
    BY <1>7 DEF UndoLedger
  <2>2. walk.goal \in {"start", "checkpoint"}
    BY DEF BaseInv, TypeOK, Walk
  <2>3. walk.goal = "checkpoint" => ledgerName = handle
    BY <1>0, <1>7 DEF HeldInv, UndoLedger
  <2> QED
    BY <1>0, <2>1, <2>2, <2>3 DEF guard, HeldInv, Guarding
<1>8. CASE StopSandbox \/ RemoveSandbox \/ SyncStop \/ SyncRemove
           \/ UnlistStopped \/ Close
  <2>1. UNCHANGED <<guard, walk>> /\ pc \in Guarding
    BY <1>8 DEF StopSandbox, RemoveSandbox, SyncStop, SyncRemove,
                UnlistStopped, Close, Guarding
  <2> QED
    BY <1>0, <2>1 DEF guard, HeldInv
<1>9. CASE Land \/ Done \/ UNCHANGED vars
  <2>1. UNCHANGED <<guard, walk, pc>>
    BY <1>9 DEF Land, Done, vars
  <2> QED
    BY <1>0, <2>1 DEF guard, HeldInv
<1> QED
  BY <1>1, <1>2, <1>3, <1>4, <1>5, <1>6, <1>7, <1>8, <1>9, NextIs DEF Between

LEMMA FileTypes ==
  ASSUME BaseInv, [Next]_vars
  PROVE  ledger' \subseteq Names /\ leaked' \subseteq Names
<1>0. ledger \subseteq Names /\ leaked \subseteq Names
  BY DEF BaseInv, TypeOK
<1>1. CASE Start \/ Checkpoint
  <2>1. /\ leaked' = leaked
        /\ ledger' \subseteq ledger \cup ((minted + 1)..minted')
    BY <1>1 DEF Start, Checkpoint, Mint, Listed
  <2>2. minted \in Nat /\ minted' \in 0..Cardinality(Names)
    <3>1. minted \in 0..Cardinality(Names)
      BY DEF BaseInv, TypeOK
    <3>2. minted' \in 0..Cardinality(Names)
      BY CallStep DEF CallTypes
    <3> QED
      BY <3>1, <3>2, NamesAre
  <2> QED
    BY <1>0, <2>1, <2>2, NamesAre
<1>2. CASE UndoLedger
  BY <1>0, <1>2, Here DEF UndoLedger, Unlist
<1>3. CASE UnlistStopped
  <2>1. ledgerName \in Names
    BY <1>3 DEF UnlistStopped, BaseInv, HeldInv, Guarding
  <2> QED
    BY <1>0, <1>3, <2>1 DEF UnlistStopped, Unlist
<1>4. CASE UNCHANGED files
  BY <1>0, <1>4 DEF files
<1> QED
  BY <1>1, <1>2, <1>3, <1>4, NextIs, AttemptsAside
  DEF Between, Create, WonStart, WonCheckpoint, Adopt, CkptStop, CkptSnapshot,
      CkptRm, CkptRelease, UndoStop, UndoRemove, StopSandbox, RemoveSandbox,
      SyncStop, SyncRemove, Close, Stop, CloseBegins, Land, Done, vars

LEMMA BaseStep == BaseInv /\ [Next]_vars => BaseInv'
<1> SUFFICES ASSUME BaseInv, [Next]_vars PROVE BaseInv'
  OBVIOUS
<1>1. DataTypes'
  BY MsbTypes, TableTypes, GuardStep, FileTypes DEF DataTypes, Sandbox
<1>2. TypeOK'
  BY <1>1, CallStep, TypeParts DEF TypeOK, CallTypes, DataTypes
<1> QED
  BY <1>2, CallStep, GuardStep DEF BaseInv

LEMMA InitBase == Init => BaseInv
<1> SUFFICES ASSUME Init PROVE BaseInv
  OBVIOUS
<1>1. /\ kind \in BootKinds /\ 0 \in 0..LockPolls /\ 0 \in 0..Batch
      /\ 0 \in 0..Cardinality(Names) /\ 0 \in 0..MaxCheckpoints
  BY NamesAre, MsbAssumption DEF Init
<1>2. walk \in Walk /\ walk.goal = "start"
  <2>1. 1 \in 0..Batch
    BY NamesAre
  <2>2. Fresh("start", NoName, 0) \in Walk /\ Fresh("start", NoName, 0).goal = "start"
    BY <1>1, <2>1 DEF Fresh, Walk
  <2>3. PICK w \in Walk : w = Fresh("start", NoName, 0) /\ w.goal = "start"
    BY <2>2
  <2>4. walk = [w EXCEPT !.tried = 0]
    BY <2>3 DEF Init
  <2> QED
    BY <1>1, <2>3, <2>4 DEF Walk
<1>3. CallTypes
  BY <1>1, <1>2 DEF Init, CallTypes, PC
<1>4. DataTypes
  BY DEF Init, DataTypes
<1> QED
  BY <1>2, <1>3, <1>4, TypeParts
  DEF Init, BaseInv, WalkInv, HeldInv, Cycle, Guarding

LEMMA BaseKept == Spec => []BaseInv
BY InitBase, BaseStep, PTL DEF Spec

\* Every variable keeps its type; in particular the names a guard mints never
\* run out before its checkpoints do, and a walk stays within its batch.
\* (create_started_container, checkpoint_core, reboot_with_already_exists_retry)
THEOREM TypeCorrect == Spec => []TypeOK
BY BaseKept, PTL DEF BaseInv

-----------------------------------------------------------------------------
(* The ledger covers what msb has                                          *)

\* Between the attempts nothing comes up: a sandbox is at most stopped.
LEMMA BetweenMsb ==
  ASSUME BaseInv, Between
  PROVE  /\ OnMsb' \subseteq OnMsb /\ late' = late
         /\ pc' \in InCall => pc \in InCall
<1>0. msb \in [Names -> Sandbox]
  BY DEF BaseInv, TypeOK, Sandbox
<1>1. late' = late
  BY DEF Between, Create, WonStart, WonCheckpoint, Adopt, CkptStop,
         CkptSnapshot, CkptRm, CkptRelease, UndoStop, UndoRemove, UndoLedger,
         StopSandbox, RemoveSandbox, SyncStop, SyncRemove, UnlistStopped,
         Close, Stop, CloseBegins
<1>2. pc' \in InCall => pc \in InCall
  BY DEF Between, Create, WonStart, WonCheckpoint, Adopt, CkptStop,
         CkptSnapshot, CkptRm, CkptRelease, UndoStop, UndoRemove, UndoLedger,
         StopSandbox, RemoveSandbox, SyncStop, SyncRemove, UnlistStopped,
         Close, Stop, CloseBegins, InCall, Cycle, Launches
<1>3. \A n : Rm(n) \/ Stopped(n) => OnMsb' \subseteq OnMsb
  BY <1>0 DEF Rm, Stopped, Set, OnMsb
<1>4. OnMsb' \subseteq OnMsb
  <2>1. CASE Close
    BY <1>0, <2>1 DEF Close, OnMsb
  <2>2. CASE CkptStop
    BY <1>0, <2>2 DEF CkptStop, Set, OnMsb
  <2>3. CASE CkptRm \/ UndoStop \/ UndoRemove \/ StopSandbox \/ RemoveSandbox
             \/ SyncStop \/ SyncRemove
    BY <1>3, <2>3 DEF CkptRm, UndoStop, UndoRemove, StopSandbox, RemoveSandbox,
                      SyncStop, SyncRemove
  <2>4. CASE UNCHANGED msb
    BY <2>4 DEF OnMsb
  <2> QED
    BY <2>1, <2>2, <2>3, <2>4
    DEF Between, Create, WonStart, WonCheckpoint, Adopt,
        CkptSnapshot, CkptRelease, UndoLedger, UnlistStopped, Stop, CloseBegins
<1> QED
  BY <1>1, <1>2, <1>4

\* An attempt leaves what msb has under the other names as it is.
LEMMA AttemptOnMsb ==
  ASSUME BaseInv, Attempts
  PROVE  /\ OnMsb' \subseteq OnMsb \cup {Current}
         /\ \A n \in Names : n # Current => msb'[n] = msb[n]
<1>1. msb \in [Names -> Sandbox]
  BY DEF BaseInv, TypeOK, Sandbox
<1>2. PICK s \in Sandbox : msb' = Set(Current, s)
  BY AttemptMsb DEF Sandbox
<1> QED
  BY <1>1, <1>2 DEF Set, OnMsb

\* A call has each of its candidates on the ledger before the first of them
\* can be brought up, and until it drops the lines of the whole batch.
LedgerInv ==
  ~keep =>
    /\ OnMsb \cup late \subseteq ledger \cup leaked
    /\ pc \in InCall => Candidates \subseteq ledger

LEMMA LedgerStep ==
  ASSUME BaseInv, LedgerInv, [Next]_vars
  PROVE  LedgerInv'
<1> SUFFICES ASSUME ~keep, ~keep'
             PROVE  /\ OnMsb' \cup late' \subseteq ledger' \cup leaked'
                    /\ pc' \in InCall => Candidates' \subseteq ledger'
  <2>1. keep' = keep
    BY AttemptsAside, BetweenCall, NextIs
    DEF Start, Checkpoint, Land, Done, vars, scenario
  <2> QED
    BY <2>1 DEF LedgerInv
<1>0. /\ OnMsb \cup late \subseteq ledger \cup leaked
      /\ pc \in InCall => Candidates \subseteq ledger
  BY DEF LedgerInv
<1>1. CASE Start \/ Checkpoint
  <2>1. PICK size \in 0..Batch : \E goal, next : Mint(goal, size, next)
    <3>1. 1 \in 0..Batch /\ Batch \in 0..Batch
      BY NamesAre
    <3>2. CASE Start
      <4>1. \E size \in 0..Batch : Mint("start", size, "create")
        BY <3>1, <3>2 DEF Start
      <4> QED
        BY <4>1
    <3>3. CASE Checkpoint
      <4>1. Mint("checkpoint", Batch, "ckptStop")
        BY <3>3 DEF Checkpoint
      <4> QED
        BY <3>1, <4>1
    <3> QED
      BY <1>1, <3>2, <3>3
  <2>2. /\ ledger' = ledger \cup ((minted + 1)..(minted + size))
        /\ UNCHANGED <<msb, late, leaked>>
    BY <1>1, <2>1 DEF Start, Checkpoint, Mint, Listed
  <2>3. minted \in Nat /\ size \in Nat
    BY <2>1, NamesAre DEF BaseInv, TypeOK
  <2>4. Candidates' \subseteq (minted + 1)..(minted + size)
    <3>1. walk'.first = minted + 1 /\ walk'.size = size
      BY <2>1 DEF Mint, Fresh
    <3> QED
      BY <2>3, <3>1, NamesAre DEF Candidates
  <2> QED
    BY <1>0, <2>2, <2>4 DEF OnMsb
<1>2. CASE Attempts
  <2>1. /\ pc \in InCall /\ pc # "idle" /\ Candidates' = Candidates
        /\ UNCHANGED files
    BY <1>2, AttemptWalk, AttemptsAside
    DEF InCall, Launches, Candidates, SameNames
  <2> QED
    BY <1>0, <1>2, <2>1, AttemptMsb, AttemptOnMsb, Here DEF files
<1>3. CASE Land
  <2>1. OnMsb' \subseteq OnMsb \cup late /\ late' \subseteq late
    BY <1>3 DEF Land, Set, OnMsb, BaseInv, TypeOK
  <2>2. UNCHANGED <<pc, walk, files>>
    BY <1>3 DEF Land
  <2> QED
    BY <1>0, <2>1, <2>2 DEF files, Candidates
<1>4. CASE UndoLedger \/ UnlistStopped
  <2>1. PICK S : Unlist(S)
    BY <1>4 DEF UndoLedger, UnlistStopped
  <2>2. /\ UNCHANGED <<msb, late>> /\ pc' \notin InCall
    BY <1>4 DEF UndoLedger, UnlistStopped, InCall, Launches, Cycle
  <2> QED
    BY <1>0, <2>1, <2>2 DEF Unlist, OnMsb
<1>5. CASE Between /\ ~UndoLedger /\ ~UnlistStopped
  <2>1. UNCHANGED <<walk, files>>
    BY <1>5 DEF Between, Create, WonStart, WonCheckpoint, Adopt, CkptStop,
         CkptSnapshot, CkptRm, CkptRelease, UndoStop, UndoRemove,
         StopSandbox, RemoveSandbox, SyncStop, SyncRemove,
         Close, Stop, CloseBegins
  <2> QED
    BY <1>0, <1>5, <2>1, BetweenMsb DEF files, Candidates
<1>6. CASE Done \/ UNCHANGED vars
  BY <1>0, <1>6 DEF Done, vars, files, OnMsb, Candidates
<1> QED
  BY <1>1, <1>2, <1>3, <1>4, <1>5, <1>6, NextIs

\* Whatever msb still has under a name of the guard is on the ledger of the
\* run, or its line was dropped at the end of a call that left it behind:
\* after a crash at any point a sweep finds it. (create_started_container)
THEOREM LedgerCovers == Spec => []Superset
<1>1. Init => LedgerInv
  BY DEF Init, LedgerInv, OnMsb, InCall, Cycle, Launches
<1>2. BaseInv /\ LedgerInv /\ [Next]_vars => LedgerInv'
  BY LedgerStep
<1>3. LedgerInv => Superset
  BY DEF LedgerInv, Superset
<1> QED
  BY <1>1, <1>2, <1>3, BaseKept, PTL DEF Spec

-----------------------------------------------------------------------------
(* One name for the guard, its diagnostics entry and the backend's tables  *)

Rows(n) == handles = {n} /\ started = Unless(keep, {n})
Guarded == handle # NoName /\ ledgerName = handle /\ diag = handle
InCycle == pc \in Cycle \cup Launches \cup {"won", "undoLedger"}

\* A start has the entry create() made until an attempt has won, and then the
\* winner's with a note for the caller; a checkpoint has the guard's until the
\* reboot has won, and then the winner's.
TablesInv ==
  /\ pc \in {"idle", "create"} =>
       handles = {} /\ started = {} /\ rekey = {} /\ attached = {}
  /\ walk.goal = "start" /\ pc \in Launches \cup {"won"} =>
       handles = {walk.first} /\ started = {} /\ rekey = {} /\ attached = {}
  /\ walk.goal = "checkpoint" /\ InCycle =>
       Guarded /\ Rows(handle) /\ rekey = {} /\ attached = {}
  /\ pc = "adopt" =>
       /\ Rows(Current) /\ attached \subseteq {Current}
       /\ rekey = IF walk.goal = "start" /\ Current # walk.first
                  THEN {<<walk.first, Current>>} ELSE {}
  /\ pc = "up" =>
       Guarded /\ Rows(handle) /\ rekey = {} /\ attached \subseteq {handle}
  /\ pc = "close" => started = Unless(keep, {handle})

LEMMA TheWinner ==
  ASSUME BaseInv, TablesInv, pc = "adopt"
  PROVE  /\ walk.goal = "start" => Winner = Current
         /\ {p \in rekey : p[1] # walk.first} = {}
<1>0. Current \in Names /\ walk.first \in Names
  BY Here DEF BaseInv, WalkInv
<1>1. rekey = IF walk.goal = "start" /\ Current # walk.first
              THEN {<<walk.first, Current>>} ELSE {}
  BY DEF TablesInv
<1>2. {p \in rekey : p[1] # walk.first} = {}
  BY <1>1
<1>3. ASSUME walk.goal = "start" PROVE Winner = Current
  <2>1. CASE Current = walk.first
    <3>1. ~ \E to \in Names : <<walk.first, to>> \in rekey
      BY <1>1, <2>1
    <3> QED
      BY <2>1, <3>1 DEF Winner
  <2>2. CASE Current # walk.first
    <3>1. \A to \in Names : <<walk.first, to>> \in rekey <=> to = Current
      BY <1>1, <1>3, <2>2
    <3> QED
      BY <1>0, <3>1 DEF Winner
  <2> QED
    BY <2>1, <2>2
<1> QED
  BY <1>2, <1>3

LEMMA TablesStep ==
  ASSUME BaseInv, TablesInv, [Next]_vars
  PROVE  TablesInv'
<1>0. walk.goal \in {"start", "checkpoint"} /\ WalkInv /\ HeldInv
  BY DEF BaseInv, TypeOK, Walk
<1>k. keep' = keep
  BY AttemptsAside, BetweenCall, NextIs
  DEF Start, Checkpoint, Land, Done, vars, scenario
<1> USE DEF InCycle, Cycle, Launches
<1>1. CASE Start
  <2>1. /\ UNCHANGED tables /\ pc' = "create" /\ pc = "idle"
    BY <1>1 DEF Start, Mint
  <2> QED
    BY <2>1 DEF TablesInv, tables
<1>2. CASE Checkpoint
  <2>1. /\ UNCHANGED <<handles, started, rekey, guard>> /\ pc' = "ckptStop"
        /\ pc = "up" /\ attached' = attached \ {handle}
    BY <1>2 DEF Checkpoint, Mint, ChildTaken
  <2>2. Guarded /\ Rows(handle) /\ rekey = {} /\ attached' = {}
    BY <2>1 DEF TablesInv
  <2> QED
    BY <1>k, <2>1, <2>2 DEF TablesInv, Guarded, Rows, Unless, guard
<1>3. CASE Attempts
  <2>1. /\ UNCHANGED <<tables, guard>> /\ pc \in Launches
        /\ pc' \in Launches \cup {"won", "undoStop", "undoLedger"}
        /\ walk'.goal = walk.goal /\ walk'.first = walk.first
    BY <1>3, AttemptsAside, AttemptWalk DEF SameNames
  <2> QED
    BY <1>k, <2>1 DEF TablesInv, Guarded, Rows, Unless, guard, tables
<1>4. CASE Create
  <2>1. /\ handles' = handles \cup {walk.first} /\ pc = "create"
        /\ pc' = "launch" /\ UNCHANGED <<walk, attached, started, rekey>>
    BY <1>4 DEF Create
  <2>2. walk.goal = "start"
    BY <1>0, <2>1 DEF WalkInv
  <2> QED
    BY <2>1, <2>2 DEF TablesInv
<1>5. CASE WonStart
  <2>1. /\ pc = "won" /\ walk.goal = "start" /\ pc' = "adopt"
        /\ UNCHANGED walk
        /\ handles = {walk.first} /\ started = {} /\ rekey = {} /\ attached = {}
    BY <1>5 DEF WonStart, TablesInv
  <2>2. handles' = {Current}
    BY <1>5, <2>1 DEF WonStart
  <2>3. started' = Unless(keep, {Current}) /\ attached' \subseteq {Current}
    BY <1>5, <2>1 DEF WonStart, Unless
  <2>4. rekey' = IF Current # walk.first THEN {<<walk.first, Current>>} ELSE {}
    BY <1>5, <2>1 DEF WonStart
  <2>5. Current' = Current
    BY <2>1 DEF Current
  <2> QED
    BY <1>k, <2>1, <2>2, <2>3, <2>4, <2>5 DEF TablesInv, Rows, Unless
<1>6. CASE WonCheckpoint
  <2>1. /\ pc = "won" /\ walk.goal = "checkpoint" /\ pc' = "adopt"
        /\ UNCHANGED <<walk, attached, rekey>>
        /\ handles = {handle} /\ started = Unless(keep, {handle})
        /\ rekey = {} /\ attached = {}
    BY <1>6 DEF WonCheckpoint, TablesInv, Rows
  <2>2. handles' = {Current} /\ started' = Unless(keep, {Current})
    BY <1>6, <2>1 DEF WonCheckpoint, Unless
  <2>3. Current' = Current
    BY <2>1 DEF Current
  <2> QED
    BY <1>k, <2>1, <2>2, <2>3 DEF TablesInv, Rows, Unless
<1>7. CASE Adopt
  <2>1. /\ pc = "adopt" /\ pc' = "up" /\ UNCHANGED <<handles, attached, started>>
        /\ rekey' = {p \in rekey : p[1] # walk.first}
        /\ Goes(IF walk.goal = "start" THEN Winner ELSE Current)
    BY <1>7 DEF Adopt
  <2>2. Rows(Current) /\ attached \subseteq {Current}
    BY <2>1 DEF TablesInv
  <2>3. rekey' = {} /\ Goes(Current)
    BY <2>1, TheWinner
  <2>4. Current # NoName
    BY <2>1, Here, NamesAre
  <2> QED
    BY <1>k, <2>1, <2>2, <2>3, <2>4 DEF TablesInv, Rows, Unless, Guarded, Goes
<1>8. CASE CkptStop \/ CkptSnapshot \/ CkptRm \/ CkptRelease
  <2>1. /\ UNCHANGED <<tables, guard, walk>> /\ pc \in Cycle
        /\ pc' \in Cycle \cup {"undoLedger", "launch"}
    BY <1>8 DEF CkptStop, CkptSnapshot, CkptRm, CkptRelease
  <2>2. walk.goal = "checkpoint"
    BY <1>0, <2>1 DEF WalkInv
  <2> QED
    BY <1>k, <2>1, <2>2 DEF TablesInv, Rows, Unless, Guarded, guard, tables
<1>9. CASE UndoStop \/ UndoRemove
  <2>1. walk.goal = "start" /\ walk' = walk /\ pc' \in {"undoRemove", "undoLedger"}
    BY <1>0, <1>9 DEF UndoStop, UndoRemove, WalkInv
  <2> QED
    BY <2>1 DEF TablesInv
<1>10. CASE UndoLedger
  <2>1. /\ UNCHANGED <<tables, guard, walk>> /\ pc = "undoLedger"
        /\ pc' \in {"failed", "up"}
        /\ (pc' = "up" => walk.goal = "checkpoint")
    BY <1>0, <1>10 DEF UndoLedger
  <2> QED
    BY <1>k, <2>1 DEF TablesInv, Rows, Unless, Guarded, guard, tables
<1>11. CASE CloseBegins
  <2>1. UNCHANGED <<tables, guard, walk>> /\ pc = "up" /\ pc' = "close"
    BY <1>11 DEF CloseBegins
  <2> QED
    BY <1>k, <2>1 DEF TablesInv, Rows, Unless, guard, tables
<1>12. CASE Stop \/ StopSandbox \/ RemoveSandbox \/ SyncStop \/ SyncRemove
            \/ UnlistStopped \/ Close
  <2>1. pc' \in {"stop", "syncStop", "stopped", "remove", "unlist",
                 "syncRemove", "closed"}
    BY <1>12 DEF Stop, StopSandbox, RemoveSandbox, SyncStop, SyncRemove,
                 UnlistStopped, Close
  <2> QED
    BY <2>1 DEF TablesInv
<1>13. CASE Land \/ Done \/ UNCHANGED vars
  <2>1. UNCHANGED <<keep, pc, walk, tables, guard>>
    BY <1>13 DEF Land, Done, vars, scenario
  <2> QED
    BY <2>1 DEF TablesInv, Rows, Unless, Guarded, guard, tables, Current
<1> QED
  BY <1>1, <1>2, <1>3, <1>4, <1>5, <1>6, <1>7, <1>8, <1>9, <1>10, <1>11,
     <1>12, <1>13, NextIs DEF Between

LEMMA TablesKept == Spec => []TablesInv
<1>1. Init => TablesInv
  BY DEF Init, TablesInv, InCycle, Cycle, Launches
<1>2. BaseInv /\ TablesInv /\ [Next]_vars => TablesInv'
  BY TablesStep
<1> QED
  BY <1>1, <1>2, BaseKept, PTL DEF Spec

\* Between its calls the guard, its ledger name, its diagnostics entry and the
\* tables of the backend agree on one name, whichever candidate of any walk
\* has won. (winning_start_handle, checkpoint_core, create_checkpoint)
THEOREM OneName == Spec => []Identity
<1>1. TablesInv => Identity
  BY DEF TablesInv, Identity, Guarded, Rows
<1> QED
  BY <1>1, TablesKept, PTL

-----------------------------------------------------------------------------
(* The disk                                                                *)

Saved == version \in snaps
Alive == msb[handle] # "none"

\* The disk is in the sandbox until a snapshot has it, and what has won is
\* there.
DiskInv ==
  /\ pc \in {"won", "adopt"} => msb[Current] # "none"
  /\ pc \in {"up", "ckptStop"} \/ (pc = "undoLedger" /\ walk.goal = "checkpoint") =>
       Alive \/ Saved
  /\ pc = "ckptSnapshot" => Alive
  /\ pc \in {"ckptRm", "ckptRelease"} => Saved
  /\ walk.goal = "checkpoint" /\ pc \in Launches \cup {"won", "adopt"} => Saved

\* A step brings nothing that msb has to nothing, but for the removals.
LEMMA DiskStep ==
  ASSUME BaseInv, TablesInv, DiskInv, [Next]_vars
  PROVE  DiskInv'
<1>0. /\ walk.goal \in {"start", "checkpoint"} /\ WalkInv /\ HeldInv
      /\ msb \in [Names -> Sandbox]
  BY DEF BaseInv, TypeOK, Walk, Sandbox
<1> USE DEF Cycle, Launches
<1>1. CASE Start \/ Create
  <2>1. pc' \in {"create", "launch"} /\ walk'.goal = "start"
    BY <1>0, <1>1 DEF Start, Create, Mint, Fresh, WalkInv
  <2> QED
    BY <2>1 DEF DiskInv
<1>2. CASE Checkpoint
  <2>1. /\ pc = "up" /\ pc' = "ckptStop" /\ UNCHANGED <<msb, handle, snaps>>
        /\ msb[handle] # "running" => version' = version
    BY <1>2 DEF Checkpoint, Mint, guard
  <2> QED
    BY <2>1 DEF DiskInv, Alive, Saved
<1>3. CASE Attempts
  <2>1. /\ UNCHANGED <<version, snaps, handle>> /\ pc \in Launches
        /\ pc' \in Launches \cup {"won", "undoStop", "undoLedger"}
        /\ walk'.goal = walk.goal
    BY <1>3, AttemptsAside, AttemptWalk DEF SameNames, disk, guard
  <2>2. pc' = "won" => msb'[Current'] # "none"
    <3> SUFFICES ASSUME pc' = "won" PROVE msb'[Current'] # "none"
      OBVIOUS
    <3>1. RunIsUp \/ RunIsOver \/ Revives
      BY <1>3 DEF Attempts, SpawnRun, SpawnRestore, Spawned, Activates,
                  ExitsEarly, RestoreIsUp, RunTimesOut, RestoreDies, Shows,
                  ReviveFails, RetryRelay, RetryHealed, RetryPaused, RetryOnce,
                  PollLock, LoseAttempt, NextCandidate, Again, GiveUp
    <3>2. /\ \E s \in {"running", "stopped"} : msb' = Set(Current, s)
          /\ walk' = walk
      BY <3>1 DEF RunIsUp, RunIsOver, Revives, Shows
    <3> QED
      BY <1>0, <2>1, <3>2, Here DEF Set, Current
  <2> QED
    BY <2>1, <2>2 DEF DiskInv, Saved
<1>4. CASE WonStart \/ WonCheckpoint
  <2>1. /\ UNCHANGED <<walk, msb, version, snaps>> /\ pc = "won"
        /\ pc' = "adopt"
    BY <1>4 DEF WonStart, WonCheckpoint, disk
  <2> QED
    BY <2>1 DEF DiskInv, Saved, Current
<1>5. CASE Adopt
  <2>1. /\ UNCHANGED msb /\ pc = "adopt" /\ pc' = "up"
        /\ handle' = IF walk.goal = "start" THEN Winner ELSE Current
    BY <1>5 DEF Adopt, Goes
  <2>2. handle' = Current
    BY <2>1, TheWinner
  <2> QED
    BY <2>1, <2>2 DEF DiskInv, Alive
<1>6. CASE CkptStop
  <2>1. UNCHANGED <<walk, version, snaps, handle>> /\ pc = "ckptStop"
    BY <1>6 DEF CkptStop, disk, guard
  <2>2. handle \in Names /\ walk.goal = "checkpoint"
    BY <1>0, <2>1 DEF HeldInv, WalkInv
  <2>3. CASE pc' = "ckptSnapshot"
    <3>1. msb' = Set(handle, "stopped")
      BY <1>6, <2>3 DEF CkptStop
    <3> QED
      BY <1>0, <2>2, <2>3, <3>1, <2>1 DEF DiskInv, Alive, Set
  <2>4. CASE pc' = "undoLedger" /\ UNCHANGED msb
    BY <2>1, <2>4 DEF DiskInv, Alive, Saved
  <2> QED
    BY <1>6, <2>3, <2>4 DEF CkptStop
<1>7. CASE CkptSnapshot
  <2>1. /\ UNCHANGED <<msb, walk, version, handle>> /\ pc = "ckptSnapshot"
        /\ pc' \in {"ckptRm", "undoLedger"}
        /\ pc' = "ckptRm" => version \in snaps'
    BY <1>7 DEF CkptSnapshot, guard
  <2> QED
    BY <2>1 DEF DiskInv, Alive, Saved
<1>8. CASE CkptRm \/ CkptRelease
  <2>1. /\ UNCHANGED <<walk, version, snaps>> /\ pc \in {"ckptRm", "ckptRelease"}
        /\ pc' \in {"ckptRelease", "launch", "undoLedger"}
    BY <1>8 DEF CkptRm, CkptRelease, disk
  <2> QED
    BY <2>1 DEF DiskInv, Saved
<1>9. CASE UndoStop \/ UndoRemove
  <2>1. pc' \in {"undoRemove", "undoLedger"} /\ walk' = walk /\ walk.goal = "start"
    BY <1>0, <1>9 DEF UndoStop, UndoRemove, WalkInv
  <2> QED
    BY <2>1 DEF DiskInv
<1>10. CASE UndoLedger
  <2>1. /\ UNCHANGED <<msb, walk, version, snaps, handle>> /\ pc = "undoLedger"
        /\ pc' \in {"failed", "up"}
        /\ (pc' = "up" => walk.goal = "checkpoint")
    BY <1>0, <1>10 DEF UndoLedger, disk, guard
  <2> QED
    BY <2>1 DEF DiskInv, Alive, Saved
<1>11. CASE Stop \/ CloseBegins \/ StopSandbox \/ RemoveSandbox \/ SyncStop
            \/ SyncRemove \/ UnlistStopped \/ Close
  <2>1. pc' \in {"stop", "syncStop", "stopped", "remove", "unlist",
                 "syncRemove", "close", "closed"}
    BY <1>11 DEF Stop, CloseBegins, StopSandbox, RemoveSandbox, SyncStop,
                 SyncRemove, UnlistStopped, Close
  <2> QED
    BY <2>1 DEF DiskInv
<1>12. CASE Land
  <2>1. /\ UNCHANGED <<pc, walk, version, snaps, handle>>
        /\ \E n \in late : msb' = Set(n, "running")
    BY <1>12 DEF Land, disk, guard
  <2>2. \A n \in Names : msb[n] # "none" => msb'[n] # "none"
    BY <1>0, <2>1 DEF Set
  <2>3. /\ pc \in {"won", "adopt"} => Current \in Names /\ Current' = Current
        /\ pc \in {"up", "ckptStop", "ckptSnapshot"} => handle \in Names
        /\ walk.goal = "checkpoint" => handle \in Names
    BY <1>0, <2>1, Here DEF HeldInv, WalkInv, Guarding, Current
  <2> QED
    BY <2>1, <2>2, <2>3 DEF DiskInv, Alive, Saved
<1>13. CASE Done \/ UNCHANGED vars
  BY <1>13 DEF Done, vars, DiskInv, Alive, Saved, Current, guard, disk
<1> QED
  BY <1>1, <1>2, <1>3, <1>4, <1>5, <1>6, <1>7, <1>8, <1>9, <1>10, <1>11,
     <1>12, <1>13, NextIs DEF Between

\* What the workload wrote is in its sandbox or in a snapshot, whichever step
\* of a checkpoint failed. (create_checkpoint)
THEOREM NothingLost == Spec => []DiskSurvives
<1>1. Init => DiskInv
  BY DEF Init, DiskInv, Launches
<1>2. BaseInv /\ TablesInv /\ DiskInv /\ [Next]_vars => DiskInv'
  BY DiskStep
<1>3. DiskInv => DiskSurvives
  BY DEF DiskInv, DiskSurvives, Alive, Saved
<1> QED
  BY <1>1, <1>2, <1>3, BaseKept, TablesKept, PTL DEF Spec

-----------------------------------------------------------------------------
(* One sandbox                                                             *)

\* A restore the broker has given up on is under the current name until the
\* failed call drops the name's line; later on it is known to be left behind.
Pending ==
  IF (pc = "settle" /\ verdict = "timeout")
     \/ pc \in {"undoStop", "undoRemove", "undoLedger"}
  THEN {Current} ELSE {}
LateInv == late \subseteq leaked \cup Pending

LEMMA LateStep ==
  ASSUME BaseInv, LateInv, [Next]_vars
  PROVE  LateInv'
<1>1. CASE Attempts
  <2>1. leaked' = leaked /\ pc \in Launches
    BY <1>1, AttemptsAside, AttemptWalk DEF files
  <2>2. CASE ExitsEarly
    <3>1. /\ pc = "spawned" /\ pc' = "settle" /\ walk' = walk
          /\ late' \subseteq late \/ verdict' = "timeout"
      BY <2>2 DEF ExitsEarly, Unconfirmed, NoExitCode
    <3>2. late' \subseteq late \cup {Current} /\ Current' = Current
      BY <1>1, <3>1, AttemptMsb DEF Current
    <3>3. late \subseteq leaked
      BY <3>1 DEF LateInv, Pending
    <3> QED
      BY <2>1, <3>1, <3>2, <3>3 DEF LateInv, Pending
  <2>3. CASE ~ExitsEarly
    <3>1. late' = late
      BY <1>1, <2>3
      DEF Attempts, SpawnRun, SpawnRestore, Spawned, Activates,
          RunIsUp, RunIsOver, RestoreIsUp, RunTimesOut, RestoreDies, Shows,
          Revives, ReviveFails, RetryRelay, RetryHealed, RetryPaused,
          RetryOnce, PollLock, LoseAttempt, NextCandidate
    <3>2. CASE pc = "settle" /\ verdict = "timeout"
      <4>1. LoseAttempt
        BY <1>1, <3>2
        DEF Attempts, SpawnRun, SpawnRestore, Spawned, Activates, ExitsEarly,
            RunIsUp, RunIsOver, RestoreIsUp, RunTimesOut, RestoreDies, Shows,
            Revives, ReviveFails, RetryRelay, RetryHealed, RetryPaused,
            RetryOnce, PollLock, NextCandidate, InPlace, Transient, Locked
      <4>2. pc' \in {"undoStop", "undoLedger"} /\ walk' = walk
        BY <3>2, <4>1 DEF LoseAttempt, GiveUp, Refused
      <4> QED
        BY <2>1, <3>1, <4>2 DEF LateInv, Pending, Current
    <3>3. CASE ~(pc = "settle" /\ verdict = "timeout")
      BY <2>1, <3>1, <3>3 DEF LateInv, Pending, Launches
    <3> QED
      BY <3>2, <3>3
  <2> QED
    BY <2>2, <2>3
<1>2. CASE Land
  <2>1. late' \subseteq late /\ UNCHANGED <<leaked, pc, verdict, walk>>
    BY <1>2 DEF Land, files
  <2> QED
    BY <2>1 DEF LateInv, Pending, Current
<1>3. CASE UndoLedger
  <2>1. late' = late /\ leaked' = leaked \cup {n \in Candidates : msb[n] # "none" \/ n \in late}
    BY <1>3 DEF UndoLedger, Unlist
  <2>2. Current \in Candidates
    BY <1>3, Here DEF UndoLedger
  <2> QED
    BY <2>1, <2>2 DEF LateInv, Pending
<1>4. CASE UndoStop \/ UndoRemove
  <2>1. /\ UNCHANGED <<late, leaked, walk>> /\ pc \in {"undoStop", "undoRemove"}
        /\ pc' \in {"undoRemove", "undoLedger"}
    BY <1>4 DEF UndoStop, UndoRemove, files
  <2> QED
    BY <2>1 DEF LateInv, Pending, Current
<1>5. CASE \/ Start \/ Checkpoint
           \/ Between /\ ~UndoLedger /\ ~UndoStop /\ ~UndoRemove
  <2>1. late' = late /\ leaked \subseteq leaked'
    BY <1>5, BetweenMsb
    DEF Start, Checkpoint, Mint, Between, Create, WonStart, WonCheckpoint,
        Adopt, CkptStop, CkptSnapshot, CkptRm, CkptRelease, StopSandbox,
        RemoveSandbox, SyncStop, SyncRemove, UnlistStopped, Unlist, Close,
        Stop, CloseBegins, files
  <2>2. pc \notin {"settle", "undoStop", "undoRemove", "undoLedger"}
    BY <1>5
    DEF Start, Checkpoint, Between, Create, WonStart, WonCheckpoint,
        Adopt, CkptStop, CkptSnapshot, CkptRm, CkptRelease, StopSandbox,
        RemoveSandbox, SyncStop, SyncRemove, UnlistStopped, Close, Stop,
        CloseBegins
  <2> QED
    BY <2>1, <2>2 DEF LateInv, Pending
<1>6. CASE Done \/ UNCHANGED vars
  BY <1>6 DEF Done, vars, files, LateInv, Pending, Current
<1> QED
  BY <1>1, <1>2, <1>3, <1>4, <1>5, <1>6, NextIs

\* With an msb rm that works, what msb has beside what calls left behind is
\* under the name the call is at, or the guard's.
Left == OnMsb \ leaked
OneInv ==
  rmWorks =>
    /\ pc \in {"idle", "create", "failed"} => Left = {}
    /\ pc \in Launches \cup {"won", "adopt", "undoStop", "undoRemove"} =>
         Left \subseteq {Current}
    /\ pc \in Cycle \cup {"up", "close"} => Left \subseteq {handle}
    /\ pc = "undoLedger" =>
         Left \subseteq IF walk.goal = "checkpoint" THEN {handle, Current}
                                                    ELSE {Current}
    /\ pc = "closed" /\ ~keep => Left = {}

LEMMA OneStep ==
  ASSUME BaseInv, TablesInv, LateInv, OneInv, [Next]_vars
  PROVE  OneInv'
<1> SUFFICES ASSUME rmWorks, rmWorks' PROVE OneInv'
  <2>1. rmWorks' = rmWorks
    BY AttemptsAside, BetweenCall, NextIs
    DEF Start, Checkpoint, Land, Done, vars, scenario
  <2> QED
    BY <2>1 DEF OneInv
<1>0. /\ walk.goal \in {"start", "checkpoint"} /\ WalkInv /\ HeldInv
      /\ msb \in [Names -> Sandbox]
  BY DEF BaseInv, TypeOK, Walk, Sandbox
<1> USE DEF Cycle, Launches
<1>1. CASE Start \/ Create
  <2>1. /\ pc \in {"idle", "create"} /\ pc' \in {"create", "launch"}
        /\ UNCHANGED <<msb, leaked>>
    BY <1>1 DEF Start, Create, Mint, files
  <2> QED
    BY <2>1 DEF OneInv, Left, OnMsb
<1>2. CASE Checkpoint
  <2>1. /\ pc = "up" /\ pc' = "ckptStop" /\ UNCHANGED <<msb, leaked, handle>>
    BY <1>2 DEF Checkpoint, Mint, guard
  <2> QED
    BY <2>1 DEF OneInv, Left, OnMsb
<1>3. CASE Attempts
  <2>1. /\ leaked' = leaked /\ handle' = handle /\ pc \in Launches
        /\ pc' \in Launches \cup {"won", "undoStop", "undoLedger"}
        /\ walk'.goal = walk.goal /\ walk'.first = walk.first
    BY <1>3, AttemptsAside, AttemptWalk DEF SameNames, files, guard
  <2>2. Left' \subseteq {Current}
    BY <1>3, <2>1, AttemptOnMsb DEF OneInv, Left
  <2>3. Left' \subseteq {Current'}
    <3>1. CASE walk'.tried = walk.tried
      BY <2>1, <2>2, <3>1 DEF Current
    <3>2. CASE walk'.tried # walk.tried
      <4>1. Rm(Current)
        <5>1. NextCandidate /\ walk' # walk
          BY <1>3, <3>2, AttemptWalk
        <5> QED
          BY <5>1 DEF NextCandidate
      <4>2. Current \notin OnMsb'
        BY <1>0, <2>1, <4>1, Here DEF Rm, Set, OnMsb
      <4> QED
        BY <2>2, <4>2 DEF Left
    <3> QED
      BY <3>1, <3>2
  <2> QED
    BY <2>1, <2>3 DEF OneInv
<1>4. CASE WonStart \/ WonCheckpoint
  <2>1. /\ UNCHANGED <<walk, msb, leaked>> /\ pc = "won" /\ pc' = "adopt"
    BY <1>4 DEF WonStart, WonCheckpoint, files
  <2> QED
    BY <2>1 DEF OneInv, Left, OnMsb, Current
<1>5. CASE Adopt
  <2>1. /\ UNCHANGED <<msb, leaked>> /\ pc = "adopt" /\ pc' = "up"
        /\ handle' = IF walk.goal = "start" THEN Winner ELSE Current
    BY <1>5 DEF Adopt, Goes, files
  <2>2. handle' = Current
    BY <2>1, TheWinner
  <2> QED
    BY <2>1, <2>2 DEF OneInv, Left, OnMsb
<1>6. CASE CkptStop \/ CkptSnapshot \/ CkptRm \/ CkptRelease
  <2>1. /\ UNCHANGED <<walk, leaked, handle>> /\ pc \in Cycle
        /\ pc' \in Cycle \cup {"undoLedger", "launch"}
        /\ pc' = "launch" => msb[handle] = "none"
    BY <1>6 DEF CkptStop, CkptSnapshot, CkptRm, CkptRelease, files, guard
  <2>2. OnMsb' \subseteq OnMsb /\ walk.goal = "checkpoint"
    BY <1>0, <1>6, <2>1, BetweenMsb DEF Between, WalkInv
  <2>3. Left' \subseteq {handle}
    BY <2>1, <2>2 DEF OneInv, Left
  <2>4. pc' = "launch" => handle \notin OnMsb
    BY <2>1 DEF OnMsb
  <2> QED
    BY <2>1, <2>2, <2>3, <2>4 DEF OneInv, Left
<1>7. CASE UndoStop \/ UndoRemove
  <2>1. /\ UNCHANGED <<walk, leaked>> /\ pc \in {"undoStop", "undoRemove"}
        /\ pc' \in {"undoRemove", "undoLedger"}
    BY <1>7 DEF UndoStop, UndoRemove, files
  <2>2. OnMsb' \subseteq OnMsb
    BY <1>7, BetweenMsb DEF Between
  <2>3. Left' \subseteq {Current} /\ Current' = Current
    BY <2>1, <2>2 DEF OneInv, Left, Current
  <2> QED
    BY <2>1, <2>3 DEF OneInv
<1>8. CASE UndoLedger
  <2>1. /\ UNCHANGED <<msb, handle, walk>> /\ pc = "undoLedger"
        /\ leaked' = leaked \cup {n \in Candidates : msb[n] # "none" \/ n \in late}
        /\ pc' = IF walk.goal = "start" THEN "failed" ELSE "up"
    BY <1>8 DEF UndoLedger, Unlist, guard
  <2>2. Current \in Candidates
    BY <2>1, Here
  <2>3. Left' \subseteq Left \ {Current}
    BY <2>1, <2>2 DEF Left, OnMsb
  <2>4. Left \subseteq IF walk.goal = "checkpoint" THEN {handle, Current}
                                                   ELSE {Current}
    BY <2>1 DEF OneInv
  <2> QED
    BY <1>0, <2>1, <2>3, <2>4 DEF OneInv
<1>9. CASE CloseBegins
  <2>1. UNCHANGED <<msb, leaked, handle>> /\ pc = "up" /\ pc' = "close"
    BY <1>9 DEF CloseBegins, files, guard
  <2> QED
    BY <2>1 DEF OneInv, Left, OnMsb
<1>10. CASE Close
  <2>1. /\ UNCHANGED <<leaked, keep>> /\ pc = "close" /\ pc' = "closed"
    BY <1>10 DEF Close, files, scenario
  <2>2. ASSUME ~keep PROVE Left' = {}
    <3>1. started = {handle} /\ handle \in Names /\ Left \subseteq {handle}
      BY <1>0, <2>1, <2>2 DEF TablesInv, Unless, HeldInv, Guarding, OneInv
    <3>2. msb'[handle] = "none"
      BY <1>10, <3>1 DEF Close
    <3>3. OnMsb' \subseteq OnMsb /\ handle \notin OnMsb'
      BY <1>10, <3>2, BetweenMsb DEF Between, OnMsb
    <3> QED
      BY <2>1, <3>1, <3>3 DEF Left
  <2> QED
    BY <2>1, <2>2 DEF OneInv
<1>11. CASE Stop \/ StopSandbox \/ RemoveSandbox \/ SyncStop \/ SyncRemove
            \/ UnlistStopped
  <2>1. pc' \in {"stop", "syncStop", "stopped", "remove", "unlist", "syncRemove"}
    BY <1>11 DEF Stop, StopSandbox, RemoveSandbox, SyncStop, SyncRemove,
                 UnlistStopped
  <2> QED
    BY <2>1 DEF OneInv
<1>12. CASE Land
  <2>1. PICK n \in late : msb' = Set(n, "running")
    BY <1>12 DEF Land
  <2>2. UNCHANGED <<pc, walk, leaked, handle, keep>>
    BY <1>12 DEF Land, files, guard, scenario
  <2>3. OnMsb' \subseteq OnMsb \cup {n} /\ Current' = Current
    BY <1>0, <2>1, <2>2 DEF Set, OnMsb, Current
  <2>4. n \in leaked \cup Pending
    BY <2>1 DEF LateInv
  <2>5. Left' \subseteq Left \cup Pending
    BY <2>2, <2>3, <2>4 DEF Left
  <2> QED
    BY <2>2, <2>3, <2>5 DEF OneInv, Pending
<1>13. CASE Done \/ UNCHANGED vars
  BY <1>13 DEF Done, vars, OneInv, Left, OnMsb, Current, guard, files, scenario
<1> QED
  BY <1>1, <1>2, <1>3, <1>4, <1>5, <1>6, <1>7, <1>8, <1>9, <1>10, <1>11,
     <1>12, <1>13, NextIs DEF Between

\* While msb rm works, a guard has at most one sandbox between its calls and a
\* failed start has none, besides those a failed call is known to have left
\* behind; and close() reaches it after any number of checkpoints.
\* (reboot_with_already_exists_retry, create_checkpoint, close)
THEOREM AtMostOne == Spec => []OneSandbox
<1>1. Init => LateInv /\ OneInv
  BY DEF Init, LateInv, OneInv, Left, OnMsb, Cycle, Launches
<1>2. BaseInv /\ LateInv /\ [Next]_vars => LateInv'
  BY LateStep
<1>3. BaseInv /\ TablesInv /\ LateInv /\ OneInv /\ [Next]_vars => OneInv'
  BY OneStep
<1>4. OneInv => OneSandbox
  BY DEF OneInv, OneSandbox, Left
<1> QED
  BY <1>1, <1>2, <1>3, <1>4, BaseKept, TablesKept, PTL DEF Spec

=============================================================================

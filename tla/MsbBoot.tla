------------------------------ MODULE MsbBoot ------------------------------
(***************************************************************************)
(* How the microsandbox backend boots, restores and checkpoints the        *)
(* sandbox of one guard (crates/rightsize-msb/src/backend.rs), with the    *)
(* steps of its caller in the core (container.rs: create_started_container,*)
(* checkpoint_core, stop_inner).  One action per msb invocation, per table *)
(* update under a lock, and per pass of the ledger.                        *)
(*                                                                         *)
(* msb's own behaviour, which leaves a sandbox's record behind after some  *)
(* failures, is external: Residue says what each failure may leave.        *)
(***************************************************************************)
EXTENDS Naturals, FiniteSets

CONSTANTS Batch,           \* CHECKPOINT_REBOOT_NAME_CANDIDATES
          LockPolls,       \* bound: polls within INSTALL_LOCK_RETRY_BUDGET
          MaxCheckpoints,  \* bound: checkpoint() calls on the guard
          Kinds            \* which boots to explore, a subset of BootKinds

BootKinds ==
  { "run",      \* msb run, an ordinary image
    "walk",     \* Container::from_checkpoint, a batch of candidate names
    "oneshot" } \* a restore without candidates, straight through the SPI

ASSUME MsbAssumption ==
  /\ Batch \in Nat \ {0} /\ LockPolls \in Nat /\ MaxCheckpoints \in Nat
  /\ Kinds \subseteq BootKinds

Names == 1..(Batch * (MaxCheckpoints + 1))
NoName == 0

VARIABLES
  kind, keep, rmWorks, \* the scenario: the boot, keep_alive, does msb rm work
  pc, verdict,         \* where the call stands; what ended the last attempt
  walk,                \* the boot under way: its names and its retries
  minted,              \* names given out by next_container_name
  msb,                 \* what msb has under each name
  late,                \* brokered restores that may still land
  handles, attached, started, rekey,  \* the tables of MsbCliBackend
  ledger, leaked,      \* the .sandboxes lines; what a call left behind
  handle, ledgerName, diag,           \* the guard; its diagnostics entry
  version, snaps       \* writes of the workload; those a snapshot holds

scenario == <<kind, keep, rmWorks>>
tables == <<handles, attached, started, rekey>>
guard == <<handle, ledgerName, diag>>
files == <<ledger, leaked>>
disk == <<version, snaps>>
vars == <<scenario, pc, verdict, walk, minted, msb, late, tables, files,
          guard, disk>>

(* spawn_and_await_running and spawn_and_await_reboot_restore tell these   *)
(* ends of an attempt apart (PreRunningFailure and the error of Other).    *)
Transient == {"cache", "db"}
Refused == {"conflict", "denied"}      \* another name may do better
RestoreOnly == {"denied", "bindings"}
Classes ==
  Transient \cup Refused \cup RestoreOnly \cup
  {"relay", "lock", "port", "timeout", "other"}

Launches == {"launch", "spawned", "boot", "revive", "settle", "next"}
PC == Launches \cup
  { "idle", "create", "won", "adopt", "up", "ckptStop", "ckptSnapshot",
    "ckptRm", "ckptRelease", "undoStop", "undoRemove", "undoLedger",
    "stop", "remove", "unlist", "syncStop", "syncRemove", "close",
    "failed", "stopped", "closed" }

Walk == [ goal : {"start", "checkpoint"}, first : Names \cup {NoName},
          size : 0..Batch, tried : 0..Batch, escalated : BOOLEAN,
          retried : {"no", "lock", "denied"} \cup Transient,
          relayed : BOOLEAN, polls : 0..LockPolls ]

TypeOK ==
  /\ kind \in BootKinds /\ keep \in BOOLEAN /\ rmWorks \in BOOLEAN
  /\ pc \in PC /\ verdict \in Classes \cup {"none"}
  /\ walk \in Walk
  /\ minted \in 0..Cardinality(Names)
  /\ msb \in [Names -> {"none", "starting", "running", "stopped"}]
  /\ late \subseteq Names
  /\ attached \subseteq Names /\ handles \subseteq Names
  /\ started \subseteq Names /\ rekey \subseteq Names \X Names
  /\ ledger \subseteq Names /\ leaked \subseteq Names
  /\ {handle, ledgerName, diag} \subseteq Names \cup {NoName}
  /\ version \in 0..MaxCheckpoints /\ snaps \subseteq 0..MaxCheckpoints

Fresh(goal, first, size) ==
  [ goal |-> goal, first |-> first, size |-> size, tried |-> 1,
    escalated |-> FALSE, retried |-> "no", relayed |-> FALSE, polls |-> 0 ]

Init ==
  /\ kind \in Kinds /\ keep \in BOOLEAN /\ rmWorks \in BOOLEAN
  /\ keep => kind = "run"    \* reuse boots an image
  /\ pc = "idle" /\ verdict = "none"
  /\ walk = [Fresh("start", NoName, 0) EXCEPT !.tried = 0]
  /\ minted = 0
  /\ msb = [n \in Names |-> "none"]
  /\ late = {}
  /\ handles = {} /\ attached = {} /\ started = {} /\ rekey = {}
  /\ ledger = {} /\ leaked = {}
  /\ handle = NoName /\ ledgerName = NoName /\ diag = NoName
  /\ version = 0 /\ snaps = {}

Candidates == {n \in Names : walk.first <= n /\ n < walk.first + walk.size}
Current == walk.first + walk.tried - 1
OnMsb == {n \in Names : msb[n] # "none"}
Set(n, s) == [msb EXCEPT ![n] = s]

\* msb rm, whose result every caller ignores: it may leave the record
Rm(n) == msb' = IF rmWorks THEN Set(n, "none") ELSE msb

-----------------------------------------------------------------------------
(* The caller's side of a start                                            *)

Listed(S) == IF keep THEN ledger ELSE ledger \cup S

\* Mutant of Mint: only the first name is put on the ledger
MintListingOne(goal, size, next) ==
  /\ walk' = Fresh(goal, minted + 1, size)
  /\ minted' = minted + size
  /\ ledger' = Listed({minted + 1})
  /\ pc' = next

\* next_container_name for each candidate, then reaper::before_create for
\* each, before the backend is called
Mint(goal, size, next) ==
  /\ walk' = Fresh(goal, minted + 1, size)
  /\ minted' = minted + size
  /\ ledger' = Listed((minted + 1)..(minted + size))
  /\ pc' = next

Start ==
  /\ pc = "idle"
  /\ Mint("start", IF kind = "walk" THEN Batch ELSE 1, "create")
  /\ UNCHANGED <<scenario, verdict, msb, late, tables, leaked, guard, disk>>

\* SandboxBackend::create only makes the table entry
Create ==
  /\ pc = "create"
  /\ handles' = handles \cup {walk.first}
  /\ pc' = "launch"
  /\ UNCHANGED <<scenario, verdict, walk, minted, msb, late, attached,
                 started, rekey, files, guard, disk>>

-----------------------------------------------------------------------------
(* One attempt: try_run_and_await_running_once and                         *)
(* try_restore_and_await_running_once                                      *)

Restoring == kind # "run" \/ walk.goal = "checkpoint"

\* what msb may have under the name when the attempt ended this way
Residue(c) ==
  CASE c = "denied" -> {"stopped"}
    [] c = "relay" -> {"stopped", "starting"}
    [] c = "timeout" -> {"none", "starting"}
    [] c \in {"other", "port"} -> {"none", "stopped"}
    [] OTHER -> {msb[Current]}

\* how msb run may end before the sandbox is up
RunEnds == Classes \ RestoreOnly

\* a restore under a name msb knows is refused; only a restore is denied or
\* misses a binding
RestoreEnds == IF msb[Current] # "none" THEN {"conflict"} ELSE Classes

Ends == IF Restoring THEN RestoreEnds ELSE RunEnds

\* a walk that was denied once goes on, where there is one, with the broker
Escalated == walk.escalated

\* broker_with_direct_fallback: a broker out of order leaves the attempt to a
\* direct launch
Launchers == IF Escalated THEN {"broker", "direct"} ELSE {"direct"}

\* the broker's script waits 30 seconds for the file with msb's exit code, and
\* then reports none; a direct launch is killed at its deadline
NoExitCode(by, c) == by = "broker" /\ c = "timeout"

\* classify_broker_report: no exit code, and msb ls does not have the name, is
\* a timeout; the restore may come up all the same
Unconfirmed(by, c) == Restoring /\ NoExitCode(by, c)

\* spawn_msb_command; a spawn that fails is one of the ends of the attempt
Spawned ==
  /\ pc' = "spawned"
  /\ UNCHANGED <<scenario, verdict, walk, minted, msb, late, tables, files,
                 guard, disk>>

SpawnRun == pc = "launch" /\ ~Restoring /\ Spawned

SpawnRestore == pc = "launch" /\ Restoring /\ Spawned

\* msb run is up and attached, or msb restore has exited 0
Activates ==
  /\ pc = "spawned"
  /\ Restoring => msb[Current] = "none"
  /\ msb' = Set(Current, "starting")
  /\ pc' = "boot"
  /\ UNCHANGED <<scenario, verdict, walk, minted, late, tables, files,
                 guard, disk>>

\* it exited with a reason, or had to be killed at the deadline
ExitsEarly ==
  /\ pc = "spawned"
  /\ \E c \in Ends, by \in Launchers :
       /\ verdict' = c
       /\ \E r \in Residue(c) : msb' = Set(Current, r)
       /\ late' = IF Unconfirmed(by, c) THEN late \cup {Current} ELSE late
  /\ pc' = "settle"
  /\ UNCHANGED <<scenario, walk, minted, tables, files, guard, disk>>

\* where the attempt goes, with msb having s under the name
Shows(s, next) ==
  /\ pc = "boot"
  /\ msb' = Set(Current, s)
  /\ pc' = next
  /\ UNCHANGED <<scenario, walk, minted, late, tables, files, guard, disk>>

\* msb ls lists the name of an attached run as Running: the boot is done
RunIsUp == ~Restoring /\ Shows("running", "won") /\ UNCHANGED verdict

\* fast_exit_ran_to_completion: the child of the run has exited 0, and the
\* sandbox is stopped after a whole boot
RunIsOver == ~Restoring /\ Shows("stopped", "won") /\ UNCHANGED verdict

\* msb ls lists a restored sandbox as Running: its workload is still to come
RestoreIsUp == Restoring /\ Shows("running", "revive") /\ UNCHANGED verdict

\* the run is not up by its deadline and is killed
RunTimesOut ==
  /\ ~Restoring
  /\ \E s \in {"none", "starting", "running", "stopped"} : Shows(s, "settle")
  /\ verdict' = "other"

\* the restored sandbox stops, vanishes, or does not get up in time; an ls
\* that cannot be parsed reads as a name that is gone
RestoreDies ==
  /\ Restoring
  /\ \E s \in {"none", "starting", "running", "stopped"} : Shows(s, "settle")
  /\ verdict' = "other"

\* spawn_workload_exec: the exec stays up, or has run to its end
Revives ==
  /\ pc = "revive"
  /\ \E s \in {"running", "stopped"} : msb' = Set(Current, s)
  /\ pc' = "won"
  /\ UNCHANGED <<scenario, verdict, walk, minted, late, tables, files, guard,
                 disk>>

\* no command is known, the agent never answers, or the command fails: the
\* sandbox is up, the boot has failed
ReviveFails ==
  /\ pc = "revive"
  /\ verdict' = "other" /\ pc' = "settle"
  /\ UNCHANGED <<scenario, walk, minted, msb, late, tables, files, guard,
                 disk>>

-----------------------------------------------------------------------------
(* What an attempt's end leads to                                          *)

Walking == kind = "walk" \/ walk.goal = "checkpoint"

\* transients an attempt is repeated for, once, under the same name
InPlace == IF Walking THEN Transient ELSE Transient \cup {"denied"}

Again == pc' = "launch" /\ verdict' = "none"

\* retry_once_on_agent_relay_exit, around every attempt
RetryRelay ==
  /\ pc = "settle" /\ verdict = "relay" /\ ~walk.relayed
  /\ Rm(Current)
  /\ walk' = [walk EXCEPT !.relayed = TRUE]
  /\ Again
  /\ UNCHANGED <<scenario, minted, late, tables, files, guard, disk>>

RetryOnce ==
  /\ pc = "settle" /\ verdict \in InPlace /\ walk.retried = "no"
  /\ walk' = [walk EXCEPT !.retried = verdict, !.relayed = FALSE]
  /\ Again
  /\ UNCHANGED <<scenario, minted, msb, late, tables, files, guard, disk>>

\* after the image has been removed from msb's cache, or could not be
RetryHealed == verdict = "cache" /\ RetryOnce

\* after a pause for the state database, or for a denial
RetryPaused == verdict # "cache" /\ RetryOnce

Locked == verdict = "lock" /\ walk.retried \in {"no", "lock"}

\* msb's install lock: poll until its budget is spent
PollLock ==
  /\ pc = "settle" /\ Locked /\ walk.polls < LockPolls
  /\ walk' = [walk EXCEPT !.retried = "lock", !.relayed = FALSE,
                          !.polls = @ + 1]
  /\ Again
  /\ UNCHANGED <<scenario, minted, msb, late, tables, files, guard, disk>>

GiveUp ==
  pc' = IF walk.goal = "start" THEN "undoStop" ELSE "undoLedger"

\* no retry is left for this attempt: a walk goes on after a refusal, and
\* remembers a denial; everything else ends the call
LoseAttempt ==
  /\ pc = "settle"
  /\ verdict = "relay" => walk.relayed
  /\ verdict \in InPlace => walk.retried # "no"
  /\ IF Walking /\ verdict \in Refused
     THEN /\ pc' = "next"
          /\ walk' = [walk EXCEPT !.escalated = @ \/ verdict = "denied"]
     ELSE GiveUp /\ UNCHANGED walk
  /\ UNCHANGED <<scenario, verdict, minted, msb, late, tables, files, guard,
                 disk>>

NextOf == [walk EXCEPT !.tried = @ + 1, !.retried = "no",
                       !.relayed = FALSE, !.polls = 0]

\* Mutant of NextCandidate: the refused candidate is not removed
NextLeavingPrevious ==
  /\ pc = "next"
  /\ \/ walk.tried < walk.size /\ Again /\ walk' = NextOf
     \/ GiveUp /\ UNCHANGED <<walk, verdict>>
  /\ UNCHANGED <<scenario, minted, msb, late, tables, files, guard, disk>>

\* reboot_with_already_exists_retry and the closures it drives: unless its
\* budget is spent, remove the refused candidate and try the next, if any
NextCandidate ==
  /\ pc = "next"
  /\ \/ Rm(Current) /\ walk.tried < walk.size /\ Again /\ walk' = NextOf
     \/ Rm(Current) /\ walk.tried = walk.size
        /\ GiveUp /\ UNCHANGED <<walk, verdict>>
     \/ GiveUp /\ UNCHANGED <<msb, walk, verdict>>
  /\ UNCHANGED <<scenario, minted, late, tables, files, guard, disk>>

\* a restore the broker no longer waits for comes up after all
Land ==
  /\ \E n \in late :
       /\ msb[n] \in {"none", "starting"} /\ msb' = Set(n, "running")
       /\ late' = late \ {n}
  /\ UNCHANGED <<scenario, pc, verdict, walk, minted, tables, files, guard,
                 disk>>

-----------------------------------------------------------------------------
(* The tables of the backend, and the guard that adopts the winner         *)

Unless(keeps, S) == IF keeps THEN {} ELSE S

\* start() once an attempt has won: the entry made by create() gets the child,
\* or is replaced by one under the winner's name, noted for the caller
WonStart ==
  /\ pc = "won" /\ walk.goal = "start"
  /\ IF Current = walk.first
     THEN UNCHANGED <<handles, rekey>>
     ELSE /\ handles' = (handles \ {walk.first}) \cup {Current}
          /\ rekey' = rekey \cup {<<walk.first, Current>>}
  /\ attached' = IF Restoring THEN attached ELSE attached \cup {Current}
  /\ started' = started \cup Unless(keep, {Current})
  /\ pc' = "adopt"
  /\ UNCHANGED <<scenario, verdict, walk, minted, msb, late, files, guard,
                 disk>>

\* create_checkpoint once the reboot has won: both tables follow the name
WonCheckpoint ==
  /\ pc = "won" /\ walk.goal = "checkpoint"
  /\ handles' = (handles \ {handle}) \cup {Current}
  /\ started' = (started \ {handle}) \cup Unless(keep, {Current})
  /\ pc' = "adopt"
  /\ UNCHANGED <<scenario, verdict, walk, minted, msb, late, attached, rekey,
                 files, guard, disk>>

\* winning_start_handle: read once, by create_started_container
Winner ==
  IF \E to \in Names : <<walk.first, to>> \in rekey
  THEN CHOOSE to \in Names : <<walk.first, to>> \in rekey
  ELSE walk.first

Goes(n) == handle' = n /\ ledgerName' = n /\ diag' = n

\* Mutant of Adopt: the guard keeps the name it was created with
AdoptFirst ==
  /\ pc = "adopt"
  /\ Goes(walk.first)
  /\ rekey' = {p \in rekey : p[1] # walk.first}
  /\ pc' = "up"
  /\ UNCHANGED <<scenario, verdict, walk, minted, msb, late, handles,
                 attached, started, files, disk>>

\* the guard of a start, or checkpoint_core's new identity: the handle, the
\* name for the ledger and the diagnostics entry
Adopt ==
  /\ pc = "adopt"
  /\ Goes(IF walk.goal = "start" THEN Winner ELSE Current)
  /\ rekey' = {p \in rekey : p[1] # walk.first}
  /\ pc' = "up"
  /\ UNCHANGED <<scenario, verdict, walk, minted, msb, late, handles,
                 attached, started, files, disk>>

-----------------------------------------------------------------------------
(* checkpoint_core and the cycle of create_checkpoint                      *)

\* create_checkpoint takes the attached child out of the table
ChildTaken == attached' = attached \ {handle}

\* the workload has written something since the last one
Checkpoint ==
  /\ pc = "up" /\ minted + Batch <= Cardinality(Names)
  /\ Mint("checkpoint", Batch, "ckptStop")
  /\ version' = IF msb[handle] = "running" THEN version + 1 ELSE version
  /\ ChildTaken
  /\ UNCHANGED <<scenario, verdict, msb, late, handles, started, rekey,
                 leaked, guard, snaps>>

CkptStop ==
  /\ pc = "ckptStop"
  /\ \/ /\ msb[handle] # "none"
        /\ msb' = Set(handle, "stopped") /\ pc' = "ckptSnapshot"
     \/ pc' = "undoLedger" /\ UNCHANGED msb
  /\ UNCHANGED <<scenario, verdict, walk, minted, late, tables, files, guard,
                 disk>>

\* Mutant of CkptSnapshot: a failed snapshot create is not noticed
CkptSnapshotAnyway ==
  /\ pc = "ckptSnapshot"
  /\ \/ snaps' = snaps \cup {version}
     \/ UNCHANGED snaps
  /\ pc' = "ckptRm"
  /\ UNCHANGED <<scenario, verdict, walk, minted, msb, late, tables, files,
                 guard, version>>

\* snapshot create: a success whose last line is no path counts as a failure
CkptSnapshot ==
  /\ pc = "ckptSnapshot"
  /\ \/ snaps' = snaps \cup {version} /\ pc' \in {"ckptRm", "undoLedger"}
     \/ UNCHANGED snaps /\ pc' = "undoLedger"
  /\ UNCHANGED <<scenario, verdict, walk, minted, msb, late, tables, files,
                 guard, version>>

CkptRm ==
  /\ pc = "ckptRm"
  /\ Rm(handle)
  /\ pc' = "ckptRelease"
  /\ UNCHANGED <<scenario, verdict, walk, minted, late, tables, files, guard,
                 disk>>

\* wait_for_checkpoint_name_release: only a listing that can be read and does
\* not have the name lets the reboot begin
CkptRelease ==
  /\ pc = "ckptRelease"
  /\ \/ msb[handle] = "none" /\ pc' = "launch"
     \/ pc' = "undoLedger"
  /\ UNCHANGED <<scenario, verdict, walk, minted, msb, late, tables, files,
                 guard, disk>>

-----------------------------------------------------------------------------
(* Ends: a failed call, stop(), Drop, close()                              *)

Stopped(n) ==
  msb' = IF msb[n] \in {"running", "starting"} THEN Set(n, "stopped") ELSE msb

\* create_started_container stops the handle it created, whoever the walk
\* had come to
UndoStop ==
  /\ pc = "undoStop"
  /\ Stopped(walk.first)
  /\ attached' = attached \ {walk.first}
  /\ pc' = "undoRemove"
  /\ UNCHANGED <<scenario, verdict, walk, minted, late, handles, started,
                 rekey, files, guard, disk>>

UndoRemove ==
  /\ pc = "undoRemove"
  /\ Rm(walk.first)
  /\ handles' = handles \ {walk.first} /\ started' = started \ {walk.first}
  /\ pc' = "undoLedger"
  /\ UNCHANGED <<scenario, verdict, walk, minted, late, attached, rekey,
                 files, guard, disk>>

Unlist(S) ==
  /\ ledger' = ledger \ S
  /\ leaked' = leaked \cup {n \in S : msb[n] # "none" \/ n \in late}

\* after_stop for every candidate of the batch
UndoLedger ==
  /\ pc = "undoLedger"
  /\ Unlist(Candidates)
  /\ pc' = IF walk.goal = "start" THEN "failed" ELSE "up"
  /\ verdict' = "none"
  /\ UNCHANGED <<scenario, walk, minted, msb, late, tables, guard, disk>>

\* stop_inner and Drop: a kept sandbox only loses its guard
Stop ==
  /\ pc = "up"
  /\ diag' = NoName
  /\ pc' \in IF keep THEN {"stopped"} ELSE {"stop", "syncStop"}
  /\ UNCHANGED <<scenario, verdict, walk, minted, msb, late, tables, files,
                 handle, ledgerName, disk>>

StopSandbox ==
  /\ pc = "stop"
  /\ Stopped(handle)
  /\ attached' = attached \ {handle}
  /\ pc' = "remove"
  /\ UNCHANGED <<scenario, verdict, walk, minted, late, handles, started,
                 rekey, files, guard, disk>>

RemoveSandbox ==
  /\ pc = "remove"
  /\ Rm(handle)
  /\ handles' = handles \ {handle} /\ started' = started \ {handle}
  /\ pc' = "unlist"
  /\ UNCHANGED <<scenario, verdict, walk, minted, late, attached, rekey,
                 files, guard, disk>>

\* cleanup_sync, on the cleanup thread, leaves the tables as they are
SyncStop ==
  /\ pc = "syncStop"
  /\ Stopped(handle)
  /\ pc' = "syncRemove"
  /\ UNCHANGED <<scenario, verdict, walk, minted, late, tables, files, guard,
                 disk>>

SyncRemove ==
  /\ pc = "syncRemove"
  /\ Rm(handle)
  /\ pc' = "unlist"
  /\ UNCHANGED <<scenario, verdict, walk, minted, late, tables, files, guard,
                 disk>>

UnlistStopped ==
  /\ pc = "unlist"
  /\ Unlist({ledgerName})
  /\ pc' = "stopped"
  /\ UNCHANGED <<scenario, verdict, walk, minted, msb, late, tables, guard,
                 disk>>

\* close() at a clean exit while the guard is up: the names are read once,
\* then each is stopped and removed
CloseBegins ==
  /\ pc = "up"
  /\ pc' = "close"
  /\ UNCHANGED <<scenario, verdict, walk, minted, msb, late, tables, files,
                 guard, disk>>

Close ==
  /\ pc = "close"
  /\ msb' = [n \in Names |->
               IF n \notin started \/ msb[n] = "none" THEN msb[n]
               ELSE IF rmWorks THEN "none" ELSE "stopped"]
  /\ pc' = "closed"
  /\ UNCHANGED <<scenario, verdict, walk, minted, late, tables, files, guard,
                 disk>>

-----------------------------------------------------------------------------

Attempts ==
  \/ SpawnRun \/ SpawnRestore \/ Activates \/ ExitsEarly
  \/ RunIsUp \/ RunIsOver \/ RestoreIsUp \/ RunTimesOut \/ RestoreDies
  \/ Revives \/ ReviveFails
  \/ RetryRelay \/ RetryHealed \/ RetryPaused \/ PollLock \/ LoseAttempt \/ NextCandidate

Call ==
  \/ Create \/ Attempts
  \/ WonStart \/ WonCheckpoint \/ Adopt
  \/ CkptStop \/ CkptSnapshot \/ CkptRm \/ CkptRelease
  \/ UndoStop \/ UndoRemove \/ UndoLedger
  \/ StopSandbox \/ RemoveSandbox \/ SyncStop \/ SyncRemove
  \/ UnlistStopped \/ Close

User == Start \/ Checkpoint \/ Stop \/ CloseBegins

Done == pc \in {"failed", "stopped", "closed"} /\ UNCHANGED vars

Next == User \/ Call \/ Land \/ Done

Spec == Init /\ [][Next]_vars

-----------------------------------------------------------------------------

\* Whatever msb still has under a name this guard minted is on the ledger of
\* the run, or its line was dropped at the end of a call that left it behind
\* (the comment in create_started_container on the superset)
Superset == ~keep => OnMsb \subseteq ledger \cup leaked

\* Between calls the guard, the ledger name, the diagnostics entry and both
\* tables of the backend agree on one name, whichever candidate won
Identity ==
  pc = "up" =>
    /\ handle # NoName /\ ledgerName = handle /\ diag = handle
    /\ handles = {handle} /\ rekey = {}
    /\ started = Unless(keep, {handle})
    /\ attached \subseteq {handle}

\* A checkpoint cycle removes the stopped sandbox only once its disk is in a
\* snapshot: what the workload wrote is never lost by a failed checkpoint
DiskSurvives == pc = "up" => msb[handle] # "none" \/ version \in snaps

\* If msb rm works, one guard has at most one sandbox between its calls,
\* besides those a failed call left behind; and after any number of
\* checkpoints close() still reaches it
OneSandbox ==
  /\ pc \in {"up", "failed"} /\ rmWorks => OnMsb \ leaked \subseteq {handle}
  /\ pc = "closed" /\ rmWorks /\ ~keep => OnMsb \subseteq leaked

=============================================================================

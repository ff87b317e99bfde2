------------------------------- MODULE Reaper -------------------------------
(***************************************************************************)
(* Orphan reaping (crates/rightsize/src/reaper): the processes of one host *)
(* that share a cache directory and a backend, their threads that create   *)
(* and tear down sandboxes and networks, crashes, the watchdog each        *)
(* process leaves behind, and the sweep each process runs at first use.    *)
(*                                                                         *)
(* One actor per sandbox name and one per Network object: whatever thread  *)
(* or task of the program runs it, its steps are those of                  *)
(* create_started_container and ContainerGuard::stop (a name), or of       *)
(* Network::close (a Network), one action per lock acquisition or backend  *)
(* call.  A retry is another name.                                         *)
(***************************************************************************)
EXTENDS Ledger

CONSTANTS RunOf,      \* the run that mints a name or owns a Network
          NetOf,      \* the Network a sandbox joins, or NoNet
          NoNet,
          KeepAlive,  \* names whose spec has keep_alive set
          BackendOf,  \* the backend a run resolved
          Mode,       \* RIGHTSIZE_REAPER of a run: "on", "sweep" or "off"
          Faults      \* the failures the environment may show, see FaultKinds

(* The code ignores the error of every one of these calls.                 *)
FaultKinds ==
  { "remove",   \* a backend stop/remove of a sandbox fails, it stays up
    "ensure",   \* backend.ensure_network fails
    "connect",  \* docker creates a container and cannot connect it
    "inuse",    \* a Network is closed while a sandbox is attached
    "io",       \* a ledger append fails
    "ps",       \* a live process's start time cannot be determined
    "late" }    \* a create in flight at a crash still takes effect

ASSUME ReaperAssumption ==
  /\ RunOf \in [Actors -> Runs]
  /\ NetOf \in [Names -> Nets \cup {NoNet}]
  /\ NoNet \notin Nets
  /\ \A n \in Names : NetOf[n] # NoNet => RunOf[NetOf[n]] = RunOf[n]
  /\ KeepAlive \subseteq Names
  /\ Mode \in [Runs -> {"on", "sweep", "off"}]
  /\ Faults \subseteq FaultKinds
  /\ Names \cap Nets = {}

VARIABLES live,     \* sandboxes that exist on their backend
          netLive,  \* netLive[r]: the network of run r exists on its backend
          proc,     \* "unborn", "up" or "dead"
          pc,       \* where each actor stands
          used,     \* Networks with backend_used set
          spawned,  \* watchdog_spawned, the OnceLock of a process
          phase,    \* phase[p]: where reaper p stands
          target,   \* the run reaper p is reaping
          kill,     \* names reaper p has read and not yet removed
          todo      \* todo[q]: runs the sweep of q listed, not yet looked at

workVars == <<live, netLive, proc, pc, used, spawned>>
reapVars == <<phase, target, kill, todo>>
vars == <<ledgerVars, workVars, reapVars>>

(* Every process has at most one sweep and one watchdog; both reap with    *)
(* the same steps.                                                         *)
Reapers == {"sweep", "watchdog"} \X Runs
Sweep(q) == <<"sweep", q>>
Watchdog(r) == <<"watchdog", r>>

LedgerEnabled(r) == Mode[r] # "off"
SweepEnabled(r) == Mode[r] # "off"
WatchdogEnabled(r) == Mode[r] = "on"

PC == { "idle",       \* not started; for a Network: not being closed
        "listNet", "ensure",                        \* Container::start
        "read", "write", "append", "watch",         \* before_create
        "create", "start", "register", "running",
        "remove", "unlist", "prune",                \* teardown, after_stop
        "unlistNet",                                \* after_remove_network
        "gone" }
Phase == {"idle", "watching", "scan", "open", "kill", "delete", "done"}

TypeOK ==
  /\ LedgerTypeOK
  /\ live \subseteq Names
  /\ netLive \in [Runs -> BOOLEAN]
  /\ proc \in [Runs -> {"unborn", "up", "dead"}]
  /\ pc \in [Actors -> PC]
  /\ used \subseteq Nets
  /\ spawned \in [Runs -> BOOLEAN]
  /\ phase \in [Reapers -> Phase]
  /\ target \in [Reapers -> Runs]
  /\ kill \in [Reapers -> SUBSET Names]
  /\ todo \in [Runs -> SUBSET Runs]

Init ==
  /\ LedgerInit
  /\ live = {}
  /\ netLive = [r \in Runs |-> FALSE]
  /\ proc = [r \in Runs |-> "unborn"]
  /\ pc = [x \in Actors |-> "idle"]
  /\ used = {}
  /\ spawned = [r \in Runs |-> FALSE]
  /\ phase = [p \in Reapers |-> "idle"]
  /\ target = [p \in Reapers |-> p[2]]
  /\ kill = [p \in Reapers |-> {}]
  /\ todo = [r \in Runs |-> {}]

\* x is at label l in a process that is up
At(x, l) == pc[x] = l /\ proc[RunOf[x]] = "up"
Goto(x, l) == pc' = [pc EXCEPT ![x] = l]

\* docker refuses to delete a network with a sandbox attached
InUse(r) == \E n \in live : RunOf[n] = r /\ NetOf[n] # NoNet

-----------------------------------------------------------------------------
(* Processes                                                               *)

Boot(r) ==
  /\ proc[r] = "unborn"
  /\ proc' = [proc EXCEPT ![r] = "up"]
  /\ UNCHANGED <<ledgerVars, live, netLive, pc, used, spawned, reapVars>>

\* a crash, a kill or an exit: nothing in the process runs any more
Die(r) ==
  /\ proc[r] = "up"
  /\ proc' = [proc EXCEPT ![r] = "dead"]
  /\ UNCHANGED <<ledgerVars, live, netLive, pc, used, spawned, reapVars>>

-----------------------------------------------------------------------------
(* Container::start and create_started_container                           *)

AfterNet(n) == IF LedgerEnabled(RunOf[n]) THEN "read" ELSE "create"

\* backends::active() has resolved and swept before any container work
Start(n) ==
  /\ At(n, "idle") /\ n \in Names
  /\ phase[Sweep(RunOf[n])] = "done"
  /\ Goto(n, IF NetOf[n] = NoNet THEN AfterNet(n)
             ELSE IF LedgerEnabled(RunOf[n]) THEN "listNet" ELSE "ensure")
  /\ UNCHANGED <<ledgerVars, live, netLive, proc, used, spawned, reapVars>>

BeforeEnsureNetwork(n) ==
  /\ At(n, "listNet")
  /\ \/ AppendNetwork(RunOf[n])
     \/ "io" \in Faults /\ UNCHANGED ledgerVars
  /\ Goto(n, "ensure")
  /\ UNCHANGED <<live, netLive, proc, used, spawned, reapVars>>

EnsureNetwork(n) ==
  /\ At(n, "ensure")
  /\ \/ /\ netLive' = [netLive EXCEPT ![RunOf[n]] = TRUE]
        /\ Goto(n, AfterNet(n))
     \/ /\ "ensure" \in Faults
        /\ Goto(n, IF LedgerEnabled(RunOf[n]) THEN "unlistNet" ELSE "gone")
        /\ UNCHANGED netLive
  /\ UNCHANGED <<ledgerVars, live, proc, used, spawned, reapVars>>

\* record_create: read_record takes no lock, so the check and the write that
\* follows it are separate steps
ReadRecord(n) ==
  /\ At(n, "read")
  /\ Goto(n, IF record[RunOf[n]] THEN "append" ELSE "write")
  /\ UNCHANGED <<ledgerVars, live, netLive, proc, used, spawned, reapVars>>

CreateRecord(n) ==
  /\ At(n, "write")
  /\ WriteRecord(RunOf[n])
  /\ Goto(n, "append")
  /\ UNCHANGED <<live, netLive, proc, used, spawned, reapVars>>

AppendName(n) ==
  /\ At(n, "append")
  /\ \/ n \notin KeepAlive /\ AppendSandbox(RunOf[n], n)
     \/ (n \in KeepAlive \/ "io" \in Faults) /\ UNCHANGED ledgerVars
  /\ Goto(n, "watch")
  /\ UNCHANGED <<live, netLive, proc, used, spawned, reapVars>>

\* watchdog::spawn: the Child goes into the process's one WATCHDOG_CHILD slot.
\* A Child that loses the slot is dropped, its stdin closes, and that
\* watchdog reaps at once.  Writing the script or spawning it may fail.
SpawnChild(r) ==
  \/ phase' = [phase EXCEPT ![Watchdog(r)] =
                  IF @ = "idle" THEN "watching"
                  ELSE IF @ = "watching" THEN "open" ELSE @]
  \/ UNCHANGED phase

\* Mutant of SpawnWatchdog: every start spawns one
SpawnEveryTime(n) ==
  /\ At(n, "watch")
  /\ IF WatchdogEnabled(RunOf[n]) THEN SpawnChild(RunOf[n]) ELSE UNCHANGED phase
  /\ Goto(n, "create")
  /\ UNCHANGED <<ledgerVars, live, netLive, proc, used, spawned,
                 target, kill, todo>>

SpawnWatchdog(n) ==
  /\ At(n, "watch")
  /\ LET r == RunOf[n] IN
       IF WatchdogEnabled(r) /\ ~spawned[r]
       THEN SpawnChild(r) /\ spawned' = [spawned EXCEPT ![r] = TRUE]
       ELSE UNCHANGED <<phase, spawned>>
  /\ Goto(n, "create")
  /\ UNCHANGED <<ledgerVars, live, netLive, proc, used, target, kill, todo>>

AfterStop(n) == IF LedgerEnabled(RunOf[n]) /\ n \notin KeepAlive
                THEN "unlist" ELSE "gone"

\* docker makes the container here, msb only registers it; a container that
\* cannot be connected to its network stays behind, and create fails
Create(n) ==
  /\ At(n, "create")
  /\ \/ Goto(n, "start") /\ live' \in {live, live \cup {n}}
     \/ /\ Goto(n, AfterStop(n))
        /\ \/ UNCHANGED live
           \/ NetOf[n] # NoNet /\ "connect" \in Faults /\ live' = live \cup {n}
  /\ UNCHANGED <<ledgerVars, netLive, proc, used, spawned, reapVars>>

\* a failed start may leave a sandbox half up: stop and remove follow
StartBackend(n) ==
  /\ At(n, "start")
  /\ \/ Goto(n, "register") /\ live' = live \cup {n}
     \/ Goto(n, "remove") /\ live' \in {live, live \cup {n}}
  /\ UNCHANGED <<ledgerVars, netLive, proc, used, spawned, reapVars>>

\* a keep_alive guard leaves its sandbox running
StopOf(n) == IF n \in KeepAlive THEN "gone" ELSE "remove"

\* link_register_and_wait: links may fail before register, the wait after it;
\* on either failure the guard is stopped
Register(n) ==
  /\ At(n, "register")
  /\ \/ Goto(n, "running") /\ used' = used \cup ({NetOf[n]} \ {NoNet})
     \/ NetOf[n] # NoNet /\ Goto(n, StopOf(n)) /\ UNCHANGED used
  /\ UNCHANGED <<ledgerVars, live, netLive, proc, spawned, reapVars>>

-----------------------------------------------------------------------------
(* Teardown: stop_inner, or the cleanup thread after a drop                *)

Stop(n) ==
  /\ At(n, "running")
  /\ Goto(n, StopOf(n))
  /\ UNCHANGED <<ledgerVars, live, netLive, proc, used, spawned, reapVars>>

Remove(n) ==
  /\ At(n, "remove")
  /\ \/ live' = live \ {n}
     \/ "remove" \in Faults /\ UNCHANGED live
  /\ Goto(n, AfterStop(n))
  /\ UNCHANGED <<ledgerVars, netLive, proc, used, spawned, reapVars>>

\* record_stop
Unlist(n) ==
  /\ At(n, "unlist")
  /\ RemoveSandboxLine(RunOf[n], n)
  /\ Goto(n, IF lock'[RunOf[n]] = n THEN "prune" ELSE "gone")
  /\ UNCHANGED <<live, netLive, proc, used, spawned, reapVars>>

\* Network::close does nothing before the first member has registered; a
\* caller that closes with members attached gets an in-use error, ignored
Close(x) ==
  /\ x \in used /\ At(x, "idle")
  /\ \/ ~InUse(RunOf[x]) /\ netLive' = [netLive EXCEPT ![RunOf[x]] = FALSE]
     \/ InUse(RunOf[x]) /\ "inuse" \in Faults /\ UNCHANGED netLive
  /\ Goto(x, IF LedgerEnabled(RunOf[x]) THEN "unlistNet" ELSE "idle")
  /\ UNCHANGED <<ledgerVars, live, proc, used, spawned, reapVars>>

\* where an actor goes after after_remove_network: a Network can be closed
\* again, a start that could not have its network has failed
NetDone(x) == IF x \in Nets THEN "idle" ELSE "gone"

AfterRemoveNetwork(x) ==
  /\ At(x, "unlistNet")
  /\ RemoveNetworkLine(RunOf[x], x)
  /\ Goto(x, IF lock'[RunOf[x]] = x THEN "prune" ELSE NetDone(x))
  /\ UNCHANGED <<live, netLive, proc, used, spawned, reapVars>>

PruneFiles(x) ==
  /\ At(x, "prune")
  /\ Prune(RunOf[x], x)
  /\ Goto(x, NetDone(x))
  /\ UNCHANGED <<live, netLive, proc, used, spawned, reapVars>>

\* the backend finishes, after the crash of the caller, a create it was
\* already working on
LateCreate(n) ==
  /\ "late" \in Faults
  /\ proc[RunOf[n]] = "dead" /\ pc[n] \in {"create", "start"}
  /\ live' = live \cup {n}
  /\ Goto(n, "gone")
  /\ UNCHANGED <<ledgerVars, netLive, proc, used, spawned, reapVars>>

-----------------------------------------------------------------------------
(* The sweep of process q: sweep::run                                      *)

ListRuns(q) ==
  /\ proc[q] = "up" /\ phase[Sweep(q)] = "idle"
  /\ IF SweepEnabled(q)
     THEN /\ todo' = [todo EXCEPT ![q] = CandidateRunIds \ {q}]
          /\ phase' = [phase EXCEPT ![Sweep(q)] = "scan"]
     ELSE /\ phase' = [phase EXCEPT ![Sweep(q)] = "done"]
          /\ UNCHANGED todo
  /\ UNCHANGED <<ledgerVars, workVars, target, kill>>

\* Mutant of AliveVerdicts: recorded and current start times never agree
NobodyAlive(r) == {FALSE}

\* liveness::is_alive answers FALSE for anything it cannot determine
AliveVerdicts(r) == {proc[r] = "up"}
                      \cup (IF "ps" \in Faults THEN {FALSE} ELSE {})

\* Mutants of Reapable: the backend is not compared, or compared the wrong way
ReapableAnywhere(q, r, alive) == record[r] /\ ~alive
ReapableElsewhere(q, r, alive) ==
  record[r] /\ ~alive /\ BackendOf[r] # BackendOf[q]

Reapable(q, r, alive) == record[r] /\ ~alive /\ BackendOf[r] = BackendOf[q]

\* reap_if_dead, up to the decision to reap
ReapIfDead(q, r) ==
  /\ proc[q] = "up" /\ phase[Sweep(q)] = "scan" /\ r \in todo[q]
  /\ todo' = [todo EXCEPT ![q] = @ \ {r}]
  /\ \E alive \in AliveVerdicts(r) :
       IF Reapable(q, r, alive)
       THEN /\ phase' = [phase EXCEPT ![Sweep(q)] = "open"]
            /\ target' = [target EXCEPT ![Sweep(q)] = r]
       ELSE UNCHANGED <<phase, target>>
  /\ UNCHANGED <<ledgerVars, workVars, kill>>

SweepDone(q) ==
  /\ proc[q] = "up" /\ phase[Sweep(q)] = "scan" /\ todo[q] = {}
  /\ phase' = [phase EXCEPT ![Sweep(q)] = "done"]
  /\ UNCHANGED <<ledgerVars, workVars, target, kill, todo>>

(* The watchdog of run r: its stdin reaches EOF when the process is gone   *)
WatchdogEof(r) ==
  /\ proc[r] = "dead" /\ phase[Watchdog(r)] = "watching"
  /\ phase' = [phase EXCEPT ![Watchdog(r)] = "open"]
  /\ UNCHANGED <<ledgerVars, workVars, target, kill, todo>>

(* sweep::reap and the watchdog script, step by step: read the sandbox     *)
(* lines, remove each, read the network lines, remove each, delete the     *)
(* files.  A sweep stops with its process, a watchdog does not.            *)
Reaping(p, ph) ==
  /\ phase[p] = ph
  /\ p[1] = "sweep" => proc[p[2]] = "up"

\* Mutant of ReadSandboxes: the loop may end before the last line
ReadSomeSandboxes(p) ==
  /\ Reaping(p, "open")
  /\ \E S \in SUBSET sandboxes[target[p]] :
       /\ sandboxes[target[p]] # {} => S # {}
       /\ kill' = [kill EXCEPT ![p] = S]
  /\ phase' = [phase EXCEPT ![p] = "kill"]
  /\ UNCHANGED <<ledgerVars, workVars, target, todo>>

ReadSandboxes(p) ==
  /\ Reaping(p, "open")
  /\ kill' = [kill EXCEPT ![p] = sandboxes[target[p]]]
  /\ phase' = [phase EXCEPT ![p] = "kill"]
  /\ UNCHANGED <<ledgerVars, workVars, target, todo>>

\* a reaper's commands reach only the backend of its own run
SameBackend(p) == BackendOf[target[p]] = BackendOf[p[2]]

\* remove_by_name
RemoveByName(p, n) ==
  /\ Reaping(p, "kill") /\ n \in kill[p]
  /\ kill' = [kill EXCEPT ![p] = @ \ {n}]
  /\ \/ SameBackend(p) /\ live' = live \ {n}
     \/ (~SameBackend(p) \/ "remove" \in Faults) /\ UNCHANGED live
  /\ UNCHANGED <<ledgerVars, netLive, proc, pc, used, spawned,
                 phase, target, todo>>

RemoveNetworks(p) ==
  /\ Reaping(p, "kill") /\ kill[p] = {}
  /\ netLive' = [netLive EXCEPT ![target[p]] =
                    @ /\ ~( /\ networks[target[p]] /\ SameBackend(p)
                           /\ ~InUse(target[p]) )]
  /\ phase' = [phase EXCEPT ![p] = "delete"]
  /\ UNCHANGED <<ledgerVars, live, proc, pc, used, spawned,
                 target, kill, todo>>

DeleteRun(p) ==
  /\ Reaping(p, "delete")
  /\ DeleteFiles(target[p])
  /\ phase' = [phase EXCEPT ![p] = IF p[1] = "sweep" THEN "scan" ELSE "done"]
  /\ UNCHANGED <<workVars, target, kill, todo>>

-----------------------------------------------------------------------------
NameStep(n) ==
  \/ Start(n) \/ BeforeEnsureNetwork(n) \/ EnsureNetwork(n)
  \/ ReadRecord(n) \/ CreateRecord(n) \/ AppendName(n) \/ SpawnWatchdog(n)
  \/ Create(n) \/ StartBackend(n) \/ Register(n)
  \/ Stop(n) \/ Remove(n) \/ Unlist(n) \/ LateCreate(n)

ActorStep(x) == AfterRemoveNetwork(x) \/ PruneFiles(x)

ReaperStep(p) ==
  \/ ReadSandboxes(p) \/ RemoveNetworks(p) \/ DeleteRun(p)
  \/ \E n \in Names : RemoveByName(p, n)

SweepStep(q) ==
  \/ SweepDone(q) \/ ReaperStep(Sweep(q))
  \/ \E r \in Runs : ReapIfDead(q, r)

WatchdogStep(r) == WatchdogEof(r) \/ ReaperStep(Watchdog(r))

Next ==
  \/ \E r \in Runs : Boot(r) \/ Die(r) \/ ListRuns(r)
                       \/ SweepStep(r) \/ WatchdogStep(r)
  \/ \E n \in Names : NameStep(n)
  \/ \E x \in Nets : Close(x)
  \/ \E x \in Actors : ActorStep(x)

Spec == Init /\ [][Next]_vars

(* A running script runs on, and so does a sweep whose process stays up.   *)
(* Nothing is assumed of the programs: they may never start, stop or exit. *)
FairSpec ==
  /\ Spec
  /\ \A r \in Runs : WF_vars(WatchdogStep(r)) /\ WF_vars(SweepStep(r))

-----------------------------------------------------------------------------
(* Correctness                                                             *)

Ephemeral(n) == n \notin KeepAlive /\ LedgerEnabled(RunOf[n])

\* The ledger's first promise (ledger.rs, module doc): a sandbox never exists
\* without a line naming it, through every interleaving of creates, stops,
\* crashes, watchdogs and sweeps, as long as the calls to the backend succeed.
ListedWhileLive ==
  \A n \in live : Ephemeral(n) => n \in sandboxes[RunOf[n]]

\* A guard that start() returned and nobody has stopped has its sandbox: no
\* watchdog and no sweep takes a sandbox of a process that is up.
RunningIsLive ==
  \A n \in Names : At(n, "running") => n \in live

\* While its process is up, a sandbox disappears only by its own teardown; a
\* keep_alive sandbox only by its own teardown, ever.
OnlyOwnerRemoves ==
  [][\A n \in live : n \notin live' =>
        \/ pc[n] = "remove"
        \/ n \notin KeepAlive /\ proc[RunOf[n]] = "dead"]_vars

\* The clean-shutdown rule: when every sandbox a process started is torn down
\* and its network is closed, its run record is gone, whichever of the
\* concurrent stops came last.
CleanShutdown ==
  \A r \in Runs :
    /\ proc[r] = "up" /\ ~networks[r]
    /\ \A x \in Actors : RunOf[x] = r =>
          pc[x] \in (IF x \in KeepAlive THEN {"idle"} ELSE {"idle", "gone"})
    => ~record[r]

\* The watchdog of a crashed process removes every sandbox it left.
WatchdogReaps ==
  \A n \in Names :
    (Ephemeral(n) /\ n \in live /\ proc[RunOf[n]] = "dead"
       /\ phase[Watchdog(RunOf[n])] = "watching") ~> n \notin live

\* A sweep that finds the record of a dead run of its own backend removes
\* every sandbox that run left, unless the sweeping process dies too.
SweepReaps ==
  \A n \in Names, q \in Runs :
    (Ephemeral(n) /\ n \in live
       /\ proc[RunOf[n]] = "dead" /\ record[RunOf[n]]
       /\ RunOf[n] \in todo[q] /\ proc[q] = "up"
       /\ BackendOf[RunOf[n]] = BackendOf[q])
    ~> (n \notin live \/ proc[q] = "dead")

(* The reaper implements Ownership: a sandbox that is not there has yet to *)
(* come up as long as its process is up and before its teardown.           *)
status ==
  [n \in Names |->
     IF n \in live THEN "live"
     ELSE IF /\ proc[RunOf[n]] # "dead"
             /\ pc[n] \notin {"remove", "unlist", "prune", "gone"}
          THEN "absent" ELSE "over"]

Owned == INSTANCE Ownership

\* Crashes, racing watchdogs and sweeps included, the sandboxes do what
\* Ownership says: nobody removes a live process's sandbox behind its back,
\* and none that is gone comes back under its name.
ImplementsOwnership == Owned!Spec
=============================================================================

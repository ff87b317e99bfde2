# rightsize-rust: a TLA+ verification project

`rightsize` starts throw-away containers for integration tests, in Docker or in
microsandbox (`msb`) micro-VMs, and promises that they are gone afterwards:
after `stop()`, after a dropped guard, after a crash of the test process. What
makes that hard is not any one call but their order: threads of one process,
processes of one host that share a cache directory, a watchdog and sweeps that
clean up after processes that died at any point, backends that know a sandbox
by its name. This directory models the library in TLA+, checks it with TLC on
small instances and proves the main safety properties with TLAPS for every
instance.

    tlc -workers 2 -config ReaperCrash.cfg MCReaper.tla     # one run
    tlapm ReaperProofs.tla                                  # one proof module

`PROJECT.json` lists the components, the runs, the mutants (one plausible bug
per checked property, that TLC must find), the map from definitions to source
lines, the finding, the hazards and the theorems.

## 1. The system

Paths are below `src/crates/`.

| component | state | operations | talks to |
|---|---|---|---|
| Reaping ledger, `rightsize/src/reaper/ledger.rs` | per run three files: the record, `.sandboxes`, `.networks`; one process-wide lock | `write_record`, `append_*`, `remove_*`, `prune_if_empty`, `delete_run`, listing | files shared by all processes of a host |
| Reaper facade, sweep, watchdog, `reaper/{mod,sweep,watchdog,mode}.rs` | the watchdog's `OnceLock`, the sweep's `Once`, the watchdog's pipe | `before_create`, `after_stop`, network hooks, `run_sweep`, the watchdog script | ledger, backend `remove_by_name` / `remove_network` |
| Process liveness, `reaper/liveness.rs` | none | `process_started_iso`, the date conversions, `is_alive` | `ps`, the clock |
| Container start, guard, stop, drop, `container.rs` | ports and quarantine of an attempt, the guard's handle and ports | `start`, its port-bind retries, `stop`, `Drop`, checkpoint calls | allocator, ledger, backend, network, cleanup thread |
| Free-port allocator, `free_ports.rs` | the set of issued ports | `allocate`, `release` (TCP and UDP alike) | the host's port table |
| Cleanup thread, `cleanup.rs` | a channel of teardown jobs | send, the thread's loop | backend, ledger |
| Network, `network.rs` | members, `backend_used`, the id | `register`, `links_for_new_member`, `resolve`, `close` | containers, ledger |
| Reuse, `reuse.rs`, `start_reuse` in `container.rs` | one registry file per identity; a fixed sandbox name | adopt, orphan probe, fresh create, name-conflict retry | backend, registry file, other processes |
| Checkpoints, `checkpoint.rs`, `container.rs` | registry of named checkpoints, artifacts, ledger lines of candidate names | `checkpoint`, `checkpoint_named`, `find`, `remove`, `export_to`, `import_from`, `from_checkpoint` | backend, ledger |
| Container spec, `model.rs`, `rightsize-msb/src/commands.rs`, docker's `build_create_body` | the builder's options | spec, msb's argument lists, docker's request, registry entry and identity made from it | backends, registries |
| Wait strategies, `wait.rs` | a deadline | `poll_until_ready` | ports, logs |
| Diagnostics, `diagnostics.rs` | registry of running guards by name | `register`, `deregister`, report | guards |
| Backend resolution, `backends.rs`, the providers | the registered providers, the resolved backend | `register_provider`, `resolve`, `active` | environment |
| Docker backend and client, `rightsize-docker/src` | network-id cache; connections | pull, create, start, stop, remove, networks, commit, log frames | the daemon's HTTP API |
| msb backend, `rightsize-msb/src/backend.rs` | handles, attached children, started names, re-keying tables | create, start, stop, remove, restore walk, checkpoint cycle, tunnels | the `msb` program |
| msb provisioner, `provisioner.rs`, `platform.rs` | an install directory and a lock directory | `ensure_installed`, lock takeover | files shared by all processes |
| Log followers, `watchdog.rs`, docker's `follow_logs` | what was delivered, a close flag | reader, watchdog, killer and proxy threads; a poller; a task | `msb logs`, the daemon |
| Exec tunnels, `exec_tunnel.rs` | a worker with a listener and a socket | serve, drop | `msb exec` |
| Container modules, `rightsize-modules/src` | a preset over `Container`, the wrapper's fields | `with_*`, `start`, `post_start`, URLs | everything above, the server in the guest |

The hard behaviours, and the properties that make each component right:

* **Crashes.** A process may die between any two steps of a create or a
  teardown. Every sandbox that exists must then be named in a file some reaper
  reads (`ListedWhileLive`, `Superset`), and the reapers must get to it
  (`WatchdogReaps`, `SweepReaps`).
* **Cleaners that must not overreach.** Sweeps of other processes and watchdogs
  run while processes boot and create. None may take the sandbox of a live
  process (`RunningIsLive`, `OnlyOwnerRemoves`, `ImplementsOwnership`), whose
  liveness is judged from two clock readings (`Clocks`).
* **Concurrent stops.** Whichever of several stops comes last deletes the files,
  while another thread may be appending (`CleanShutdown`).
* **Ports.** Two starts, a retry, a dropped guard and a cancelled future share
  one allocator and one host (`OnlyStrangersConflict`, `ImplementsPool`,
  `NothingLeftBehind`), and starts must end (`StartReturns`).
* **Deferred teardown.** A dropped guard is only queued (`DroppedIsTornDown`).
* **Reuse.** Calls of different processes share one file and one name, check one
  after the other and at different moments (`SoleWorkload`,
  `AdoptsWithItsPorts`, `FailedLeavesNothing`, `LoserRemovesNothing`), and what a
  dead one has asked for may come up late; what counts as the same container is a
  hash of some fields (`Interchangeable`).
* **Names that change.** A restore walks over candidate names and a checkpoint
  reboots under a new one: guard, ledger, diagnostics and four tables must end
  with one name, and nothing may be lost or doubled on the way (`Identity`,
  `OneSandbox`, `DiskSurvives`).
* **Shared artifacts.** Processes and both backends share named checkpoints
  (`Kept`, `LatestWins`, `OnceReal`, `OwnStore`).
* **A daemon that answers late or not at all** (`CloseSweeps`, `ImagePulled`,
  `KeptRuns`, `SameNetwork`).
* **A lock made of a directory**, judged abandoned by its age (`OneInstaller`,
  `LockIsReleased`, `PollingEnds`, `ReadyIsWhole`).
* **Threads behind a log or a link** (`OnceInOrder`, `AllDelivered`, `Silent`,
  `TunnelsFirst`), and fetches that show the end of a log only.
* **Many routes for one configuration**, and servers that say they are ready
  before they are (`RunsAsAsked`, `RestoresTheSame`, `ReadyMeansServing`).
* **Ignored errors.** Nearly every error of a teardown is ignored; each property
  says which of them it tolerates.

## 2. The modules and how they correspond to the code

    Ledger <- Reaper <- MCReaper -> Clocks        FreePorts <- Lifecycle <- MCLifecycle
                | refines Ownership                             | refines PortPool
    ReaperProofs (of Reaper and Clocks)           LifecycleProofs
    Reuse <- MCReuse, ReuseProofs                 Provisioner, MsbBoot <- MsbProofs
    Docker <- DockerProofs                        Checkpoints <- CheckpointsProofs
    Streams <- MCStreams, StreamsProofs           Specs <- Presets <- PresetsProofs

**Ledger** (`ledger.rs`). The files of a run are `record[r]`, `sandboxes[r]`,
`networks[r]`; `lock[r]` is `WRITE_LOCK`. A read-modify-write under the lock is
one action. The exception are the two removals, whose deletion of the emptied
files another process may see, or a crash prevent, before the lock is
released: `RemoveSandboxLine` or `RemoveNetworkLine`, then `Prune`.
Sweeps and watchdogs read without the lock; a process that reads its own run
(`sandbox_names`, `network_ids`) takes it, which makes no difference here, where
a read is one action. That a rewrite on removal fails is not among the faults.
Only the emptiness of `.networks` matters: all Networks of a process have one id.

**Reaper** (`reaper/*.rs`, `before_create` ... `after_stop` as
`create_started_container` and `stop_inner` call them, `Network::close`). An
actor is a sandbox name or a Network object; its `pc` is the next lock
acquisition or backend call, so that any two threads interleave there. A retry
uses another name, as in the code. `Boot` and `Die` are the process; `Die` may
happen at any step, releases the lock and closes the watchdog's pipe.
`ListRuns`, `ReapIfDead`, `SweepDone` are `run_sweep`; `WatchdogEof` and the
shared reaper steps (`ReadSandboxes`, `RemoveByName`, `RemoveNetworks`,
`DeleteRun`) are the watchdog script and `reap_run`. What the environment may do
wrong is the constant `Faults`; `FaultKinds` in the module says what each is.

**Ownership** is the abstract specification: a sandbox comes up while its
process is up, goes away once, by its owner or after the owner's death, and
never comes back. `Reaper` implements it by the mapping `status`.

**Clocks** (`liveness.rs`). `Reaper` takes the verdict of `is_alive` as
`AliveVerdicts`; this module says when it can be wrong. The conversions between
days and dates are the code's integer arithmetic, truncating division included;
`Reading` is what a process started at `s` yields when `ps` and the clock are
read, each cut to whole seconds. `MCReaper` states as assumptions, which TLC
evaluates, that the conversions invert each other on every day of a 400-year era
and at its edges, follow the Gregorian calendar, and that elapsed times add up.

**FreePorts, Lifecycle** (`free_ports.rs`, `container.rs`, `cleanup.rs`,
`network.rs`). `issued` is the allocator's set, `bound` the host's port table.
The actions follow `start()`: `Start` (links computed from the members),
`Allocate`, `Prepare` (spec, customizer, validation), `Create`, `Boot` or
`BootFails`, then `Undo` (give up) or `Retry` (quarantine), `InstallLinks`,
`Wait`. `Stop`, `StopBackend`, `ReleasePorts` are `stop_inner`; `Drop` releases
the ports and queues the job that `CleanUp` runs. `Cancel` is a future dropped at
an await: what its destructors release is released (the quarantine) and nothing
else, and a boot already asked for may still land (`LateBoot`). Other processes
take and free host ports (`StrangerBinds`, `StrangerLeaves`).

**PortPool** is the abstract specification: a port has one holder, who alone
gives it back. `Lifecycle` implements it with `free = Ports \ issued` and
`held = ports plus quarantine`.

**Reuse** (`start_reuse`, `try_adopt`, `create_and_start_reuse_sandbox`,
`create_fresh_reuse`, `Registry`). Each actor is one call in a process of its
own. The sandbox, the ports and the registry entry a call makes are known by the
call, so that `handle[c] # entry[c]` says "a sandbox with another's ports".
`Clear`, `Forget`, `Probe`, `Evict` are the branches before the create, in their
order. Docker has one container of a name and refuses a second at create; msb's
behaviour for a taken name is taken from `docs/reuse.md` (it starts a second
workload) and from `backend.rs` (it may refuse): both are possible in `Boot`.
Docker's handles are ids; msb's are the shared name, so that `stop`/`remove` of
one handle takes every workload of the name (`RemoveByHandle`). A create on docker
may fail and leave the container (`Create`), a boot may fail with the sandbox up
(`Boot`), and the registry file may stay when it should be deleted (`Forget`,
`Unlink`). What a process had asked a backend for when it died outlives it: docker's
request, or the `msb run`, which is a child that is not killed with its parent
(`Asked`, `LateLands`). A removal that was in flight is taken to have happened before
the crash or not at all.

**Provisioner** (`provisioner.rs`). One action per system call on what the
processes share. `lock` and `age` are the lock directory and the time since its
mtime; `Acquire`, `Evict`, `Retake` are `InstallLock::acquire` with its
takeover, `Unlock` its drop, `Recheck` ... `Install` are `download_and_install`.
A process may die anywhere, or stay where it is past the age of its lock.
`contested` records that a lock was judged abandoned that somebody held or was
taking over, the residual race the doc comment of `InstallLock` describes.

**MsbBoot** (`rightsize-msb/src/backend.rs` with its callers in `container.rs`). One
guard. Every msb invocation is an action. An attempt is `SpawnRun` or
`SpawnRestore`, then `Activates` or `ExitsEarly`, then what `msb ls` shows
(`RunIsUp`, `RunIsOver`, `RunTimesOut`, `RestoreIsUp`, `RestoreDies`), and for a
restore the workload's exec (`Revives`). How an attempt may end is `Classes`; what
each end leads to are `RetryRelay`, `RetryHealed`, `RetryPaused`, `PollLock`,
`LoseAttempt` and, over the candidates of a walk, `NextCandidate`. `Escalated`,
`Launchers` and `late` are the restore broker and the restores it stops waiting for,
which may come up all the same (`Land`). `handles`, `attached`, `started`, `rekey`
are the four tables; `Ckpt*` the cycle of `create_checkpoint`; `Undo*`, `Stop*`,
`Sync*` and `Close` the ends. What msb has under a name after a failure is external:
`Residue` lists what each end may leave.

**Checkpoints** (`checkpoint.rs`, `checkpoint_named`, `Checkpoint::{find, remove,
export_to, import_from}`, the backends' artifact calls). Processes of both
backends over one registry name. A step is one backend call or one access to the
registry file. A call is `Begin`, then per operation a path over `Gate` (the
core's refusals), `Read`, `Drop` (the previous artifact), `Create`, `Probe`,
`Save`, `Load`, `Write`, `Delete`. Docker keeps a named artifact under a tag made
from the name; msb's have a path each. An archive is an artifact and whether its
manifest has a name: `export_to` looks the name up in the registry at that moment,
so that an archive of a named artifact may be unlisted, and importing one moves
docker's tag all the same. `kept` and `expected` are history: what
callers hold and what the registry should say, each given up at the moment the
code's contract allows its loss.

**Docker** (`rightsize-docker/src/backend.rs`, requests of `client.rs`).
Containers of one process against the daemon, one action per request or per
access to the cache of network ids: pull with its one retry, create, `Ensure`,
`List`, `CreateNet`, `Connect`, start, the best-effort stop and remove,
`Network::close`, and `close()` by label. A request may be refused, and one that
is not answered may have taken effect.

**Streams** (`watchdog.rs`, docker's `follow_logs`, `FollowHandle`,
`install_network_links`, `exec_tunnel.rs`). A log is the number of its lines, the
last of which may still be written. Each follower has its threads as program
counters: for the piped one the reader (which counts a line and then hands it
over), the watchdog, the killer and the proxy that takes the reader's
`JoinHandle`. A fetch of `msb logs --tail` shows the last `LogTail` lines (`Before`,
`Shown`), and its reader skips as many of these as were delivered in all, as the code
does. What `msb logs -f` writes may end within a line (`RelayPart`), which the reader
counts and hands over when the pipe ends (`HandPart`). The tunnel worker's loop runs
against the four steps of `ExecTunnel::drop` and `msb stop`; the read error after
which the worker leaves its listener alive (`exec_tunnel.rs:219`) is not among
its steps.

**Specs** (`model.rs`, `commands.rs`, `build_create_body`, `checkpoint.rs`,
`compute_identity`) is what a configuration becomes on every route: `ContainerSpec`
from the builder, `Run`, `Restore` and `CreateBody` the sandbox it gets, `Reduced`
and `FromReduced` the registry entry and back, `FromCheckpoint` the builder it
seeds, `Identity` what reuse hashes.

**Presets** (`rightsize-modules/src/*.rs`, `wait.rs`, `backends.rs`,
`diagnostics.rs` over `Specs`). A preset is a record: its repositories, ports,
default and fixed variables, those its setters push and clear, its wait, what it
tells the server through a customizer, its `post_start`, and the stages the
server in the guest boots through. A behaviour is the life of one container and
then of the one restored from its checkpoint: setters, backend resolution (with
the panic), refusals, attempts with new host ports, the wait, `post_start`, what
the guard reports, stop. The stages of the servers are external; they are those
the modules' own comments describe. The builder's environment is a list that only
grows; `env` keeps, for each variable, the values pushed for it in their order,
which is all that `dedup_env_last_wins` tells apart. A probe of the default
listening-port wait passes for a connection that is held open, which a forwarder
without a server behind it may do: `IsReady` is that the server answers, `LooksReady`
what the probe sees. `Serving` is the server's last stage, or one in which every
port of a wait that asks the server itself is answered (Pinot's controller, whose
broker comes later).

What is abstracted everywhere: names, images and file formats; output and log
text except where a wait reads it; how long anything takes. TCP and UDP ports
are two instances of the same allocator code and one is modelled there; `Specs`
and `Presets` have both. Files are read and written whole: the code renames a
temporary file for the record and the registries, and appends one line at a
time.

## 3. The runs

| run | instance | what it shows |
|---|---|---|
| `ReaperCrash` | processes A (a watchdog, 2 concurrent sandboxes), B (sweeps only, a `keep_alive` sandbox) and C on the other backend; crashes at every step, no other faults | `ListedWhileLive`: a sandbox that exists is in a file a reaper reads. `CleanShutdown`: the last one out deletes the files. `ImplementsOwnership` |
| `ReaperFaults` | 2 processes, 2 sandboxes, 2 Networks, every fault but `ps` | what does not depend on calls succeeding: `RunningIsLive`, `OnlyOwnerRemoves` |
| `ReaperLiveness` | 2 processes, 2 sandboxes, fair reapers | `WatchdogReaps`, `SweepReaps` |
| `Lifecycle` | 3 containers over 2 ports: one wants both, is `keep_alive` and cannot be removed (`Stuck`); two are on one Network; 2 attempts; cancelled futures and invalid specs; strangers that bind and free ports; fair threads | `OnlyStrangersConflict`, `NothingLeftBehind`, `ImplementsPool`, `StartReturns`, `DroppedIsTornDown` |
| `ReuseShared` | 3 calls, on either backend each, 2 attempts, a wait on ports; crashes whose creates and boots land late, failing creates that leave docker's container, exits, removals by hand, failing removals, queries, registry writes and deletions | `FailedLeavesNothing`, `SoleWorkload`, `AdoptsWithItsPorts`, `LoserRemovesNothing` |
| `Provision` | 3 processes; a lock is stale at age 2; a waiter gives up after 1 round; deaths and stalls anywhere; fair polling | `OneInstaller`, `ReadyIsWhole`, `LockIsReleased`, `PollingEnds` |
| `MsbBoot` | one guard: a run, a walk of 2 candidate names, or a plain restore; 2 candidate names per walk, one poll of a busy lock, 2 checkpoints | `Superset`, `Identity`, `DiskSurvives`, `OneSandbox` |
| `Checkpoints` | one docker and two microsandbox processes, one registry name; 4 calls, 2 contents | `Kept`, `LatestWins`, `OnceReal`, `OwnStore` |
| `Docker` | 3 containers, two of them on the network and one kept; at most 2 networks made | `ImagePulled`, `CloseSweeps`, `KeptRuns`, `SameNetwork` |
| `Streams` | each of the three followers, 4 lines, the last of which may be torn, and fetches of 2; beside the polling one, batches of links of both protocols, of one port, and with a bad alias, and 2 connections per worker; fair threads | `OnceInOrder`, `Silent`, `TunnelsFirst`, `AllDelivered` |
| `Presets` | every preset and a plain container, with any two options set; 2 host-port attempts; docker or microsandbox; a checkpoint and the container restored from it | `ReadyMeansServing`, `RunsAsAsked`, `RestoresTheSame`, `Interchangeable` |
| `LineTwice` | the piped follower alone | *violated*: `NoLineTwice` (section 5) |

Every property of a passing run has a mutant in `PROJECT.json`: one definition
of the model with a plausible bug in it (a dropped guard, a missing reset, a
swapped order), which makes TLC find the property violated under the same
configuration.

**Why these bounds show the interesting cases.** Two sandboxes of one process are
what a race of an append with a last stop takes; a second process is what a sweep
takes, and with a third two reapers work on one dead run. Fewer ports than all
containers want make the allocator run dry half way through a request; two attempts
are the fewest that retry. Three calls are what reuse takes for one process's entry,
another's sandbox and a third that adopts both. Three installers
are a holder, a process that takes its lock over and one that takes over the
takeover. A walk needs a name that fails and one that comes up; two checkpoints are
a re-key of a name already re-keyed. Two microsandbox processes race on one registry
and the docker one shares its name but not its store. Three Docker containers are
two that create one network together and one that must survive `close()`. A
`LogTail` of 2 stands for the 1000 lines of a fetch: a log of 4 outgrows it twice
over, with one line counted and one in the reader's hand. Followers and links have
no step in common but the end of the sandbox, so that `MCStreams` has links beside one
kind of follower only; docker has none. A preset with two options has every
interaction of a pair. Every run explores all reachable states of its instance; no
state constraint cuts any off.
What would grow without limit has a bound in a guard: `Attempts`, `WaitLimit`,
`StaleAge`, `Batch`, `LockPolls`, `MaxCheckpoints`, `MaxContent`, `MaxCalls`,
`MaxNets`, `MaxLines`, `LogTail`, `MaxServes`, `Calls`, `Set`.

`CHECK_DEADLOCK FALSE` is set in every run but `MsbBoot`'s, because these systems
may stop: processes die, containers are stopped, calls return. `ReuseShared` uses
symmetry over the calls, which occur only as values.

Each of these modules has one type invariant, `TypeOK` (`ProvisionTypeOK` in
`Provisioner`). The proofs cover it for every instance, so that no run has to.

**History variables** are read by properties only: `raced` and `slipped` in `Reuse`,
and there the value `landed` of `late`; `contested` in `Provisioner`; `kept`,
`expected`, `overlap` and `contested` in `Checkpoints`; `excused` and `disturbed` in
`Docker`; `leaked` in `MsbBoot`. Each says that something happened which the code's
documentation exempts (two calls that overlapped, a removal by hand, an answer that
was lost), so that the property can state precisely what remains promised without
it.

**Fairness.** Assumed, and no more:

* `ReaperLiveness`: a watchdog script that has been started runs on (it waits on
  nothing but its pipe and the commands it calls), and so does a sweep while its process
  is up: `WF` of `WatchdogStep`, `SweepStep`. No program is assumed to start,
  stop or exit anything.
* `Lifecycle`: the cleanup thread runs and an executor polls the futures it was
  given: `WF` of `CleanUp`, `Progress(c)`. `Cancel` is not fair, and strangers
  may grab every port a start tries, for ever.
* `Provision`: time passes (`Tick`) and a process that polls for the lock goes
  on polling. A holder of the lock may hang for ever; `PollingEnds` holds all
  the same, because a waiter gives up.
* `Streams` (`LineTwice` assumes none): each thread that has something to do runs. The
  workload, the guest's clients and the owner of the guard are not assumed to do
  anything.

## 4. The proofs

The eight proof modules have no leaf unproved; they hold for every set of runs,
names, networks, ports, containers, calls, lines and processes, and every bound.
Each inductive invariant was checked by TLC on the run of its module before it
was proved.

* **`ReaperProofs`**: `TypeCorrect`, and in three parts the following.
  *Ownership*: that no sweep or watchdog takes a live process's
  sandbox does not follow from `RunningIsLive` itself, which says nothing of what a
  reaper has already read. `OwnershipInv` adds that a reaper at work has a dead
  target, that a watchdog has the target it was started for, that names read from
  a ledger belong to its run and are not `keep_alive`, and that nothing exists for
  an actor that has not created. `OwnershipInvariant` is its invariance;
  `RunningIsSafe`, `OwnerOnly` and `Refinement` follow. They assume
  `LivenessIsKnown`: the fault `ps` (the start time of a live process cannot be
  read, and it counts as dead) is absent. `Refinement` assumes as well that no
  create lands after its process died.
  *The ledger*: `Superset` (the ledger names every sandbox) from
  `LedgerParts`: an actor has its line from the append to the end of its
  teardown, whoever is between the two steps of the lock has emptied the file,
  and a reaper that has started removing has read every live name of its target.
  It assumes `CallsSucceed`: no failing remove, append or connect, no late
  create. `LastOneOut` is `CleanShutdown`, under every fault of the model (a failing
  rewrite of the ledger's files is none of them), from
  `ShutdownParts`: a record is there only while somebody is past the check that
  wrote it and before the prune.
  *Clocks*: `ReadingBounds` (a reading is within its two truncations of the
  start), from which `SameProcessIsAlive`, `ReusedPidIsDead` and
  `ClockStepKills`. Together they say what `LivenessIsKnown` costs: readings
  within a second of each other's instants and no clock step. The instants a
  reaper compares come from the ledger: `DateRoundTrip` (on every day of all time,
  `days_from_civil` inverts `civil_from_days`, whose month and day are in range),
  from `YearAndDay` and `MonthAndDay`, which also prove the bounds that the code's
  comments give its intermediate values; `LedgerTimeIsExact`, that a second
  written and parsed is the same second; and `CalendarRepeats`, that the dates of
  the era TLC compares with the Gregorian calendar stand for all others.
* **`LifecycleProofs`**: `TypeCorrect`; `PortsInv` (no port has two holders, every
  held port is issued, a port held by a container that has not booted is bound
  by no container of the process), from which `NoSiblingConflicts`, `NoPortTwice`
  and `PoolRefinement`; `LeftInv` (which labels hold no port, no quarantine, no
  sandbox, and that the channel holds dropped guards only), from which
  `LeavesNothing`: only the sandbox of a container in `Stuck` may be left.
* **`ReuseProofs`**: `TypeCorrect`; `LoserIsHarmless` from the set of labels a loser
  can be at; `FailureIsClean` from `FailInv`: `LateInv` (what is still to land, or
  has, was asked for by a call that died or whose create failed), `BareInv` (a call
  that has made nothing yet, or has undone it, has no sandbox but such a one) and
  `EntryInv` (the registry names only calls past their write); `TurnsAreSole` from
  `SoleInv`: calls that take turns come to their create only with the name clear, of
  all but what lands late; `AdoptionIsWhole`, for docker and for calls that take
  turns, with nothing landed late, on either backend, from `AdoptionInv`: one
  workload of the name (on docker because a name has one container, in turns by
  `SoleInv`), and an entry names a call that starts no sandbox any more, so that a
  sandbox found running that is not the entry's means the entry's will not run
  again, and its ports cannot answer.
* **`MsbProofs`**, of `Provisioner`: `ProvisionTypes`; `MutualExclusion` and
  `Released` from `LockInv`, which ties the label of each process to the owner of
  the directory and says of whom else the directory may still be while nothing was
  contested; `MarkerIsLast` and `ReadyIsUsable` from `InstallInv`, which speaks of
  the files only: the binary is moved last, and no step takes the library away.
  Nothing is assumed of the lock, so that the order of the files protects a caller
  even where mutual exclusion is lost. Of `MsbBoot`: `TypeCorrect` with `WalkInv` (a
  walk is over the names minted last; every checkpoint has had a batch of its own)
  and `HeldInv` (what a guard is named after is one of them). `LedgerCovers` from
  `LedgerInv`: a call has each of its candidates on the ledger before the first can
  come up, and until it drops the lines of the batch. `OneName` from `TablesInv`,
  which says of every stage of a walk which entries the tables have, the winner's or
  the one before. `NothingLost` from `DiskInv`: the disk is in the sandbox until a
  snapshot has it, and what has won is there. `AtMostOne` from `LateInv` (whatever
  the broker stopped waiting for was left behind, or is about to be) and `OneInv`
  (besides that, msb has something only under the name the call is at, or the
  guard's).
* **`CheckpointsProofs`**: `TypeCorrect`, with the stage each kind of call can be
  at. `OnlyOwnStore` from `StoreStep` (what leaves a store in a step of a process is of
  its backend). `HandedIsKept` from `IdInv` (an id but docker's tag is of one
  artifact, and two artifacts of one id agree on whether they were named),
  `NameInv` (what is registered, or an archive would register, was made under a
  name), `RivalInv` (two calls under way on one backend are both contested) and
  `KeepInv`: a replacement past its refusals has given up every named artifact of
  its backend but its own, and what a call has brought is there until it is
  registered. `LatestIsNamed` and `EntriesAreReal` from `AloneInv`: without an
  overlap a call works from the entry as it is, and has put aside what it takes.
* **`DockerProofs`**: `TypeCorrect`; `ImageFirst` (an invariant as it stands);
  `KeptSurvives` and `NothingUnswept` from `KeptInv` and `SweepInv` (`close()`
  lists no kept container, and has on its list what it has not removed);
  `OneNetwork` from `NetworkInv`: while nobody has disturbed it, one call looks the
  network up at a time, before there is an id in the cache, and every id that a
  call holds or a container is on is the cached one.
* **`StreamsProofs`**: `TypeCorrect` with `CountInv` (who has a line in hand has
  counted it). `StoppedAfterTunnels` from `TunnelInv`, `ClosedIsSilent` from
  `CloseInv` (when `close()` has returned the threads of a follower have ended).
  `LinesOnceInOrder` from `OrderInv` (the line in hand comes after all that were
  delivered: a later fetch begins no earlier than the last, whatever `LogTail` is),
  `CutInv` (a poller holds a torn line back) and, for the piped follower, `PipedInv`
  and `TimesInv`, which bound how often a line was handed over by the reader's count
  and by where in the log the replay is. `JoinedReader` is the other side of
  `LineTwice` below: where the reader's handle is there for the watchdog to take,
  the comment's promise holds.

* **`PresetsProofs`**: `PresetTypes`, and the four properties of the run from one
  invariant, `IInv`. The presets are a fixed list, so the proof first goes through
  it once: `KnownSound` says of every record, and of what is restored from one, that
  its variables and ports do not get in each other's way (`Named`) and that its wait
  strategy does not hear enough before the server's last stage, or asks for an
  answer of ports one of which is closed before the last stage but one (`Serves`).
  From there on nothing but that is used of a preset. `GuardOfServing` is from
  `StageInv`, which counts the matching lines of the log by the stages the server
  has been through; it says nothing of a container that has the default
  listening-port wait and no `post_start`. `SandboxAsAsked` is from `EnvInv` (the
  wrapper's fields and the last value pushed for a variable agree), `SpecInv` and
  `BoxInv` (the spec is what the customizer makes of the builder, the sandbox what
  the backend makes of the spec, or of the spec a checkpoint rebooted it with).
  `CheckpointRestores` is from `CpInv` and `UserInv`, which carry `Faithful` (a
  checkpoint's spec is what its sandbox ran) from the checkpoint over the registry
  into the builder of the restored container, and `ResumeInv`.
  `OneIdentityOneSandbox` needs of the invariant only what the setters can leave in
  the options. The theorems hold for any number of attempts, of calls and of options
  set at once, from any order of the builder's calls, server's stages, probes and
  crashes.

Proving `Kept` corrected the model: it had taken whether an archive is listed for
whether its artifact was named, so that importing an unlisted archive of docker's
tag was not counted among the calls that may cost a named checkpoint. The
counterexample takes five calls, one more than the run makes; with the correction
TLC finds none in five calls of the three processes, nor in six calls and three contents
of two.

Only model-checked: liveness (`WatchdogReaps`, `SweepReaps`, `StartReturns`,
`DroppedIsTornDown`, `PollingEnds`, `AllDelivered`), which is outside what the
prover supports, as `ENABLED` is; and that the dates of one 400-year era are those of
the Gregorian calendar, which `MCReaper` assumes and TLC evaluates for each of its
days. Every invariant and every action
property of the runs is a theorem.

## 5. The finding, and divergences

**`LineTwice`** (`rightsize-msb/src/watchdog.rs:149`). The watchdog of the piped
log follower is to kill the child, join the reader and only then take the
snapshot it replays from; the module's comment says that this order rules out a
line being delivered twice. The reader's only `JoinHandle` is taken by the proxy
thread that `spawn_follow` starts at once, so the watchdog finds the slot empty,
joins nobody, and may replay a line that the reader has in hand.

### Divergences

Other places met while modelling where the code does something else than a comment
or a page says, or where two paths disagree. They have no run of their own; the
models have the code's behaviour, and where a property would fail for it, the
property says what it exempts.

*Reaping and networks*

* A create that finds the run record just before a concurrent last stop prunes
  it leaves a sandbox whose run has no record; no sweep will find it
  (`reaper/mod.rs:61`, `docs/reaping.md:19`).
* All Networks of a process have one id and one ledger line; closing one un-lists
  the network another still uses (`network.rs:49`, `docs/reaping.md:24`).
* Docker's create can fail after the container exists (connect); the caller takes
  the name off the ledger and removes nothing (docker `backend.rs:561`,
  `ledger.rs:7`).
* A stopped member counts as running for ever and is linked to by later
  containers (`container.rs:2649`, `network.rs:20`).
* `running_names_via` looks at `msb ls`'s output and not at its exit code, so
  that a failing `msb ls` ends a follower while its sandbox runs.

*Start, guard, stop*

* A customizer's invalid spec leaves `start()` past the release of its ports
  (`container.rs:945`, `docs/core-concepts/containers-and-guards.md:65`).
* A wait on a port that is not exposed probes the host's port of that number.
* A dropped guard never drops its exec tunnels; their workers go on.
* Diagnostics deregisters by name: stopping one of two guards on one reused
  sandbox takes both out of the report.
* A panic of a provider inside `active()` poisons the provider list's mutex.

*Reuse*

* Docker's create can fail after the container exists; `start_reuse` returns the error
  and the container keeps the identity's name (docker `backend.rs:533`,
  `container.rs:1637`).
* A name conflict is taken for a create race that another process won, so that nothing
  is removed (`container.rs:1408`, `docs/reuse.md:128`). Docker's create refuses a name
  that any container has, the look for an orphan before it sees running ones only
  (`container.rs:1398`): a reuse container that has stopped makes every later start
  fail, which races with nobody.
* The look for an orphan is to close the gap a crash leaves (`docs/reuse.md:111`). The
  `msb run` of a process that has died goes on (msb `backend.rs:2666`); it may boot
  after the next start has looked, and the identity has two workloads. `SoleWorkload`
  exempts this, and nothing else.
* The loser of a create race on msb removes the winner's sandbox: its handle is
  the shared name. The orphan probe evicts a concurrent creator's sandbox too.

*Provisioner and follower*

* The first downloaded file stays under its temporary name when the download of
  the second fails (`provisioner.rs:319`).
* The piped reader counts the unterminated part of a line at the end of the pipe as a
  line; the replay then skips the whole one (`watchdog.rs:458`).
* Both msb followers fetch with `msb logs --tail 1000` (`commands.rs:548`) and skip as
  many lines of the answer as they have delivered in all (`watchdog.rs:434`, and 232 in
  the replay). Once a log is longer than that, the skip takes lines nobody has had: "one
  final fetch delivers everything outstanding" (`watchdog.rs:325`) fails, with no error
  anywhere. `AllDelivered` is stated for a log that one fetch shows.
* A tunnel whose in-guest pipe fails to be read leaves its worker without killing the
  listener (`exec_tunnel.rs:219`).
* Docker's follow task may call its consumer once more after `close()` returned
  (`rightsize/src/backend.rs:549`).
* `stop` can wait for a tunnel whose listener is published only after the kill.
* Frames are decoded one by one, so that a character split over two frames is
  lost; the line assembler drops empty lines.

*Checkpoints and restores*

* An archive exported after its name was registered anew, or removed, is
  unlisted; importing it on docker re-points the tag of the name without
  touching the registry (docker `backend.rs:963`, `docs/checkpoints.md:413`).
* A workload with no command line fails an msb checkpoint that the comment of the
  cycle says can never fail for that (msb `backend.rs:3547`).
* A container with its network disabled comes back from an msb checkpoint without
  `--net private`.
* Root-disk settings of a restored container are dropped, not rejected
  (`docs/checkpoints.md:129`).
* On docker, a variable removed after `from_checkpoint` stays: it is in the image.
* The wait strategy runs again after the reboot of an msb checkpoint, and a wait
  for the second occurrence of a line meets a log that has one
  (`container.rs:2520`, `docs/checkpoints.md:30`).
* A customizer's variables on an msb restore do not pass the check that forbids
  overriding the snapshot's.
* `exec` and copies use a handle read before a concurrent msb checkpoint renames
  the sandbox.

*Presets*

* The read probe of a listening port takes a connection held open for ready, so as
  to see past a proxy (`wait.rs:148`); `redis.rs:27`, `wait-strategies.md:139` and
  `troubleshooting.md:169` tell that a forwarder holds it before the server is there.
* `active_name()` in `flink.rs:137` runs before any provider is registered and
  panics, where `rightsize-modules/src/lib.rs:24` says that users of the modules
  write no backend wiring.
* A task manager that fails to start leaves Flink's network open.
* A Kafka restored from a checkpoint still advertises its old listeners.

## 6. Plan

Done: the ledger and the reapers with their abstract specification, lifecycle and
ports with theirs, reuse, the provisioner and the clock arithmetic, the microsandbox
boot, restore and checkpoint cycle, the checkpoint registry, the Docker backend,
the log followers and tunnels, the translation of container specs and the presets,
each with proofs.

What would add most from here:

1. An abstract specification of a named checkpoint (one value per name and
   backend, replaced as a whole) which `Checkpoints` implements when calls take
   turns.
2. A composition of `MsbBoot` with `Ledger` and a sweep of another process that
   meets a half-finished walk.
3. The chunked-body and log-frame decoders against a reference, at any boundary
   of the reads.

## 7. Not modelled

* Mounts, error values, the futures helpers, the library roots and the cache
  directory's lookup: values and wiring with no state.
* The bytes of HTTP bodies, chunks and log frames; the datagrams of the UDP
  forwarder and the bytes of an exec tunnel; the text of diagnostics reports: no property
  here tells them apart.
* The handshake bytes of port waits and the composition of several waits:
  `Presets` has which stage of the server satisfies which wait.
* `exec`, `logs` and copy calls: they change nothing that is modelled.
* The Windows variants of the probes and of the watchdog. The restore broker,
  which exists for Windows, is in `MsbBoot`.
* What `msb` and the Docker daemon do inside; each module names what it takes
  them to do, and `PROJECT.json` marks those definitions external.

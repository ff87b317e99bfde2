----------------------------- MODULE Lifecycle -----------------------------
(***************************************************************************)
(* The life of the containers of one process                               *)
(* (crates/rightsize/src/container.rs): concurrent start() calls with      *)
(* their port-bind retries and quarantine, the guard each returns, stop()  *)
(* and drop, the cleanup thread (cleanup.rs), and the links a container is *)
(* given to the earlier members of its Network (network.rs).  One action   *)
(* per lock acquisition or awaited backend call.                           *)
(***************************************************************************)
EXTENDS FreePorts, Sequences, FiniteSets, Naturals

CONSTANTS Wanted,     \* Wanted[c]: how many ports c exposes
          Attempts,   \* PORT_BIND_ATTEMPTS
          Joins,      \* containers that join the one Network
          KeepAlive,  \* containers whose spec a customizer marked keep_alive
          Stuck,      \* containers the backend may fail to remove
          Faults      \* what may go wrong beyond a failing start, FaultKinds

FaultKinds ==
  { "invalid",   \* a spec customizer returns a spec that does not validate
    "cancel" }   \* the future of start() or stop() is dropped

ASSUME LifecycleAssumption ==
  /\ Wanted \in [Containers -> Nat]
  /\ Attempts \in Nat \ {0}
  /\ Joins \subseteq Containers
  /\ KeepAlive \subseteq Containers /\ Stuck \subseteq Containers
  /\ Faults \subseteq FaultKinds
  /\ Stranger # Nobody
  /\ {Stranger, Nobody} \cap Containers = {}

VARIABLES pc,          \* where each container stands
          ports,       \* ports issued to c's current attempt, or to its guard
          quarantine,  \* ConflictQuarantine of c's start()
          tries,       \* attempts left to c's start()
          queue,       \* the channel of the cleanup thread
          members,     \* Network::members: who registered, with which ports
          links        \* the links c's spec was built with

startVars == <<quarantine, tries, members, links>>
vars == <<portVars, pc, ports, queue, startVars>>

PC == { "idle", "allocate", "create", "boot", "undo", "conflict",
        "install", "wait", "running", "stopping", "release",
        "dropped", "kept", "abandoned", "lost", "stopped", "failed",
        "refused" }

TypeOK ==
  /\ PortsTypeOK
  /\ pc \in [Containers -> PC]
  /\ ports \in [Containers -> SUBSET Ports]
  /\ quarantine \in [Containers -> SUBSET Ports]
  /\ tries \in [Containers -> 0..Attempts]
  /\ queue \in Seq(Containers)
  /\ members \subseteq Containers \X SUBSET Ports
  /\ links \in [Containers -> SUBSET (Containers \X Ports)]

Init ==
  /\ PortsInit
  /\ pc = [c \in Containers |-> "idle"]
  /\ ports = [c \in Containers |-> {}]
  /\ quarantine = [c \in Containers |-> {}]
  /\ tries = [c \in Containers |-> Attempts]
  /\ queue = <<>>
  /\ members = {}
  /\ links = [c \in Containers |-> {}]

Goto(c, l) == pc' = [pc EXCEPT ![c] = l]
Set(f, c, S) == [f EXCEPT ![c] = S]

-----------------------------------------------------------------------------
(* Container::start                                                        *)

\* links_for_new_member: every registered member counts as running
\* (GuardMemberSnapshot::is_running)
LinksForNewMember ==
  UNION {{m[1]} \X m[2] : m \in members}

Start(c) ==
  /\ pc[c] = "idle"
  /\ Goto(c, "allocate")
  /\ links' = Set(links, c, IF c \in Joins THEN LinksForNewMember ELSE {})
  /\ UNCHANGED <<portVars, ports, queue, quarantine, tries, members>>

(* create_started_container, one round of the loop                         *)
Allocate(c) ==
  /\ pc[c] = "allocate" /\ Cardinality(ports[c]) < Wanted[c]
  /\ \E p \in Fresh :
       /\ issued' = issued \cup {p}
       /\ ports' = Set(ports, c, ports[c] \cup {p})
  /\ UNCHANGED <<bound, pc, queue, startVars>>

\* Mutant of GiveUp: the quarantine has no destructor
GiveUpQuarantined(c) ==
  /\ issued' = Returned(ports[c])
  /\ ports' = Set(ports, c, {})
  /\ quarantine' = quarantine
  /\ Goto(c, "failed")

\* the end of a start() that failed: its attempt's ports and, as the
\* ConflictQuarantine is dropped, the quarantined ones are released
GiveUp(c) ==
  /\ issued' = Returned(ports[c] \cup quarantine[c])
  /\ ports' = Set(ports, c, {})
  /\ quarantine' = Set(quarantine, c, {})
  /\ Goto(c, "failed")

AllocateFails(c) ==
  /\ pc[c] = "allocate" /\ Cardinality(ports[c]) < Wanted[c]
  /\ Exhausted
  /\ GiveUp(c)
  /\ UNCHANGED <<bound, queue, tries, members, links>>

\* the customizer runs, and the spec it returns is validated again; a spec
\* that does not validate ends the start through "?", past the release of
\* the attempt's ports, which stay issued
Prepare(c) ==
  /\ pc[c] = "allocate" /\ Cardinality(ports[c]) = Wanted[c]
  /\ \/ /\ Goto(c, "create")
        /\ UNCHANGED <<issued, quarantine>>
     \/ /\ "invalid" \in Faults
        /\ Goto(c, "refused")
        /\ issued' = Returned(quarantine[c])
        /\ quarantine' = Set(quarantine, c, {})
  /\ UNCHANGED <<bound, ports, queue, tries, members, links>>

Create(c) ==
  /\ pc[c] = "create"
  /\ \/ Goto(c, "boot") /\ UNCHANGED <<issued, ports, quarantine>>
     \/ GiveUp(c)
  /\ UNCHANGED <<bound, queue, tries, members, links>>

Clash(c) == \E p \in ports[c] : bound[p] # Nobody

BoundBy(c) == [p \in Ports |-> IF p \in ports[c] THEN c ELSE bound[p]]

\* backend.start succeeds: create_started_container returns, its quarantine
\* is dropped, and the guard exists
Boot(c) ==
  /\ pc[c] = "boot" /\ ~Clash(c)
  /\ bound' = BoundBy(c)
  /\ issued' = Returned(quarantine[c])
  /\ quarantine' = Set(quarantine, c, {})
  /\ Goto(c, "install")
  /\ UNCHANGED <<ports, queue, tries, members, links>>

\* it fails, over a port somebody else has bound or for a reason of its own,
\* perhaps with the sandbox half up
BootFails(c) ==
  /\ pc[c] = "boot"
  /\ \/ Clash(c) /\ Goto(c, "conflict") /\ UNCHANGED bound
     \/ ~Clash(c) /\ Goto(c, "undo") /\ bound' \in {bound, BoundBy(c)}
  /\ UNCHANGED <<issued, ports, queue, startVars>>

\* stop and remove on the backend, whose errors are ignored
RemoveSandbox(c) ==
  \/ bound' = Unbound(c)
  \/ c \in Stuck /\ UNCHANGED bound

\* a start that failed for another reason than a port
Undo(c) ==
  /\ pc[c] = "undo"
  /\ RemoveSandbox(c)
  /\ GiveUp(c)
  /\ UNCHANGED <<queue, tries, members, links>>

Quarantine(c) ==
  /\ UNCHANGED issued
  /\ quarantine' = Set(quarantine, c, quarantine[c] \cup ports[c])

\* Mutant of Retry: the ports are released, and the attempts not counted
RetryForever(c) ==
  /\ pc[c] = "conflict"
  /\ RemoveSandbox(c)
  /\ issued' = Returned(ports[c])
  /\ ports' = Set(ports, c, {})
  /\ Goto(c, "allocate")
  /\ UNCHANGED <<queue, tries, quarantine, members, links>>

\* a port-bind conflict: quarantine the ports and go round again
Retry(c) ==
  /\ pc[c] = "conflict" /\ tries[c] > 1
  /\ RemoveSandbox(c)
  /\ Quarantine(c)
  /\ ports' = Set(ports, c, {})
  /\ tries' = Set(tries, c, tries[c] - 1)
  /\ Goto(c, "allocate")
  /\ UNCHANGED <<queue, members, links>>

OutOfAttempts(c) ==
  /\ pc[c] = "conflict" /\ tries[c] = 1
  /\ RemoveSandbox(c)
  /\ GiveUp(c)
  /\ tries' = Set(tries, c, 0)
  /\ UNCHANGED <<queue, members, links>>

\* where stop_inner goes once it has taken the handle
Stopped(c) == IF c \in KeepAlive THEN "kept" ELSE "stopping"

\* link_register_and_wait: the links are installed, then c is registered; if
\* they cannot be, the guard is stopped
InstallLinks(c) ==
  /\ pc[c] = "install"
  /\ \/ /\ Goto(c, "wait")
        /\ members' = IF c \in Joins THEN members \cup {<<c, ports[c]>>}
                      ELSE members
     \/ c \in Joins /\ Goto(c, Stopped(c)) /\ UNCHANGED members
  /\ UNCHANGED <<portVars, ports, queue, quarantine, tries, links>>

\* the wait strategy, then post_start; if either fails the guard is stopped
Wait(c) ==
  /\ pc[c] = "wait"
  /\ \/ Goto(c, "running")
     \/ Goto(c, Stopped(c))
  /\ UNCHANGED <<portVars, ports, queue, startVars>>

-----------------------------------------------------------------------------
(* The guard                                                               *)

\* ContainerGuard::stop
Stop(c) ==
  /\ pc[c] = "running"
  /\ Goto(c, Stopped(c))
  /\ UNCHANGED <<portVars, ports, queue, startVars>>

StopBackend(c) ==
  /\ pc[c] = "stopping"
  /\ RemoveSandbox(c)
  /\ Goto(c, "release")
  /\ UNCHANGED <<issued, ports, queue, startVars>>

\* Mutant of ReleasePorts: the ports of the guard are not cleared
ReleaseOnly(c) ==
  /\ pc[c] = "release"
  /\ issued' = Returned(ports[c])
  /\ Goto(c, "stopped")
  /\ UNCHANGED <<bound, ports, queue, startVars>>

ReleasePorts(c) ==
  /\ pc[c] = "release"
  /\ issued' = Returned(ports[c])
  /\ ports' = Set(ports, c, {})
  /\ Goto(c, "stopped")
  /\ UNCHANGED <<bound, queue, startVars>>

\* Drop releases the ports at once and leaves the sandbox to the cleanup thread
Drop(c) ==
  /\ \/ pc[c] = "running"
     \/ pc[c] \in {"install", "wait"} /\ "cancel" \in Faults
  /\ IF c \in KeepAlive
     THEN /\ Goto(c, "kept")
          /\ UNCHANGED <<issued, ports, queue>>
     ELSE /\ Goto(c, "dropped")
          /\ issued' = Returned(ports[c])
          /\ ports' = Set(ports, c, {})
          /\ queue' = Append(queue, c)
  /\ UNCHANGED <<bound, startVars>>

\* Mutant of CleanUp: the channel is drained for the first of its jobs
CleanUpFirst ==
  /\ queue # <<>>
  /\ LET c == Head(queue) IN RemoveSandbox(c) /\ Goto(c, "stopped")
  /\ queue' = <<>>
  /\ UNCHANGED <<issued, ports, startVars>>

\* the cleanup thread: cleanup_sync of the oldest job
CleanUp ==
  /\ queue # <<>>
  /\ LET c == Head(queue) IN RemoveSandbox(c) /\ Goto(c, "stopped")
  /\ queue' = Tail(queue)
  /\ UNCHANGED <<issued, ports, startVars>>

Awaiting == {"create", "boot", "undo", "conflict", "stopping"}

\* what a backend call in flight may still do when its future is dropped: a
\* boot may yet come (LateBoot), a removal has happened or never will
InFlight(c) ==
  IF pc[c] = "boot" THEN Goto(c, "abandoned") /\ UNCHANGED bound
  ELSE /\ Goto(c, "lost")
       /\ bound' \in (IF pc[c] = "create" THEN {bound} ELSE {bound, Unbound(c)})

\* Mutant of Cancel: what a cancelled start() was issued is released
CancelReleases(c) ==
  /\ "cancel" \in Faults /\ pc[c] \in Awaiting
  /\ InFlight(c)
  /\ issued' = Returned(ports[c] \cup quarantine[c])
  /\ ports' = ports
  /\ quarantine' = Set(quarantine, c, {})
  /\ UNCHANGED <<queue, tries, members, links>>

\* the future is dropped at an await: before there is a guard only the
\* quarantine has a destructor, in stop() the handle is already taken
Cancel(c) ==
  /\ "cancel" \in Faults /\ pc[c] \in Awaiting
  /\ InFlight(c)
  /\ issued' = Returned(quarantine[c])
  /\ quarantine' = Set(quarantine, c, {})
  /\ UNCHANGED <<ports, queue, tries, members, links>>

-----------------------------------------------------------------------------
(* The host                                                                *)

\* the backend completes the boot its abandoned caller had asked for
LateBoot(c) ==
  /\ pc[c] = "abandoned" /\ ~Clash(c)
  /\ bound' = BoundBy(c)
  /\ Goto(c, "lost")
  /\ UNCHANGED <<issued, ports, queue, startVars>>

StrangerBinds(p) ==
  /\ bound[p] = Nobody
  /\ bound' = [bound EXCEPT ![p] = Stranger]
  /\ UNCHANGED <<issued, pc, ports, queue, startVars>>

StrangerLeaves(p) ==
  /\ bound[p] = Stranger
  /\ bound' = [bound EXCEPT ![p] = Nobody]
  /\ UNCHANGED <<issued, pc, ports, queue, startVars>>

-----------------------------------------------------------------------------
\* what an executor that polls start() and stop() brings about
Progress(c) ==
  \/ Allocate(c) \/ AllocateFails(c) \/ Prepare(c) \/ Create(c) \/ Boot(c)
  \/ BootFails(c) \/ Undo(c) \/ Retry(c) \/ OutOfAttempts(c) \/ InstallLinks(c) \/ Wait(c)
  \/ StopBackend(c) \/ ReleasePorts(c)

Next ==
  \/ \E c \in Containers : \/ Start(c) \/ Progress(c)
                           \/ Stop(c) \/ Drop(c) \/ Cancel(c) \/ LateBoot(c)
  \/ CleanUp
  \/ \E p \in Ports : StrangerBinds(p) \/ StrangerLeaves(p)

Spec == Init /\ [][Next]_vars

FairSpec ==
  /\ Spec
  /\ WF_vars(CleanUp)
  /\ \A c \in Containers : WF_vars(Progress(c))

-----------------------------------------------------------------------------
(* Correctness                                                             *)

\* Two containers of one process never get in each other's way: the port a
\* start is about to bind is taken, if at all, by another process, whatever
\* was dropped, cancelled or is still booting (free_ports.rs: "never hand
\* back the same in-process port twice").
OnlyStrangersConflict ==
  \A c \in Containers : pc[c] \in {"create", "boot"} =>
    \A p \in ports[c] : bound[p] \in {Nobody, Stranger}

\* A start never tries again a port that it found taken (ConflictQuarantine).
RetriesElsewhere ==
  \A c \in Containers : ports[c] \cap quarantine[c] = {}

\* docs/core-concepts/containers-and-guards.md: a start that failed, and a
\* guard that was stopped, hold no port and leave no sandbox unless the
\* backend failed to remove it (a start refused over a customizer's spec does
\* leave its ports issued, see Prepare).
NothingLeftBehind ==
  \A c \in Containers : pc[c] \in {"failed", "stopped"} =>
    /\ ports[c] = {} /\ quarantine[c] = {}
    /\ c \notin Stuck => \A p \in Ports : bound[p] # c

\* Every start() returns: the retries are bounded however the other processes
\* of the host take and free ports.
StartReturns ==
  \A c \in Containers :
    pc[c] = "allocate" ~>
      pc[c] \in {"running", "kept", "dropped", "failed", "stopped",
                 "refused", "abandoned", "lost"}

\* The cleanup thread gets to every dropped guard.
DroppedIsTornDown ==
  \A c \in Containers \ Stuck :
    pc[c] = "dropped" ~> \A p \in Ports : bound[p] # c

(* The ports are kept as PortPool says: a port that is not issued is free, *)
(* a container holds those of its attempt or guard and its quarantine.     *)
Pool == INSTANCE PortPool WITH
          free <- Ports \ issued,
          held <- [c \in Containers |-> ports[c] \cup quarantine[c]]

\* No port is issued twice, released by another than its holder, or lost track
\* of, through any interleaving of retries, stops, drops and cancellations.
ImplementsPool == Pool!Spec
=============================================================================

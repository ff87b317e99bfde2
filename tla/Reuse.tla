------------------------------- MODULE Reuse -------------------------------
(***************************************************************************)
(* Container reuse (crates/rightsize/src/reuse.rs and start_reuse in       *)
(* container.rs): the start() calls that processes of one host make for    *)
(* containers of one identity.  They share the registry file of that       *)
(* identity and, per backend, the sandbox name rz-reuse-<hash>; nothing    *)
(* else orders them.  One action per file operation or backend call.       *)
(*                                                                         *)
(* The sandbox a call creates is known by the call, and so are the host    *)
(* ports it was given and the registry entry that records them.            *)
(***************************************************************************)
EXTENDS Naturals

CONSTANTS Calls,     \* the start() calls, each of a process of its own
          None,      \* no registry file, no sandbox
          Garbage,   \* a registry file that does not parse
          Attempts,  \* PORT_BIND_ATTEMPTS
          WaitsOn,   \* what the wait strategy looks at: "ports" or "logs"
          Faults     \* see FaultKinds

FaultKinds ==
  { "remove",  \* a backend stop/remove fails, the sandbox stays
    "list",    \* find_running fails
    "io",      \* the registry file cannot be written or deleted
    "hand" }   \* somebody removes the sandbox or the file by hand

Backends == {"docker", "microsandbox"}

ASSUME ReuseAssumption ==
  /\ Attempts \in Nat \ {0}
  /\ WaitsOn \in {"ports", "logs"}
  /\ Faults \subseteq FaultKinds
  /\ None # Garbage
  /\ {None, Garbage} \cap Calls = {}

VARIABLES backendOf,  \* the backend the process of a call resolved
          box,        \* the sandbox of a call: "none", "down" or "up"
          registry,   \* the registry file
          pc,         \* where each call stands
          entry,      \* the registry entry a call goes by
          handle,     \* the sandbox a call has found or made
          tries,      \* attempts left to bind ports
          lost,       \* calls whose create met a name conflict
          late,       \* what a call has asked a backend for and left behind
          raced,      \* whether two calls have overlapped (history)
          slipped     \* whether a removal or a query has failed (history)

locals == <<entry, handle, tries>>
callVars == <<pc, locals, lost, late, raced, slipped>>
vars == <<backendOf, box, registry, callVars>>

PC == { "idle", "read", "find", "verify", "clear", "forget", "probe", "evict",
        "create", "boot", "undo", "rebind", "wait", "write", "hook", "unhook",
        "unlink", "guard", "failed", "over" }
InProgress == PC \ {"idle", "guard", "failed", "over"}

TypeOK ==
  /\ backendOf \in [Calls -> Backends]
  /\ box \in [Calls -> {"none", "down", "up"}]
  /\ registry \in Calls \cup {None, Garbage}
  /\ pc \in [Calls -> PC]
  /\ entry \in [Calls -> Calls \cup {None}]
  /\ handle \in [Calls -> Calls \cup {None}]
  /\ tries \in [Calls -> 0..Attempts]
  /\ lost \subseteq Calls
  /\ late \in [Calls -> {"no", "create", "boot", "landed"}]
  /\ {raced, slipped} \subseteq BOOLEAN

\* the file of an earlier release, or one edited by hand, may be there
Init ==
  /\ backendOf \in [Calls -> Backends]
  /\ box = [c \in Calls |-> "none"]
  /\ registry \in {None, Garbage}
  /\ pc = [c \in Calls |-> "idle"]
  /\ entry = [c \in Calls |-> None]
  /\ handle = [c \in Calls |-> None]
  /\ tries = [c \in Calls |-> Attempts]
  /\ lost = {}
  /\ late = [c \in Calls |-> "no"]
  /\ raced = FALSE
  /\ slipped = FALSE

Goto(c, l) == pc' = [pc EXCEPT ![c] = l]
Set(f, c, x) == [f EXCEPT ![c] = x]

\* the call has returned or its process has died, or try_adopt has returned
Forgets(c) == entry' = Set(entry, c, None) /\ handle' = Set(handle, c, None)
End(c, l) == Goto(c, l) /\ Forgets(c) /\ tries' = Set(tries, c, Attempts)

-----------------------------------------------------------------------------
(* The backends                                                            *)

\* docker has one container of a name; msb may refuse a second, or start a
\* second workload under the name (docs/reuse.md)
UniqueNames(c) == backendOf[c] = "docker"
Namesakes(c) == {d \in Calls : backendOf[d] = backendOf[c]}
Running(c) == {d \in Namesakes(c) : box[d] = "up"}

\* find_running comes back empty: nothing runs under the name, or the query
\* failed
NoneListed(c) ==
  \/ Running(c) = {} /\ UNCHANGED slipped
  \/ "list" \in Faults /\ slipped' = TRUE

NameTaken(c) == \E d \in Namesakes(c) : box[d] # "none"

Gone(S) == [d \in Calls |-> IF d \in S THEN "none" ELSE box[d]]
Removed(S) ==
  \/ box' = Gone(S) /\ UNCHANGED slipped
  \/ "remove" \in Faults /\ UNCHANGED box /\ slipped' = TRUE

\* remove_by_name, whatever state the sandbox is in
RemoveByName(c) == Removed(Namesakes(c))

\* stop and remove on the handle: docker's is an id, msb's the name
RemoveByHandle(c) == Removed(IF UniqueNames(c) THEN {c} ELSE Namesakes(c))

-----------------------------------------------------------------------------
(* start_reuse: the registry                                               *)

\* the call begins
Lookup(c) ==
  /\ pc[c] = "idle"
  /\ Goto(c, IF registry = None THEN "probe" ELSE "read")
  /\ raced' = (raced \/ \E d \in Calls : pc[d] \in InProgress)
  /\ UNCHANGED <<backendOf, box, registry, locals, lost, late, slipped>>

\* Mutant of NotAdopted: the loser of a create race clears the way too
NotAdoptedRetries(c) == Goto(c, "clear") /\ Forgets(c)

\* a call that cannot adopt clears the way for a create of its own, unless
\* its create has already met a name conflict
NotAdopted(c) ==
  Forgets(c) /\ Goto(c, IF c \in lost THEN "failed" ELSE "clear")

\* the file may have gone since Lookup
Read(c) ==
  /\ pc[c] = "read"
  /\ IF registry \in Calls
     THEN /\ Goto(c, "find")
          /\ entry' = Set(entry, c, registry)
          /\ UNCHANGED handle
     ELSE NotAdopted(c)
  /\ UNCHANGED <<backendOf, box, registry, tries, lost, late, raced, slipped>>

\* try_adopt: ask the backend for a running sandbox of the name...
Find(c) ==
  /\ pc[c] = "find"
  /\ \/ /\ \E d \in Running(c) : Goto(c, "verify") /\ handle' = Set(handle, c, d)
        /\ UNCHANGED <<entry, slipped>>
     \/ NoneListed(c) /\ NotAdopted(c)
  /\ UNCHANGED <<backendOf, box, registry, tries, lost, late, raced>>

\* ...and run the wait strategy against the ports of the entry, or against
\* the logs of the sandbox found
Answering(c) == box[IF WaitsOn = "ports" THEN entry[c] ELSE handle[c]] = "up"

\* Mutant of Verify: running is taken for ready
VerifyNothing(c) ==
  /\ pc[c] = "verify"
  /\ Goto(c, "guard")
  /\ UNCHANGED <<backendOf, box, registry, locals, lost, late, raced, slipped>>

\* a wait may time out on a sandbox that is only slow
Verify(c) ==
  /\ pc[c] = "verify"
  /\ \/ Answering(c) /\ Goto(c, "guard") /\ UNCHANGED <<entry, handle>>
     \/ NotAdopted(c)
  /\ UNCHANGED <<backendOf, box, registry, tries, lost, late, raced, slipped>>

Clear(c) ==
  /\ pc[c] = "clear"
  /\ RemoveByName(c)
  /\ Goto(c, "forget")
  /\ UNCHANGED <<backendOf, registry, locals, lost, late, raced>>

Forget(c) ==
  /\ pc[c] = "forget"
  /\ registry' = None \/ ("io" \in Faults /\ UNCHANGED registry)
  /\ Goto(c, "probe")
  /\ UNCHANGED <<backendOf, box, locals, lost, late, raced, slipped>>

-----------------------------------------------------------------------------
(* start_reuse: the orphan of a crash, then a fresh create                 *)

\* Mutant of Probe: no look for an orphan
ProbeNothing(c) ==
  /\ pc[c] = "probe"
  /\ Goto(c, "create")
  /\ UNCHANGED <<backendOf, box, registry, locals, lost, late, raced, slipped>>

Probe(c) ==
  /\ pc[c] = "probe"
  /\ \/ Running(c) # {} /\ Goto(c, "evict") /\ UNCHANGED slipped
     \/ NoneListed(c) /\ Goto(c, "create")
  /\ UNCHANGED <<backendOf, box, registry, locals, lost, late, raced>>

Evict(c) ==
  /\ pc[c] = "evict"
  /\ RemoveByName(c)
  /\ Goto(c, "create")
  /\ UNCHANGED <<backendOf, registry, locals, lost, late, raced>>

\* the loop over the attempts is over
Settled(c) == tries' = Set(tries, c, Attempts)

Made(c, state) == box' = Set(box, c, state) /\ UNCHANGED lost
NameConflict(c) == NameTaken(c) /\ lost' = lost \cup {c} /\ UNCHANGED box

\* create_and_start_reuse_sandbox.  No port is free, the spec is invalid or
\* the backend refuses; or docker's create fails although the container is
\* there, or will be (its answer is lost, its network is not joined); or
\* another call's sandbox has the name; or docker makes the container (msb
\* only registers it)
Create(c) ==
  /\ pc[c] = "create"
  /\ \/ /\ Goto(c, "failed") /\ Settled(c) /\ UNCHANGED <<box, lost>>
        /\ \/ UNCHANGED late
           \/ UniqueNames(c) /\ late' = Set(late, c, "create")
     \/ /\ UniqueNames(c) /\ NameConflict(c)
        /\ Goto(c, "read") /\ Settled(c) /\ UNCHANGED late
     \/ /\ IF UniqueNames(c) THEN ~NameTaken(c) /\ Made(c, "down")
                             ELSE UNCHANGED <<box, lost>>
        /\ Goto(c, "boot") /\ UNCHANGED <<tries, late>>
  /\ UNCHANGED <<backendOf, registry, entry, handle, raced, slipped>>

\* somebody may have removed docker's container since
Bootable(c) == UniqueNames(c) => box[c] = "down"

\* msb's boot may meet the name conflict; either's may fail with the sandbox up
Boot(c) ==
  /\ pc[c] = "boot"
  /\ \/ Bootable(c) /\ Goto(c, "wait") /\ Settled(c) /\ Made(c, "up")
     \/ ~UniqueNames(c) /\ NameConflict(c) /\ Goto(c, "undo") /\ Settled(c)
     \/ /\ \/ Goto(c, "undo") /\ Settled(c)
           \/ Goto(c, "rebind") /\ UNCHANGED tries
        /\ UNCHANGED <<box, lost>> \/ (Bootable(c) /\ Made(c, "up"))
  /\ UNCHANGED <<backendOf, registry, entry, handle, late, raced, slipped>>

\* stop and remove whatever the error; a name conflict is then looked into
Undo(c) ==
  /\ pc[c] = "undo"
  /\ RemoveByHandle(c)
  /\ Goto(c, IF c \in lost THEN "read" ELSE "failed")
  /\ UNCHANGED <<backendOf, registry, locals, lost, late, raced>>

Rebind(c) ==
  /\ pc[c] = "rebind"
  /\ RemoveByHandle(c)
  /\ IF tries[c] > 1
     THEN /\ Goto(c, "create") /\ tries' = Set(tries, c, tries[c] - 1)
          /\ UNCHANGED <<entry, handle>>
     ELSE End(c, "failed")
  /\ UNCHANGED <<backendOf, registry, lost, late, raced>>

\* create_fresh_reuse
Wait(c) ==
  /\ pc[c] = "wait"
  /\ \/ box[c] = "up" /\ Goto(c, "write")
     \/ Goto(c, "undo")
  /\ UNCHANGED <<backendOf, box, registry, locals, lost, late, raced, slipped>>

Write(c) ==
  /\ pc[c] = "write"
  /\ \/ registry' = c
     \/ "io" \in Faults /\ UNCHANGED registry
  /\ Goto(c, "hook")
  /\ entry' = Set(entry, c, c) /\ handle' = Set(handle, c, c)
  /\ UNCHANGED <<backendOf, box, tries, lost, late, raced, slipped>>

\* Mutant of Hook: on failure the keep_alive guard is stopped, which leaves
\* the sandbox running
HookStopsGuard(c) ==
  /\ pc[c] = "hook"
  /\ Goto(c, "guard") \/ Goto(c, "failed")
  /\ UNCHANGED <<backendOf, box, registry, locals, lost, late, raced, slipped>>

\* post_start
Hook(c) ==
  /\ pc[c] = "hook"
  /\ Goto(c, "guard") \/ Goto(c, "unhook")
  /\ UNCHANGED <<backendOf, box, registry, locals, lost, late, raced, slipped>>

Unhook(c) ==
  /\ pc[c] = "unhook"
  /\ RemoveByHandle(c)
  /\ Goto(c, "unlink")
  /\ UNCHANGED <<backendOf, registry, locals, lost, late, raced>>

Unlink(c) ==
  /\ pc[c] = "unlink"
  /\ \/ registry' = None /\ UNCHANGED slipped
     \/ "io" \in Faults /\ UNCHANGED registry /\ slipped' = TRUE
  /\ End(c, "failed")
  /\ UNCHANGED <<backendOf, box, lost, late, raced>>

-----------------------------------------------------------------------------
(* The guard, and what goes wrong                                          *)

\* stop() or drop: only the guard's own books are cleared
Stop(c) ==
  /\ pc[c] = "guard"
  /\ End(c, "over")
  /\ UNCHANGED <<backendOf, box, registry, lost, late, raced, slipped>>

\* what lives on without the process: a request that docker has, an msb run
Asked(c) == pc[c] = "boot" \/ (pc[c] = "create" /\ UniqueNames(c))

\* the process ends, or drops its start(); nothing of the reuse is undone
Crash(c) ==
  /\ pc[c] \in InProgress \cup {"guard"}
  /\ late' = IF Asked(c) THEN Set(late, c, pc[c]) ELSE late
  /\ End(c, "over")
  /\ UNCHANGED <<backendOf, box, registry, lost, raced, slipped>>

\* ...and is done, whenever that is, or never
LateLands(c) ==
  /\ \/ late[c] = "create" /\ ~NameTaken(c) /\ box' = Set(box, c, "down")
     \/ late[c] = "boot" /\ Bootable(c) /\ box' = Set(box, c, "up")
  /\ late' = Set(late, c, "landed")
  /\ UNCHANGED <<backendOf, registry, pc, locals, lost, raced, slipped>>

\* the workload ends
Exit(c) ==
  /\ box[c] = "up"
  /\ box' = Set(box, c, "down")
  /\ UNCHANGED <<backendOf, registry, callVars>>

\* docs/reuse.md: clean up with the backend's tooling, or delete the file
ByHand ==
  /\ "hand" \in Faults
  /\ \/ registry' = None /\ UNCHANGED box
     \/ \E c \in Calls : box' = Gone(Namesakes(c)) /\ UNCHANGED registry
  /\ UNCHANGED <<backendOf, callVars>>

Next ==
  \/ \E c \in Calls :
       \/ Lookup(c) \/ Read(c) \/ Find(c) \/ Verify(c)
       \/ Clear(c) \/ Forget(c) \/ Probe(c) \/ Evict(c)
       \/ Create(c) \/ Boot(c) \/ Undo(c) \/ Rebind(c)
       \/ Wait(c) \/ Write(c) \/ Hook(c) \/ Unhook(c) \/ Unlink(c)
       \/ Stop(c) \/ Crash(c) \/ LateLands(c) \/ Exit(c)
  \/ ByHand

Spec == Init /\ [][Next]_vars

-----------------------------------------------------------------------------
(* Correctness                                                             *)

OneBackend == \A c, d \in Calls : backendOf[c] = backendOf[d]

Landed == {c \in Calls : late[c] = "landed"}

\* A start that failed leaves no entry for a sandbox of its own and nothing
\* that runs (create_fresh_reuse: a keep_alive sandbox nobody points to "is an
\* actual leak"), and no sandbox at all unless docker made it in a create that
\* failed; as long as removals succeed.
FailedLeavesNothing ==
  ~slipped =>
    \A c \in Calls : pc[c] = "failed" =>
      /\ registry # c
      /\ box[c] # "up"
      /\ late[c] = "no" => box[c] = "none"

\* docs/reuse.md, "Crash-mid-boot orphan recovery": starts that do not overlap
\* never run two workloads under the identity's name, whatever exited or was
\* removed in between and wherever an earlier start died, unless what that one
\* had asked for comes up after the next one has looked.
SoleWorkload ==
  ~raced /\ ~slipped =>
    \A c, d \in Calls \ Landed :
      box[c] = "up" /\ box[d] = "up" /\ backendOf[c] = backendOf[d] => c = d

\* A guard's mapped ports are those of the sandbox its handle names: adoption
\* checks the sandbox by name and the ports by the registry, at two moments.
PortsOfTheSandbox(c) == pc[c] = "guard" => handle[c] = entry[c]

\* nothing has come between the calls
Undisturbed == ~raced /\ ~slipped /\ Landed = {}

\* The processes of a host that use docker, or that use one backend and do
\* not overlap, adopt a sandbox together with its own ports.
AdoptsWithItsPorts ==
  /\ WaitsOn = "ports" /\ OneBackend
  /\ (\A c \in Calls : UniqueNames(c)) \/ Undisturbed
  => \A c \in Calls : PortsOfTheSandbox(c)

\* A call that lost the create race removes nothing from then on (start_reuse:
\* "do NOT best-effort-remove anything here"), where create reports the
\* conflict, as docker's does.
LoserRemovesNothing ==
  [][\A c \in lost : UniqueNames(c) /\ pc'[c] # pc[c] =>
       \A d \in Calls : box'[d] = box[d]]_vars
=============================================================================

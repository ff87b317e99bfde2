---------------------------- MODULE Checkpoints ----------------------------
(***************************************************************************)
(* Named and unnamed checkpoints (container.rs: checkpoint, checkpoint_named*)
(* and the find, remove, export_to and import_from of Checkpoint; the      *)
(* registry files of checkpoint.rs) over the artifact stores of the two    *)
(* backends.  Processes share the cache directory and the stores; a step   *)
(* is one backend call or one access to the registry file of the one name. *)
(*                                                                         *)
(* An artifact is a record: docker keeps a named one under a tag made from *)
(* the name, which the next commit or load points elsewhere; msb gives     *)
(* every snapshot a path of its own, and loads content-addressed.          *)
(***************************************************************************)
EXTENDS Naturals, FiniteSets

CONSTANTS Procs, Docker,   \* the processes; those on the docker backend
          MaxContent,      \* bound: checkpoints taken
          MaxCalls         \* bound: calls made

ASSUME CheckpointsAssumption ==
  Docker \subseteq Procs /\ MaxContent \in Nat /\ MaxCalls \in Nat

Active(p) == IF p \in Docker THEN "docker" ELSE "microsandbox"

VARIABLES
  entry,       \* the registry file, a set of at most one entry
  store,       \* the artifacts of both backends
  archives,    \* files written by export_to: an artifact, and whether the
               \* manifest has the name, which import_from then registers
  held,        \* Checkpoint values that calls have returned
  pc, call,    \* per process: where it stands, and its locals
  taken, calls,           \* contents made; calls begun
  kept, expected, overlap, contested \* history: see the properties

vars == <<entry, store, archives, held, pc, call, taken, calls, kept,
          expected, overlap, contested>>
history == <<kept, expected, overlap, contested>>

Tag == 0     \* the id of docker's tag for the name
Artifact == [backend : {"docker", "microsandbox"}, id : 0..MaxContent,
             content : 0..MaxContent, named : BOOLEAN]
Archive == [artifact : Artifact, listed : BOOLEAN]
None == [backend |-> "docker", id |-> 0, content |-> 0, named |-> FALSE]

Ops == {"checkpoint", "named", "find", "remove", "export", "import"}
Idle == [op |-> "find", doomed |-> FALSE, arg |-> None, listed |-> FALSE,
         seen |-> {}]

TypeOK ==
  /\ entry \subseteq Artifact /\ Cardinality(entry) <= 1
  /\ store \subseteq Artifact /\ archives \subseteq Archive
  /\ held \subseteq Artifact
  /\ pc \in [Procs -> {"idle", "gate", "read", "drop", "create", "probe",
                       "save", "load", "write", "delete", "dead"}]
  /\ call \in [Procs -> [op : Ops, doomed : BOOLEAN, arg : Artifact,
                         listed : BOOLEAN, seen : SUBSET Artifact]]
  /\ taken \in 0..MaxContent /\ calls \in 0..MaxCalls

Init ==
  /\ entry = {} /\ store = {} /\ archives = {} /\ held = {}
  /\ pc = [p \in Procs |-> "idle"] /\ call = [p \in Procs |-> Idle]
  /\ taken = 0 /\ calls = 0
  /\ kept = {} /\ expected = {} /\ overlap = FALSE /\ contested = {}

Same(a, b) == a.backend = b.backend /\ a.id = b.id
Without(a) == {x \in store : ~Same(x, a)}
Has(a) == \E x \in store : Same(x, a)
Goto(p, where) == pc' = [pc EXCEPT ![p] = where]
Return(p) == Goto(p, "idle")
Lets(p, field, v) == call' = [call EXCEPT ![p][field] = v]

-----------------------------------------------------------------------------
(* History                                                                 *)

\* what a replacing or removing call on backend b may cost: the named
\* artifacts there, but not exactly what it brings itself
Threatened(b, brings) ==
  {k \in kept : k.backend = b /\ k.named /\ k # brings}

\* the value a call hands to its caller: kept from now on, unless the call
\* has overlapped another one on the name and the backend
Adds(p, a) == IF a.named /\ p \in contested THEN {} ELSE {a}

Hands(p, a) == held' = held \cup {a} /\ kept' = kept \cup Adds(p, a)

-----------------------------------------------------------------------------
(* Calls begin                                                             *)

\* a refusal by ensure_checkpoint_target_survives_a_stop or
\* ensure_checkpoint_copied_files_exist is decided by the container
Begin(p) ==
  /\ pc[p] = "idle" /\ calls < MaxCalls
  /\ calls' = calls + 1
  /\ \E op \in Ops, doomed \in BOOLEAN, listed \in BOOLEAN,
        arg \in {None} \cup held \cup {z.artifact : z \in archives} :
       /\ doomed => op \in {"checkpoint", "named"}
       /\ op = "export" => arg \in held
       /\ op = "import" => [artifact |-> arg, listed |-> listed] \in archives
       /\ op # "import" => ~listed
       /\ op \notin {"export", "import"} => arg = None
       /\ op \in {"checkpoint", "named"} => taken < MaxContent
       /\ call' = [call EXCEPT ![p] =
            [op |-> op, doomed |-> doomed, arg |-> arg, listed |-> listed,
             seen |-> {}]]
       /\ \/ op \in {"checkpoint", "named"} /\ Goto(p, "gate")
          \/ op \in {"find", "remove"} /\ Goto(p, "read")
          \/ op = "export" /\ Goto(p, "probe")
          \/ op = "import" /\ Goto(p, "load")
       /\ kept' = IF op = "remove" THEN kept \ Threatened(Active(p), None)
                  ELSE kept
       /\ expected' = IF op = "remove" THEN {} ELSE expected
  /\ LET busy == {q \in Procs \ {p} : pc[q] \notin {"idle", "dead"}}
         rivals == {q \in busy : Active(q) = Active(p)}
     IN /\ overlap' = (overlap \/ busy # {})
        /\ contested' = IF rivals = {} THEN contested \ {p}
                        ELSE contested \cup rivals \cup {p}
  /\ UNCHANGED <<entry, store, archives, held, taken>>

\* the expected entry is at risk once a same-backend replacement goes ahead
AtRisk(p, brings) ==
  {e \in expected : e.backend = Active(p) /\ ~Same(e, brings)}

Passes(p) ==
  /\ IF call[p].op = "named"
     THEN /\ kept' = kept \ Threatened(Active(p), None)
          /\ expected' = {e \in expected : e.backend # Active(p)}
          /\ Goto(p, "read")
     ELSE Goto(p, "create") /\ UNCHANGED <<kept, expected>>

\* only msb's checkpoint stops the guest, and loses a root in memory or a
\* copied file whose host file is gone
Refuses(p) == call[p].doomed /\ Active(p) = "microsandbox"

\* Mutant of Gate: the refusal is left to the backend's own check
GateLate(p) ==
  /\ pc[p] = "gate"
  /\ IF Refuses(p)
     THEN Goto(p, IF call[p].op = "named" THEN "read" ELSE "create")
          /\ UNCHANGED <<kept, expected>>
     ELSE Passes(p)
  /\ UNCHANGED <<entry, store, archives, held, call, taken, calls, overlap, contested>>

\* the core's own checks, before anything is replaced
Gate(p) ==
  /\ pc[p] = "gate"
  /\ IF Refuses(p)
     THEN Return(p) /\ UNCHANGED <<kept, expected>>
     ELSE Passes(p)
  /\ UNCHANGED <<entry, store, archives, held, call, taken, calls, overlap, contested>>

-----------------------------------------------------------------------------
(* The registry file                                                       *)

\* Registry::read, at the start of find and remove and before a replacement
Read(p) ==
  /\ pc[p] = "read"
  /\ Lets(p, "seen", entry)
  /\ LET own == \A e \in entry : e.backend = Active(p) IN
       \/ call[p].op # "find" /\ Goto(p, "drop")
       \/ call[p].op = "find" /\ entry = {} /\ Goto(p, "delete")
       \/ call[p].op = "find" /\ entry # {} /\ own /\ Goto(p, "probe")
       \/ call[p].op = "find" /\ ~own /\ Return(p)
  /\ expected' = IF call[p].op = "import"
                 THEN expected \ AtRisk(p, call[p].arg) ELSE expected
  /\ UNCHANGED <<entry, store, archives, held, taken, calls, kept, overlap,
                 contested>>

After(p) ==
  CASE call[p].op = "named" -> "create" [] call[p].op = "remove" -> "delete"
    [] call[p].op = "import" -> "write"

\* Mutant of Drop: whichever backend made the artifact
DropAnyBackend(p) ==
  /\ pc[p] = "drop"
  /\ store' \in {store} \cup {Without(e) : e \in call[p].seen}
  /\ Goto(p, After(p))
  /\ UNCHANGED <<entry, archives, held, call, taken, calls, history>>

\* the previous artifact, if this backend made it and, for an import, if it
\* is not the one just loaded; the removal may fail, which nobody looks at
Drop(p) ==
  /\ pc[p] = "drop"
  /\ LET gone == {e \in call[p].seen :
                    /\ e.backend = Active(p)
                    /\ call[p].op = "import" => ~Same(e, call[p].arg)}
     IN store' \in {store} \cup {Without(e) : e \in gone}
  /\ Goto(p, After(p))
  /\ UNCHANGED <<entry, archives, held, call, taken, calls, history>>

\* write_atomic: a rename; or it fails
Write(p) ==
  /\ pc[p] = "write"
  /\ \/ entry' = {call[p].arg} /\ expected' = {call[p].arg}
        /\ Hands(p, call[p].arg)
     \/ UNCHANGED <<entry, expected, held, kept>>
  /\ Return(p)
  /\ UNCHANGED <<store, archives, call, taken, calls, overlap, contested>>

Delete(p) ==
  /\ pc[p] = "delete"
  /\ entry' = {}
  /\ Return(p)
  /\ UNCHANGED <<store, archives, held, call, taken, calls, history>>

-----------------------------------------------------------------------------
(* Backend calls                                                           *)

Content == taken + 1

\* docker's tag is made from the name; msb mints a hint, and prints the path
\* that is the ref
Ref(p) == IF call[p].op = "named" /\ p \in Docker THEN Tag ELSE Content

Makes(p) == [ backend |-> Active(p), id |-> Ref(p), content |-> Content,
              named |-> call[p].op = "named" ]

\* Mutant of Create: the registry is written although the backend failed
CreateUnchecked(p) ==
  /\ pc[p] = "create"
  /\ Lets(p, "arg", Makes(p))
  /\ taken' = taken + 1
  /\ \/ store' = Without(Makes(p)) \cup {Makes(p)}
     \/ UNCHANGED store
  /\ IF call[p].op = "named"
     THEN Goto(p, "write") /\ UNCHANGED <<held, kept>>
     ELSE Return(p) /\ Hands(p, Makes(p))
  /\ UNCHANGED <<entry, archives, calls, expected, overlap,
                 contested>>

\* create_checkpoint, and on msb the relink and the wait after it
Create(p) ==
  /\ pc[p] = "create"
  /\ IF ~Refuses(p) /\ taken < MaxContent
     THEN \/ /\ store' = Without(Makes(p)) \cup {Makes(p)}
             /\ taken' = taken + 1
             /\ \/ call[p].op = "named" /\ Goto(p, "write")
                   /\ Lets(p, "arg", Makes(p)) /\ UNCHANGED <<held, kept>>
                \/ call[p].op # "named" /\ Return(p) /\ Hands(p, Makes(p))
                   /\ UNCHANGED call
                \/ p \notin Docker /\ Return(p) /\ UNCHANGED <<call, held, kept>>
          \/ Return(p) /\ UNCHANGED <<store, taken, call, held, kept>>
     ELSE Return(p) /\ UNCHANGED <<store, taken, call, held, kept>>
  /\ UNCHANGED <<entry, archives, calls, expected, overlap,
                 contested>>

\* Mutant of Probe: a probe that fails counts as an artifact that is gone
ProbeFailsStale(p) ==
  /\ pc[p] = "probe" /\ call[p].op = "find"
  /\ Goto(p, "delete")
  /\ UNCHANGED <<entry, store, archives, held, call, taken, calls, history>>

\* the daemon may answer neither 200 nor 404; msb's path is looked at directly
ProbeErrs(p) == p \in Docker

\* has_checkpoint, for find and for export_to: yes, no, or an error
Probe(p) ==
  /\ pc[p] = "probe"
  /\ IF call[p].op = "find"
     THEN \/ /\ \E e \in call[p].seen : Has(e)
             /\ Return(p) /\ held' = held \cup call[p].seen
          \/ ~(\E e \in call[p].seen : Has(e)) /\ Goto(p, "delete")
             /\ UNCHANGED held
          \/ ProbeErrs(p) /\ Return(p) /\ UNCHANGED held
     ELSE LET there == call[p].arg.backend = Active(p) /\ Has(call[p].arg)
          IN /\ \/ there /\ Goto(p, "save")
                \/ (~there \/ ProbeErrs(p)) /\ Return(p)
             /\ UNCHANGED held
  /\ UNCHANGED <<entry, store, archives, call, taken, calls, history>>

\* find_registered_name: a Checkpoint does not carry its own name
Registered(a) == \E e \in entry : Same(e, a)

\* the manifest and the payload, in one tar
Archived(a) == [artifact |-> a, listed |-> Registered(a)]

\* on Windows msb cannot sync the archive it has written in full, and leaves
\* it under a staging name
Salvaged(p, end) == p \notin Docker /\ end = "unsynced"

Exports(p, end) == end = "saved" \/ Salvaged(p, end)

\* export_checkpoint, find_registered_name, the manifest and the tar; the
\* archive gets whatever the ref holds by now
Save(p) ==
  /\ pc[p] = "save"
  /\ \E end \in {"saved", "unsynced", "failed"} :
       LET saved == {a \in store : Same(a, call[p].arg)} IN
       archives' = IF Exports(p, end) THEN archives \cup {Archived(a) : a \in saved}
                   ELSE archives
  /\ Return(p)
  /\ UNCHANGED <<entry, store, held, call, taken, calls, history>>

\* the archive is a tar with a manifest that names this backend
Readable(p, a) == a.backend = Active(p)

\* docker load points the tag at what the archive holds
Tagged(a) == Without(a) \cup {a}

\* msb snapshot load unpacks the artifact, unless it is there already
Unpacked(a) == IF Has(a) THEN store ELSE store \cup {a}

Loaded(p, a) == IF p \in Docker THEN Tagged(a) ELSE Unpacked(a)

\* which artifacts an import may cost: a listed one replaces the entry, and
\* docker's tag is moved whether the archive is listed or not
Costs(p, a) ==
  IF a.named /\ (call[p].listed \/ p \in Docker)
  THEN Threatened(Active(p), a) ELSE {}

\* import_from up to import_checkpoint, the first backend call
Load(p) ==
  /\ pc[p] = "load"
  /\ LET a == call[p].arg IN
       \/ /\ Readable(p, a)
          /\ store' = Loaded(p, a)
          /\ IF call[p].listed
             THEN /\ Goto(p, "read") /\ UNCHANGED held
                  /\ kept' = kept \ Costs(p, a)
             ELSE /\ Return(p) /\ held' = held \cup {a}
                  /\ kept' = (kept \ Costs(p, a)) \cup Adds(p, a)
       \/ Return(p) /\ UNCHANGED <<store, held, kept>>
  /\ UNCHANGED <<entry, archives, call, taken, calls, expected, overlap,
                 contested>>

Crash(p) ==
  /\ pc[p] \notin {"idle", "dead"}
  /\ Goto(p, "dead")
  /\ UNCHANGED <<entry, store, archives, held, call, taken, calls, history>>

Step(p) ==
  \/ Begin(p) \/ Gate(p) \/ Read(p) \/ Drop(p) \/ Write(p) \/ Delete(p)
  \/ Create(p) \/ Probe(p) \/ Save(p) \/ Load(p) \/ Crash(p)

Next == \E p \in Procs : Step(p)

Spec == Init /\ [][Next]_vars

-----------------------------------------------------------------------------

\* A checkpoint handed to a caller stays in its store until a call that
\* replaces or removes the name on that backend goes past its refusals: not
\* find, not export, not another backend's calls, not an import of the same
\* archive or one that fails, and not a checkpoint that was refused, whatever
\* interleaves
Kept == \A k \in kept : \E x \in store : Same(x, k) /\ x.content = k.content

\* As long as no two calls have overlapped, the registry names the last
\* checkpoint written until a same-backend replacement or a removal begins;
\* a crash, a failed probe or a failed call of the other backend changes that
\* in no way
LatestWins == ~overlap => expected \subseteq entry

\* The registry is written only after the backend has the artifact: an entry
\* names something its backend once had
OnceReal == [][\A e \in entry' \ entry :
                 \/ \E x \in store : Same(x, e)
                 \/ overlap']_vars

\* A process takes nothing from the store of the backend it does not use
OwnStore ==
  [][\A x \in store \ store' : \E p \in Procs :
       pc[p] # pc'[p] /\ Active(p) = x.backend]_vars

=============================================================================

------------------------- MODULE CheckpointsProofs -------------------------
(***************************************************************************)
(* Proofs about Checkpoints, for any number of processes, whichever of     *)
(* them are on docker, and any bound on the calls and the checkpoints.     *)
(***************************************************************************)
EXTENDS Checkpoints, FiniteSetTheorems, TLAPS

Labels == {"idle", "gate", "read", "drop", "create", "probe", "save", "load",
           "write", "delete", "dead"}
Busy(p) == pc[p] \notin {"idle", "dead"}

\* what a process that is there is doing
Stage == [ gate |-> {"checkpoint", "named"}, create |-> {"checkpoint", "named"},
           read |-> {"named", "find", "remove", "import"},
           drop |-> {"named", "remove", "import"},
           probe |-> {"find", "export"}, save |-> {"export"},
           load |-> {"import"}, write |-> {"named", "import"},
           delete |-> {"find", "remove"} ]

StageInv == \A p \in Procs : Busy(p) => call[p].op \in Stage[pc[p]]

\* past its refusals in a call that replaces or removes the name
Replacing(p) ==
  \/ call[p].op = "named" /\ pc[p] \in {"read", "drop", "create", "write"}
  \/ call[p].op = "remove" /\ pc[p] \in {"read", "drop", "delete"}
  \/ call[p].op = "import" /\ pc[p] \in {"read", "drop", "write"}

\* its artifact is in the store, and not yet in the registry
Brought(p) ==
  pc[p] = "write" \/ (call[p].op = "import" /\ pc[p] \in {"read", "drop"})

Present(a) == \E x \in store : Same(x, a) /\ x.content = a.content

-----------------------------------------------------------------------------
(* The inductive invariants, in the order of their proofs                  *)

\* a is in a store, or a value of some process or file still speaks of it
Known(a) ==
  \/ a \in store \cup held \cup kept \cup expected \cup entry
  \/ \E z \in archives : a = z.artifact
  \/ \E p \in Procs : a \in call[p].seen \/ (a = call[p].arg /\ a # None)

\* A content has an id of its own but for docker's tag, and only what
\* checkpoint_named made is under the tag
Proper(a) ==
  /\ a.content \in 1..taken
  /\ a.id = Tag => a.backend = "docker" /\ a.named
  /\ a.id # Tag => a.id = a.content /\ (a.backend = "docker" => ~a.named)

IdInv ==
  /\ \A a \in Artifact : Known(a) => Proper(a)
  /\ \A a, b \in Artifact : Known(a) /\ Known(b) /\ Same(a, b) => a.named = b.named

\* what is registered, or an archive would register, was made under a name
NameInv ==
  /\ \A e \in entry : e.named
  /\ \A z \in archives : z.listed => z.artifact.named
  /\ \A p \in Procs :
       /\ \A e \in call[p].seen : e.named
       /\ call[p].listed => call[p].arg.named

\* where a call stands and what it is about
CallInv ==
  \A p \in Procs :
    /\ Brought(p) => /\ call[p].arg.backend = Active(p)
                     /\ call[p].arg.named /\ call[p].arg # None
    /\ pc[p] = "load" => call[p].arg # None

\* two calls under way on one backend are both contested, and with no
\* overlap there is one call under way
RivalInv ==
  /\ \A p, q \in Procs : p # q /\ Busy(p) /\ Busy(q) =>
       overlap /\ (Active(p) = Active(q) => p \in contested)
  /\ ~overlap => contested = {}

\* what is kept or expected has been handed to somebody
HandedInv == kept \subseteq held /\ expected \subseteq held

\* A replacement has given up what it may cost
ClearInv ==
  \A p \in Procs : Replacing(p) =>
    \A k \in kept : k.backend = Active(p) /\ k.named =>
      call[p].op = "import" /\ k = call[p].arg

\* What a call has brought is there until it is registered
BringInv ==
  \A p \in Procs : Brought(p) /\ p \notin contested => Present(call[p].arg)

KeepInv == ClearInv /\ BringInv /\ Kept

\* With no overlap: what is expected has its artifact and its entry, a call
\* works from the entry as it is, and has put aside what it takes
AloneInv ==
  ~overlap =>
    /\ \A e \in expected : e \in entry /\ Has(e)
    /\ \A p \in Procs :
         /\ pc[p] = "drop" \/ (pc[p] = "probe" /\ call[p].op = "find")
              => call[p].seen = entry
         /\ pc[p] = "delete" => expected = {}
         /\ Replacing(p) => \A e \in expected :
              /\ call[p].op # "remove"
              /\ e.backend = Active(p) => /\ call[p].op = "import"
                                          /\ pc[p] = "read" \/ Same(e, call[p].arg)

-----------------------------------------------------------------------------
(* Types                                                                   *)

Call == [op : Ops, doomed : BOOLEAN, arg : Artifact, listed : BOOLEAN,
         seen : SUBSET Artifact]

LEMMA Smalls ==
  /\ Cardinality({}) = 0 /\ Cardinality({}) <= 1
  /\ \A a : Cardinality({a}) <= 1
  /\ None \in Artifact /\ Idle \in Call
  /\ \A p : Active(p) \in {"docker", "microsandbox"}
<1>1. Cardinality({}) = 0 /\ \A a : Cardinality({a}) = 1
  BY FS_EmptySet, FS_Singleton
<1>2. None \in Artifact
  BY CheckpointsAssumption DEF None, Artifact
<1>3. Idle \in Call
  BY <1>2 DEF Idle, Call, Ops
<1>4. \A p : Active(p) \in {"docker", "microsandbox"}
  BY DEF Active
<1>5. 0 <= 1 /\ 1 <= 1
  OBVIOUS
<1>6. Cardinality({}) <= 1 /\ \A a : Cardinality({a}) <= 1
  BY <1>1, <1>5
<1> QED
  BY <1>1, <1>2, <1>3, <1>4, <1>6

\* What create_checkpoint makes is an artifact, within the bound
LEMMA MakesArtifact ==
  ASSUME TypeOK, taken < MaxContent, NEW p \in Procs
  PROVE  /\ Makes(p) \in Artifact /\ taken + 1 \in 0..MaxContent
         /\ Makes(p).content = taken + 1 /\ Makes(p).backend = Active(p)
         /\ Makes(p).named = (call[p].op = "named")
         /\ Makes(p).id = IF call[p].op = "named" /\ p \in Docker THEN Tag
                          ELSE taken + 1
<1>1. taken + 1 \in 0..MaxContent /\ 0 \in 0..MaxContent
  BY CheckpointsAssumption DEF TypeOK
<1>2. Ref(p) \in 0..MaxContent
  BY <1>1 DEF Ref, Tag, Content
<1> QED
  BY <1>1, <1>2, Smalls DEF Makes, Artifact, Content, Ref

\* p begins a call: of which kind, about what, and where it starts
Starts(p, op, doomed, listed, arg) ==
  /\ call' = [call EXCEPT ![p] = [op |-> op, doomed |-> doomed,
                arg |-> arg, listed |-> listed, seen |-> {}]]
  /\ op = "export" => arg \in held
  /\ op = "import" => [artifact |-> arg, listed |-> listed] \in archives
  /\ op # "import" => ~listed
  /\ op \notin {"export", "import"} => arg = None
  /\ \/ op \in {"checkpoint", "named"} /\ Goto(p, "gate")
     \/ op \in {"find", "remove"} /\ Goto(p, "read")
     \/ op = "export" /\ Goto(p, "probe")
     \/ op = "import" /\ Goto(p, "load")
  /\ op # "remove" => kept' = kept /\ expected' = expected
  /\ op = "remove" => /\ kept' = kept \ Threatened(Active(p), None)
                      /\ expected' = {}

LEMMA Begins ==
  ASSUME TypeOK, NEW p \in Procs, Begin(p)
  PROVE  \E op \in Ops, doomed \in BOOLEAN, listed \in BOOLEAN,
            arg \in Artifact : Starts(p, op, doomed, listed, arg)
<1>1. \A z \in archives : z.artifact \in Artifact
  BY DEF Archive, TypeOK
<1>2. {None} \cup held \cup {z.artifact : z \in archives} \subseteq Artifact
  BY <1>1, Smalls DEF TypeOK
<1>3. PICK op \in Ops, doomed \in BOOLEAN, listed \in BOOLEAN,
           arg \in {None} \cup held \cup {z.artifact : z \in archives} :
       /\ doomed => op \in {"checkpoint", "named"}
       /\ op = "export" => arg \in held
       /\ op = "import" => [artifact |-> arg, listed |-> listed] \in archives
       /\ op # "import" => ~listed
       /\ op \notin {"export", "import"} => arg = None
       /\ op \in {"checkpoint", "named"} => taken < MaxContent
       /\ call' = [call EXCEPT ![p] =
            [op |-> op, doomed |-> doomed, arg |-> arg, listed |-> listed,
             seen |-> {}]]
       /\ \/ op \in {"checkpoint", "named"} /\ Goto(p, "gate")
          \/ op \in {"find", "remove"} /\ Goto(p, "read")
          \/ op = "export" /\ Goto(p, "probe")
          \/ op = "import" /\ Goto(p, "load")
       /\ kept' = IF op = "remove" THEN kept \ Threatened(Active(p), None)
                  ELSE kept
       /\ expected' = IF op = "remove" THEN {} ELSE expected
  BY Zenon DEF Begin
<1>4. arg \in Artifact
  BY <1>2
<1>5. /\ op # "remove" => kept' = kept /\ expected' = expected
      /\ op = "remove" => /\ kept' = kept \ Threatened(Active(p), None)
                          /\ expected' = {}
  BY <1>3
<1> QED
  BY <1>3, <1>4, <1>5, Zenon DEF Starts

\* What Read does
LEMMA Reads ==
  ASSUME TypeOK, NEW p \in Procs, Read(p)
  PROVE  /\ call' = [call EXCEPT ![p].seen = entry] /\ pc[p] = "read"
         /\ call[p].op # "find" => Goto(p, "drop")
         /\ call[p].op = "find" =>
              \/ entry = {} /\ Goto(p, "delete")
              \/ Goto(p, "probe") \/ Goto(p, "idle")
         /\ call[p].op # "import" => expected' = expected
         /\ call[p].op = "import" =>
              expected' = expected \ AtRisk(p, call[p].arg)
         /\ UNCHANGED <<entry, store, archives, held, taken, calls, kept,
                        overlap, contested>>
BY DEF Read, Lets, Return

\* What Create does: the artifact takes its place in the store, or nothing
\* but the call's end
LEMMA Creates ==
  ASSUME TypeOK, NEW p \in Procs, Create(p)
  PROVE  /\ pc[p] = "create"
         /\ UNCHANGED <<entry, archives, calls, expected, overlap, contested>>
         /\ \/ /\ taken < MaxContent /\ taken' = taken + 1
               /\ store' = Without(Makes(p)) \cup {Makes(p)}
               /\ \/ /\ call[p].op = "named" /\ Goto(p, "write")
                     /\ call' = [call EXCEPT ![p].arg = Makes(p)]
                     /\ UNCHANGED <<held, kept>>
                  \/ /\ call[p].op # "named" /\ Goto(p, "idle")
                     /\ held' = held \cup {Makes(p)}
                     /\ kept' = kept \cup Adds(p, Makes(p)) /\ UNCHANGED call
                  \/ Goto(p, "idle") /\ UNCHANGED <<call, held, kept>>
            \/ Goto(p, "idle") /\ UNCHANGED <<store, taken, call, held, kept>>
BY DEF Create, Return, Hands, Lets

\* A step keeps the types, if each call is at a stage of its kind.
LEMMA TypeStep == TypeOK /\ StageInv /\ [Next]_vars => TypeOK'
<1> SUFFICES ASSUME TypeOK, StageInv, [Next]_vars PROVE TypeOK'
  OBVIOUS
<1> USE DEF TypeOK
<1>1. ASSUME NEW p \in Procs, NEW l \in Labels, Goto(p, l)
      PROVE pc' \in [Procs -> Labels]
  BY <1>1 DEF Goto, Labels
<1>2. ASSUME NEW p \in Procs, Begin(p) PROVE TypeOK'
  <2>1. calls' \in 0..MaxCalls
    BY <1>2, CheckpointsAssumption DEF Begin
  <2>2. PICK op \in Ops, doomed \in BOOLEAN, listed \in BOOLEAN,
             arg \in Artifact : Starts(p, op, doomed, listed, arg)
    BY <1>2, Begins
  <2>4. [op |-> op, doomed |-> doomed, arg |-> arg, listed |-> listed,
         seen |-> {}] \in Call
    BY DEF Call
  <2>5. call' \in [Procs -> Call]
    BY <2>2, <2>4 DEF Call, Starts
  <2>6. pc' \in [Procs -> Labels]
    BY <1>1, <2>2 DEF Labels, Starts
  <2> QED
    BY <1>2, <2>1, <2>5, <2>6 DEF Begin, Call, Labels
<1>3. ASSUME NEW p \in Procs, Gate(p) PROVE TypeOK'
  BY <1>1, <1>3 DEF Gate, Passes, Return, Labels
<1>4. ASSUME NEW p \in Procs, Read(p) PROVE TypeOK'
  <2>1. PICK l \in {"drop", "delete", "probe", "idle"} : Goto(p, l)
    BY <1>4 DEF Read, Return
  <2>2. call' \in [Procs -> Call]
    BY <1>4 DEF Read, Lets, Call
  <2> QED
    BY <1>1, <1>4, <2>1, <2>2 DEF Read, Labels, Call
<1>5. ASSUME NEW p \in Procs, Drop(p) PROVE TypeOK'
  <2>1. store' \subseteq store
    BY <1>5 DEF Drop, Without
  <2>2. After(p) \in {"create", "delete", "write"} => TypeOK'
    BY <1>1, <1>5, <2>1 DEF Drop, history, Labels
  <2>3. call[p].op \in {"named", "remove", "import"}
    BY <1>5 DEF Drop, StageInv, Stage, Busy
  <2> QED
    BY <1>5, <2>2, <2>3 DEF Drop, After
<1>6. ASSUME NEW p \in Procs, Write(p) PROVE TypeOK'
  BY <1>1, <1>6, Smalls DEF Write, Hands, Return, Labels
<1>7. ASSUME NEW p \in Procs, Delete(p) PROVE TypeOK'
  BY <1>1, <1>7, Smalls DEF Delete, Return, history, Labels
<1>8. ASSUME NEW p \in Procs, Create(p) PROVE TypeOK'
  <2>1. \E l \in {"write", "idle"} : Goto(p, l)
    BY <1>8, Creates
  <2>2. pc' \in [Procs -> Labels]
    BY <1>1, <2>1 DEF Labels
  <2>3. taken < MaxContent => Makes(p) \in Artifact /\ taken + 1 \in 0..MaxContent
    BY MakesArtifact
  <2>4. store' \subseteq Artifact /\ taken' \in 0..MaxContent
    BY <1>8, <2>3, Creates DEF Without
  <2>5. held' \subseteq Artifact
    BY <1>8, <2>3, Creates
  <2>6. call' \in [Procs -> Call]
    BY <1>8, <2>3, Creates DEF Call
  <2> QED
    BY <1>8, <2>2, <2>4, <2>5, <2>6, Creates DEF Labels, Call
<1>9. ASSUME NEW p \in Procs, Probe(p) PROVE TypeOK'
  BY <1>1, <1>9 DEF Probe, Return, history, Labels
<1>10. ASSUME NEW p \in Procs, Save(p) PROVE TypeOK'
  <2>1. \A a \in store : Archived(a) \in Archive
    BY DEF Archived, Archive, Registered
  <2> QED
    BY <1>1, <1>10, <2>1 DEF Save, Return, history, Labels
<1>11. ASSUME NEW p \in Procs, Load(p) PROVE TypeOK'
  BY <1>1, <1>11 DEF Load, Loaded, Tagged, Unpacked, Without, Return, Labels
<1>12. ASSUME NEW p \in Procs, Crash(p) PROVE TypeOK'
  BY <1>1, <1>12 DEF Crash, history, Labels
<1>13. CASE UNCHANGED vars
  BY <1>13 DEF vars
<1> QED
  BY <1>2, <1>3, <1>4, <1>5, <1>6, <1>7, <1>8, <1>9, <1>10, <1>11, <1>12,
     <1>13 DEF Next, Step

\* A step of one process moves no other one, and is a move.
LEMMA OneMoves ==
  ASSUME TypeOK, NEW p \in Procs, Step(p)
  PROVE  \A q \in Procs \ {p} : pc'[q] = pc[q] /\ call'[q] = call[q]
<1>1. \A l : Goto(p, l) => \A q \in Procs \ {p} : pc'[q] = pc[q]
  BY DEF Goto, TypeOK
<1>2. \A f, v : Lets(p, f, v) => \A q \in Procs \ {p} : call'[q] = call[q]
  BY DEF Lets, TypeOK
<1>3. CASE Begin(p)
  BY <1>1, <1>3 DEF Begin, TypeOK
<1>4. CASE Gate(p) \/ Read(p) \/ Drop(p)
  BY <1>1, <1>2, <1>4 DEF Gate, Passes, Return, Read, Drop
<1>5. CASE Write(p) \/ Delete(p) \/ Probe(p) \/ Save(p)
  BY <1>1, <1>2, <1>5 DEF Write, Delete, Probe, Save, Return
<1>6. CASE Create(p)
  BY <1>1, <1>2, <1>6 DEF Create, Return
<1>7. CASE Load(p) \/ Crash(p)
  BY <1>1, <1>7 DEF Load, Crash, Return
<1> QED
  BY <1>3, <1>4, <1>5, <1>6, <1>7 DEF Step

\* A call that is under way is at a stage of its kind.
LEMMA StageStep == TypeOK /\ StageInv /\ [Next]_vars => StageInv'
<1> SUFFICES ASSUME TypeOK, StageInv, [Next]_vars PROVE StageInv'
  OBVIOUS
<1>1. ASSUME NEW p \in Procs, Step(p)
      PROVE  pc'[p] \in {"idle", "dead"} \/ call'[p].op \in Stage[pc'[p]]
  <2>1. \A l : Goto(p, l) => pc'[p] = l
    BY DEF Goto, TypeOK
  <2>2. ASSUME NEW v \in SUBSET Artifact, Lets(p, "seen", v)
        PROVE  call'[p].op = call[p].op
    BY <2>2 DEF Lets, TypeOK
  <2>3. ASSUME NEW v, Lets(p, "arg", v) PROVE call'[p].op = call[p].op
    BY <2>3 DEF Lets, TypeOK
  <2>4. Busy(p) => call[p].op \in Stage[pc[p]]
    BY <1>1 DEF StageInv
  <2>5. CASE Begin(p)
    <3>1. PICK op \in Ops :
            /\ call'[p].op = op
            /\ \/ op \in {"checkpoint", "named"} /\ Goto(p, "gate")
               \/ op \in {"find", "remove"} /\ Goto(p, "read")
               \/ op = "export" /\ Goto(p, "probe")
               \/ op = "import" /\ Goto(p, "load")
      <4>1. PICK op \in Ops, doomed \in BOOLEAN, listed \in BOOLEAN,
                 arg \in Artifact : Starts(p, op, doomed, listed, arg)
        BY <2>5, Begins
      <4>2. call'[p].op = op
        BY <4>1 DEF Starts, TypeOK
      <4> QED
        BY <4>1, <4>2, Zenon DEF Starts
    <3> QED
      BY <2>1, <3>1 DEF Ops, Stage
  <2>6. CASE Gate(p)
    BY <2>1, <2>4, <2>6 DEF Gate, Passes, Return, Stage, Busy
  <2>7. CASE Read(p)
    <3>1. call'[p].op = call[p].op
      BY <2>7, Reads DEF TypeOK
    <3>2. pc[p] = "read" /\ call[p].op \in {"named", "find", "remove", "import"}
      BY <2>4, <2>7 DEF Read, Stage, Busy
    <3> QED
      BY <2>1, <2>7, <3>1, <3>2, Reads DEF Stage
  <2>8. CASE Drop(p)
    BY <2>1, <2>4, <2>8 DEF Drop, After, Stage, Busy
  <2>9. CASE Write(p) \/ Delete(p) \/ Save(p)
    BY <2>1, <2>9 DEF Write, Delete, Save, Return
  <2>10. CASE Create(p)
    BY <2>1, <2>3, <2>4, <2>10 DEF Create, Return, Stage, Busy
  <2>11. CASE Probe(p)
    BY <2>1, <2>4, <2>11 DEF Probe, Return, Stage, Busy
  <2>12. CASE Load(p)
    BY <2>1, <2>4, <2>12 DEF Load, Return, Stage, Busy
  <2>13. CASE Crash(p)
    BY <2>1, <2>13 DEF Crash
  <2> QED
    BY <1>1, <2>5, <2>6, <2>7, <2>8, <2>9, <2>10, <2>11, <2>12, <2>13 DEF Step
<1>2. ASSUME NEW p \in Procs, Step(p) PROVE StageInv'
  BY <1>1, <1>2, OneMoves DEF StageInv, Busy
<1>3. CASE UNCHANGED vars
  BY <1>3 DEF vars, StageInv, Busy
<1> QED
  BY <1>2, <1>3 DEF Next

TypeInv == TypeOK /\ StageInv

LEMMA TypesHold == Spec => []TypeInv
<1>1. Init => TypeOK
  BY Smalls, CheckpointsAssumption DEF Init, TypeOK, Call
<1>2. Init => StageInv
  BY DEF Init, StageInv, Busy
<1>3. TypeInv /\ [Next]_vars => TypeInv'
  BY TypeStep, StageStep DEF TypeInv
<1> QED
  BY <1>1, <1>2, <1>3, PTL DEF Spec, TypeInv

\* The type invariant: a call stands at one of its backend calls or file
\* accesses, and the registry file holds at most one entry.
THEOREM TypeCorrect == Spec => []TypeOK
<1>1. TypeInv => TypeOK
  BY DEF TypeInv
<1> QED
  BY <1>1, TypesHold, PTL

-----------------------------------------------------------------------------
(* The stores                                                              *)

\* What leaves the store in a step of p is of the backend of p, and p moves.
LEMMA StoreStep ==
  ASSUME TypeInv, NEW p \in Procs, Step(p), NEW x \in store \ store'
  PROVE  x.backend = Active(p) /\ pc'[p] # pc[p]
<1>1. \A l : Goto(p, l) => pc'[p] = l
  BY DEF Goto, TypeInv, TypeOK
<1>2. CASE Drop(p)
  <2>1. PICK e \in call[p].seen : e.backend = Active(p) /\ store' = Without(e)
    BY <1>2 DEF Drop
  <2>2. x.backend = Active(p)
    BY <2>1 DEF Without, Same
  <2>3. call[p].op \in {"named", "remove", "import"}
    BY <1>2 DEF Drop, TypeInv, StageInv, Stage, Busy
  <2> QED
    BY <1>1, <1>2, <2>2, <2>3 DEF Drop, After
<1>3. CASE Create(p)
  <2>1. taken < MaxContent /\ store' = Without(Makes(p)) \cup {Makes(p)}
    BY <1>3, Creates DEF TypeInv
  <2>2. x.backend = Active(p)
    BY <2>1, MakesArtifact DEF Without, Same, TypeInv
  <2>3. pc[p] = "create" /\ \E l \in {"idle", "write"} : Goto(p, l)
    BY <1>3, Creates DEF TypeInv
  <2> QED
    BY <1>1, <2>2, <2>3
<1>4. CASE Load(p)
  <2>1. x.backend = Active(p)
    BY <1>4 DEF Load, Readable, Loaded, Tagged, Unpacked, Without, Same
  <2>2. pc[p] = "load" /\ \E l \in {"idle", "read"} : Goto(p, l)
    BY <1>4 DEF Load, Return
  <2> QED
    BY <1>1, <2>1, <2>2
<1>5. CASE Begin(p) \/ Gate(p) \/ Read(p) \/ Write(p) \/ Delete(p) \/ Probe(p)
           \/ Save(p) \/ Crash(p)
  BY <1>5 DEF Begin, Gate, Read, Write, Delete, Probe, Save, Crash
<1> QED
  BY <1>2, <1>3, <1>4, <1>5 DEF Step

\* A process takes nothing from the store of the backend it does not use
\* (remove_named, checkpoint_named and import_from_impl compare the entry's
\* backend with their own before they remove its artifact).
THEOREM OnlyOwnStore == Spec => OwnStore
<1> DEFINE Own == \A x \in store \ store' : \E p \in Procs :
                    pc[p] # pc'[p] /\ Active(p) = x.backend
<1>1. TypeInv /\ [Next]_vars => [Own]_vars
  <2> SUFFICES ASSUME TypeInv, Next PROVE Own
    OBVIOUS
  <2> QED
    BY StoreStep DEF Next
<1> QED
  BY <1>1, TypesHold, PTL DEF Spec, OwnStore

-----------------------------------------------------------------------------
(* Artifacts, names and calls                                              *)

\* A step of p speaks of nothing new, but of what create_checkpoint made.
LEMMA KnownStep ==
  ASSUME TypeInv, CallInv, NEW p \in Procs, Step(p), NEW a, Known(a)'
  PROVE  \/ Known(a)
         \/ Create(p) /\ taken < MaxContent /\ taken' = taken + 1 /\ a = Makes(p)
<1> USE DEF TypeInv
<1>1. ASSUME NEW q \in Procs,
             \/ a \in call'[q].seen /\ a \notin call[q].seen
             \/ a = call'[q].arg /\ a # call[q].arg
      PROVE  q = p
  BY <1>1, OneMoves
<1>2. ASSUME call' = call PROVE
        \A q \in Procs : a \in call'[q].seen \/ (a = call'[q].arg /\ a # None)
           => Known(a)
  BY <1>2 DEF Known
<1>3. CASE Begin(p)
  <2>1. PICK op \in Ops, doomed \in BOOLEAN, listed \in BOOLEAN,
             arg \in Artifact : Starts(p, op, doomed, listed, arg)
    BY <1>3, Begins
  <2>2. call'[p].arg = arg /\ call'[p].seen = {}
    BY <2>1 DEF Starts, TypeOK
  <2>3. UNCHANGED <<entry, store, archives, held>> /\ kept' \subseteq kept
        /\ expected' \subseteq expected
    BY <1>3, <2>1 DEF Begin, Starts
  <2>4. op = "import" => \E z \in archives : arg = z.artifact
    BY <2>1 DEF Starts
  <2>5. a = call'[p].arg /\ a # None => Known(a)
    BY <2>1, <2>2, <2>4 DEF Known, Starts
  <2> QED
    BY <1>1, <2>2, <2>3, <2>5 DEF Known
<1>4. CASE Gate(p) \/ Drop(p) \/ Delete(p) \/ Crash(p)
  <2>1. call' = call /\ UNCHANGED <<archives, held>>
    BY <1>4 DEF Gate, Drop, Delete, Crash
  <2>2. kept' \subseteq kept /\ expected' \subseteq expected
    BY <1>4 DEF Gate, Passes, Drop, Delete, Crash, history
  <2>3. store' \subseteq store /\ entry' \subseteq entry
    BY <1>4 DEF Gate, Drop, Delete, Crash, Without
  <2> QED
    BY <2>1, <2>2, <2>3 DEF Known
<1>5. CASE Read(p)
  <2>1. call'[p].seen = entry /\ call'[p].arg = call[p].arg
    BY <1>5, Reads DEF TypeOK
  <2>2. UNCHANGED <<entry, store, archives, held, kept>>
        /\ expected' \subseteq expected
    BY <1>5, Reads
  <2> QED
    BY <1>1, <2>1, <2>2 DEF Known
<1>6. CASE Write(p)
  <2>1. call' = call /\ UNCHANGED <<archives, store>>
    BY <1>6 DEF Write
  <2>2. call[p].arg # None
    BY <1>6 DEF Write, CallInv, Brought
  <2>3. /\ entry' \subseteq entry \cup {call[p].arg}
        /\ expected' \subseteq expected \cup {call[p].arg}
        /\ held' \subseteq held \cup {call[p].arg}
        /\ kept' \subseteq kept \cup {call[p].arg}
    BY <1>6 DEF Write, Hands, Adds
  <2> QED
    BY <2>1, <2>2, <2>3 DEF Known
<1>7. CASE Create(p)
  <2>1. UNCHANGED <<entry, archives, expected>>
    BY <1>7, Creates
  <2>2. CASE UNCHANGED <<store, taken, call, held, kept>>
    BY <2>1, <2>2 DEF Known
  <2>3. CASE ~UNCHANGED <<store, taken, call, held, kept>>
    <3>1. /\ taken < MaxContent /\ taken' = taken + 1
          /\ store' \subseteq store \cup {Makes(p)}
          /\ held' \subseteq held \cup {Makes(p)}
          /\ kept' \subseteq kept \cup {Makes(p)}
      BY <1>7, <2>3, Creates DEF Without, Adds
    <3>2. call'[p].seen = call[p].seen /\ call'[p].arg \in {call[p].arg, Makes(p)}
      BY <1>7, Creates DEF TypeOK
    <3> QED
      BY <1>1, <1>7, <2>1, <3>1, <3>2 DEF Known
  <2> QED
    BY <2>2, <2>3
<1>8. CASE Probe(p)
  <2>1. UNCHANGED <<entry, store, archives, call, kept, expected>>
    BY <1>8 DEF Probe, history
  <2>2. held' \subseteq held \cup call[p].seen
    BY <1>8 DEF Probe
  <2> QED
    BY <2>1, <2>2 DEF Known
<1>9. CASE Save(p)
  <2>1. UNCHANGED <<entry, store, held, call, kept, expected>>
    BY <1>9 DEF Save, history
  <2>2. \A z \in archives' : z \in archives \/ z.artifact \in store
    BY <1>9 DEF Save, Archived
  <2> QED
    BY <2>1, <2>2 DEF Known
<1>10. CASE Load(p)
  <2>1. UNCHANGED <<entry, archives, call, expected>>
    BY <1>10 DEF Load
  <2>2. call[p].arg # None
    BY <1>10 DEF Load, CallInv
  <2>3. /\ store' \subseteq store \cup {call[p].arg}
        /\ held' \subseteq held \cup {call[p].arg}
        /\ kept' \subseteq kept \cup {call[p].arg}
    BY <1>10 DEF Load, Loaded, Tagged, Unpacked, Without, Adds
  <2> QED
    BY <2>1, <2>2, <2>3 DEF Known
<1> QED
  BY <1>3, <1>4, <1>5, <1>6, <1>7, <1>8, <1>9, <1>10 DEF Step

\* Only create_checkpoint makes a content.
LEMMA TakenStep ==
  ASSUME TypeInv, NEW p \in Procs, Step(p)
  PROVE  taken' = taken \/ (Create(p) /\ taken < MaxContent /\ taken' = taken + 1)
<1>1. CASE Create(p)
  BY <1>1, Creates DEF TypeInv
<1>2. CASE ~Create(p)
  BY <1>2 DEF Step, Begin, Gate, Read, Drop, Write, Delete, Probe, Save, Load,
              Crash
<1> QED
  BY <1>1, <1>2

\* A known artifact stays proper, and so is a new one; the id that
\* create_checkpoint takes is of no other artifact of another kind.
LEMMA IdStep ==
  ASSUME TypeInv, CallInv, IdInv, NEW p \in Procs, Step(p)
  PROVE  IdInv'
<1>1. taken \in Nat /\ taken' \in {taken, taken + 1}
  BY TakenStep, CheckpointsAssumption DEF TypeInv, TypeOK
<1> DEFINE Fresh(a) == /\ Create(p) /\ taken < MaxContent
                       /\ taken' = taken + 1 /\ a = Makes(p)
<1>2. \A a : Known(a)' => Known(a) \/ Fresh(a)
  BY KnownStep
<1>3. ASSUME NEW a \in Artifact, Known(a) PROVE Proper(a)'
  <2>1. Proper(a)
    BY <1>3 DEF IdInv
  <2>2. a.content \in 1..taken => a.content \in 1..taken'
    BY <1>1
  <2> QED
    BY <2>1, <2>2 DEF Proper
<1>4. ASSUME NEW a, Fresh(a)
      PROVE  /\ a.content = taken + 1 /\ a.backend = Active(p)
             /\ a.named = (call[p].op = "named")
             /\ a.id = IF call[p].op = "named" /\ p \in Docker THEN Tag
                       ELSE taken + 1
  BY <1>4, MakesArtifact DEF TypeInv
<1>5. ASSUME NEW a, Fresh(a) PROVE Proper(a)'
  <2>1. a.content \in 1..taken'
    BY <1>1, <1>4, <1>5
  <2>2. taken + 1 # Tag
    BY <1>1 DEF Tag
  <2>3. a.backend = "docker" <=> p \in Docker
    BY <1>4, <1>5 DEF Active
  <2> QED
    BY <1>4, <1>5, <2>1, <2>2, <2>3 DEF Proper
<1>6. ASSUME NEW a \in Artifact, Known(a), NEW b, Fresh(b),
             Same(a, b) \/ Same(b, a)
      PROVE  a.named = b.named
  <2>1. a.id = b.id /\ a.content \in 1..taken
        /\ (a.id = Tag => a.named) /\ (a.id # Tag => a.id = a.content)
    BY <1>6 DEF Same, IdInv, Proper
  <2>2. taken + 1 \notin 1..taken
    BY <1>1
  <2>3. CASE a.id = Tag
    <3>1. taken + 1 # Tag
      BY <1>1 DEF Tag
    <3>2. a.named /\ call[p].op = "named" /\ b.named = (call[p].op = "named")
      BY <1>4, <1>6, <2>1, <2>3, <3>1
    <3> QED
      BY <3>2
  <2>4. CASE a.id # Tag
    BY <1>4, <1>6, <2>1, <2>2, <2>4
  <2> QED
    BY <2>3, <2>4
<1>7. ASSUME NEW a \in Artifact, NEW b \in Artifact, Known(a)', Known(b)',
             Same(a, b)
      PROVE  a.named = b.named
  <2>1. CASE Known(a) /\ Known(b)
    BY <1>7, <2>1 DEF IdInv
  <2>2. CASE Fresh(a) /\ Fresh(b)
    BY <2>2
  <2>3. CASE Known(a) /\ Fresh(b)
    BY <1>6, <1>7, <2>3
  <2>4. CASE Fresh(a) /\ Known(b)
    <3>1. b.named = a.named
      BY <1>6, <1>7, <2>4
    <3> QED
      BY <3>1
  <2> QED
    BY <1>2, <1>7, <2>1, <2>2, <2>3, <2>4
<1>8. \A a \in Artifact : Known(a)' => Proper(a)'
  BY <1>2, <1>3, <1>5
<1> QED
  BY <1>7, <1>8 DEF IdInv, Same

\* A registered artifact, and one that an archive would register, has been
\* made under a name.
LEMMA NameStep ==
  ASSUME TypeInv, CallInv, IdInv, NameInv, NEW p \in Procs, Step(p)
  PROVE  NameInv'
<1> USE DEF TypeInv
<1>1. ASSUME call'[p].seen \subseteq call[p].seen \cup entry,
             call'[p].listed => call'[p].arg.named,
             \A e \in entry' : e \in entry \/ e.named,
             \A z \in archives' : z \in archives \/ (z.listed => z.artifact.named)
      PROVE  NameInv'
  BY <1>1, OneMoves DEF NameInv
<1>2. call[p].listed => call[p].arg.named
  BY DEF NameInv
<1>3. CASE Begin(p)
  <2>1. PICK op \in Ops, doomed \in BOOLEAN, listed \in BOOLEAN,
             arg \in Artifact : Starts(p, op, doomed, listed, arg)
    BY <1>3, Begins
  <2>2. call'[p].seen = {} /\ call'[p].arg = arg /\ call'[p].listed = listed
    BY <2>1 DEF Starts, TypeOK
  <2>3. listed => arg.named
    BY <2>1 DEF Starts, NameInv
  <2>4. entry' = entry /\ archives' = archives
    BY <1>3 DEF Begin
  <2> QED
    BY <1>1, <2>2, <2>3, <2>4
<1>4. CASE Gate(p) \/ Drop(p) \/ Delete(p) \/ Crash(p) \/ Probe(p) \/ Load(p)
  BY <1>1, <1>2, <1>4 DEF Gate, Drop, Delete, Crash, Probe, Load
<1>5. CASE Read(p)
  <2>1. /\ call'[p].seen = entry /\ call'[p].arg = call[p].arg
        /\ call'[p].listed = call[p].listed
    BY <1>5, Reads DEF TypeOK
  <2> QED
    BY <1>1, <1>2, <1>5, <2>1, Reads
<1>6. CASE Write(p)
  <2>1. call[p].arg.named
    BY <1>6 DEF Write, CallInv, Brought
  <2> QED
    BY <1>1, <1>2, <1>6, <2>1 DEF Write
<1>7. CASE Create(p)
  <2>1. call'[p].seen = call[p].seen /\ call'[p].listed = call[p].listed
    BY <1>7, Creates DEF TypeOK
  <2>2. \/ call'[p].arg = call[p].arg
        \/ taken < MaxContent /\ call[p].op = "named" /\ call'[p].arg = Makes(p)
    BY <1>7, Creates DEF TypeOK
  <2>3. taken < MaxContent /\ call[p].op = "named" => Makes(p).named
    BY MakesArtifact
  <2> QED
    BY <1>1, <1>2, <1>7, <2>1, <2>2, <2>3, Creates
<1>8. CASE Save(p)
  <2>1. ASSUME NEW a \in store, Registered(a) PROVE a.named
    <3>1. PICK e \in entry : Same(e, a)
      BY <2>1 DEF Registered
    <3>2. Known(a) /\ Known(e) /\ a \in Artifact /\ e \in Artifact /\ e.named
      BY <2>1, <3>1 DEF Known, TypeOK, NameInv
    <3>3. e.named = a.named
      BY <3>1, <3>2 DEF IdInv
    <3> QED
      BY <3>2, <3>3
  <2>2. \A z \in archives' : z \in archives \/ (z.listed => z.artifact.named)
    BY <1>8, <2>1 DEF Save, Archived
  <2> QED
    BY <1>1, <1>2, <1>8, <2>2 DEF Save
<1> QED
  BY <1>3, <1>4, <1>5, <1>6, <1>7, <1>8 DEF Step

\* A call that has brought an artifact has brought a named one of its backend.
LEMMA CallStep ==
  ASSUME TypeInv, CallInv, IdInv, NameInv, NEW p \in Procs, Step(p)
  PROVE  CallInv'
<1> USE DEF TypeInv
<1> DEFINE Good == /\ call'[p].arg.backend = Active(p)
                   /\ call'[p].arg.named /\ call'[p].arg # None
<1>1. ASSUME Brought(p)' => Good, pc'[p] = "load" => call'[p].arg # None
      PROVE  CallInv'
  BY <1>1, OneMoves DEF CallInv, Brought, Active
<1>2. Brought(p) => /\ call[p].arg.backend = Active(p)
                    /\ call[p].arg.named /\ call[p].arg # None
  BY DEF CallInv
<1>3. \A l : Goto(p, l) => pc'[p] = l
  BY DEF Goto, TypeOK
<1>4. None.content = 0 /\ ~None.named
  BY DEF None
<1>5. \A a \in Artifact : Known(a) => a # None
  BY <1>4 DEF IdInv, Proper, TypeOK
<1>6. pc[p] \in {"idle", "dead"} \/ call[p].op \in Stage[pc[p]]
  BY DEF StageInv, Busy
<1>7. CASE Begin(p)
  <2>1. PICK op \in Ops, doomed \in BOOLEAN, listed \in BOOLEAN,
             arg \in Artifact : Starts(p, op, doomed, listed, arg)
    BY <1>7, Begins
  <2>2. call'[p].arg = arg /\ call'[p].op = op
    BY <2>1 DEF Starts, TypeOK
  <2>3. pc'[p] \in {"gate", "read", "probe", "load"}
        /\ (pc'[p] = "load" => op = "import") /\ (pc'[p] = "read" => op # "import")
    BY <1>3, <2>1 DEF Starts
  <2>4. op = "import" => Known(arg)
    BY <2>1 DEF Starts, Known
  <2> QED
    BY <1>1, <1>5, <2>2, <2>3, <2>4 DEF Brought
<1>8. CASE Gate(p) \/ Delete(p) \/ Crash(p)
  <2>1. /\ call' = call
        /\ pc'[p] \in {"idle", "dead", "create"} \/ (pc'[p] = "read" /\ call[p].op = "named")
    BY <1>3, <1>8 DEF Gate, Passes, Delete, Crash, Return
  <2> QED
    BY <1>1, <2>1 DEF Brought
<1>9. CASE Read(p)
  <2>1. call'[p].arg = call[p].arg /\ call'[p].op = call[p].op /\ pc[p] = "read"
    BY <1>9, Reads DEF TypeOK
  <2>2. \/ call[p].op # "find" /\ pc'[p] = "drop"
        \/ pc'[p] \in {"delete", "probe", "idle"}
    BY <1>3, <1>9, Reads
  <2> QED
    BY <1>1, <1>2, <2>1, <2>2 DEF Brought
<1>10. CASE Drop(p)
  <2>1. call' = call /\ pc[p] = "drop" /\ Goto(p, After(p))
    BY <1>10 DEF Drop
  <2>2. After(p) \in {"create", "delete"} \/ (After(p) = "write" /\ call[p].op = "import")
    BY <1>6, <2>1 DEF After, Stage
  <2>3. pc'[p] \in {"create", "delete"} \/ (pc'[p] = "write" /\ call[p].op = "import")
    BY <1>3, <2>1, <2>2
  <2> QED
    BY <1>1, <1>2, <2>1, <2>3 DEF Brought
<1>11. CASE Write(p) \/ Save(p)
  <2>1. pc'[p] = "idle"
    BY <1>3, <1>11 DEF Write, Save, Return
  <2> QED
    BY <1>1, <2>1 DEF Brought
<1>12. CASE Create(p)
  <2>1. \/ pc'[p] = "idle"
        \/ /\ pc'[p] = "write" /\ taken < MaxContent /\ call[p].op = "named"
           /\ call'[p].arg = Makes(p)
    BY <1>3, <1>12, Creates DEF TypeOK
  <2>2. taken < MaxContent => /\ Makes(p).backend = Active(p)
                              /\ Makes(p).named = (call[p].op = "named")
    BY MakesArtifact
  <2>3. pc'[p] = "write" => Good
    BY <1>4, <2>1, <2>2
  <2> QED
    BY <1>1, <2>1, <2>3 DEF Brought
<1>13. CASE Probe(p)
  <2>1. call' = call /\ pc'[p] \in {"idle", "delete", "save"}
    BY <1>3, <1>13 DEF Probe, Return
  <2> QED
    BY <1>1, <2>1 DEF Brought
<1>14. CASE Load(p)
  <2>1. /\ call' = call
        /\ \/ pc'[p] = "idle"
           \/ /\ pc'[p] = "read" /\ call[p].listed
              /\ call[p].arg.backend = Active(p)
    BY <1>3, <1>14 DEF Load, Return, Readable
  <2>2. call[p].arg # None /\ (call[p].listed => call[p].arg.named)
    BY <1>14 DEF Load, CallInv, NameInv
  <2> QED
    BY <1>1, <2>1, <2>2 DEF Brought
<1> QED
  BY <1>7, <1>8, <1>9, <1>10, <1>11, <1>12, <1>13, <1>14 DEF Step

\* Two calls that are under way at once have overlapped, and are contested
\* if they are of one backend.
LEMMA RivalStep ==
  ASSUME TypeInv, RivalInv, NEW p \in Procs, Step(p)
  PROVE  RivalInv'
<1> USE DEF TypeInv
<1>1. \A q \in Procs \ {p} : pc'[q] = pc[q]
  BY OneMoves
<1>2. \A l : Goto(p, l) => pc'[p] = l
  BY DEF Goto, TypeOK
<1> DEFINE busy == {q \in Procs \ {p} : pc[q] \notin {"idle", "dead"}}
           rivals == {q \in busy : Active(q) = Active(p)}
<1>3. CASE Begin(p)
  <2>1. /\ overlap' = (overlap \/ busy # {})
        /\ contested' = IF rivals = {} THEN contested \ {p}
                        ELSE contested \cup rivals \cup {p}
    BY <1>3 DEF Begin
  <2>2. ~overlap' => ~overlap /\ busy = {}
    BY <2>1 DEF TypeOK
  <2>3. ~overlap' => contested' = {}
    <3>1. busy = {} => rivals = {}
      OBVIOUS
    <3> QED
      BY <2>1, <2>2, <3>1 DEF RivalInv
  <2>4. ASSUME NEW q \in Procs, NEW r \in Procs, q # r, Busy(q)', Busy(r)'
        PROVE  overlap' /\ (Active(q) = Active(r) => q \in contested')
    <3>1. CASE q # p /\ r # p
      <4>1. overlap /\ (Active(q) = Active(r) => q \in contested)
        BY <1>1, <2>4, <3>1 DEF RivalInv, Busy
      <4> QED
        BY <2>1, <3>1, <4>1
    <3>2. CASE q = p
      <4>1. r \in busy
        BY <1>1, <2>4, <3>2 DEF Busy
      <4>2. Active(q) = Active(r) => r \in rivals
        BY <3>2, <4>1
      <4> QED
        BY <2>1, <3>2, <4>1, <4>2
    <3>3. CASE r = p
      <4>1. q \in busy
        BY <1>1, <2>4, <3>3 DEF Busy
      <4>2. Active(q) = Active(r) => q \in rivals
        BY <3>3, <4>1
      <4> QED
        BY <2>1, <3>3, <4>1, <4>2
    <3> QED
      BY <3>1, <3>2, <3>3
  <2> QED
    BY <2>3, <2>4 DEF RivalInv, Active
<1>4. CASE ~Begin(p)
  <2>1. overlap' = overlap /\ contested' = contested
    BY <1>4 DEF Step, Gate, Read, Drop, Write, Delete, Create, Probe, Save,
                Load, Crash, history
  <2>2. Busy(p)' => Busy(p)
    BY <1>4 DEF Step, Gate, Read, Drop, Write, Delete, Create, Probe, Save,
                Load, Crash, Busy
  <2> QED
    BY <1>1, <2>1, <2>2 DEF RivalInv, Busy, Active
<1> QED
  BY <1>3, <1>4

\* Nothing is kept or expected that no call has handed to its caller.
LEMMA HandedStep ==
  ASSUME TypeInv, HandedInv, NEW p \in Procs, Step(p)
  PROVE  HandedInv'
<1>1. CASE Begin(p)
  <2>1. kept' \subseteq kept /\ expected' \subseteq expected /\ held' = held
    BY <1>1 DEF Begin
  <2> QED
    BY <2>1 DEF HandedInv
<1>2. CASE Gate(p) \/ Drop(p) \/ Delete(p) \/ Probe(p) \/ Save(p) \/ Crash(p)
  <2>1. kept' \subseteq kept /\ expected' \subseteq expected /\ held \subseteq held'
    BY <1>2 DEF Gate, Passes, Drop, Delete, Probe, Save, Crash, history
  <2> QED
    BY <2>1 DEF HandedInv
<1>3. CASE Read(p)
  BY <1>3, Reads DEF HandedInv, TypeInv
<1>4. CASE Create(p)
  BY <1>4, Creates DEF HandedInv, TypeInv, Adds
<1>5. CASE Write(p)
  BY <1>5 DEF Write, Hands, Adds, HandedInv
<1>6. CASE Load(p)
  BY <1>6 DEF Load, Adds, HandedInv
<1> QED
  BY <1>1, <1>2, <1>3, <1>4, <1>5, <1>6 DEF Step

\* The registry names only what was made under the name, and calls under way
\* know of each other: what the rest builds on.
BaseInv == TypeInv /\ CallInv /\ IdInv /\ NameInv /\ RivalInv /\ HandedInv

LEMMA BaseHolds == Spec => []BaseInv
<1>1. Init => BaseInv
  <2>1. Init => TypeInv
    BY Smalls, CheckpointsAssumption
       DEF Init, TypeInv, StageInv, Busy, TypeOK, Call
  <2>2. Init => CallInv /\ NameInv /\ RivalInv /\ HandedInv
    BY DEF Init, Idle, HandedInv, CallInv, Brought, NameInv, RivalInv, Busy
  <2>3. Init => IdInv
    BY DEF Init, Idle, IdInv, Known
  <2> QED
    BY <2>1, <2>2, <2>3 DEF BaseInv
<1>2. BaseInv /\ [Next]_vars => BaseInv'
  <2>1. BaseInv /\ [Next]_vars => TypeInv'
    BY TypeStep, StageStep DEF TypeInv, BaseInv
  <2>2. ASSUME BaseInv, NEW p \in Procs, Step(p)
        PROVE  CallInv' /\ IdInv' /\ NameInv' /\ RivalInv' /\ HandedInv'
    BY <2>2, CallStep, IdStep, NameStep, RivalStep, HandedStep DEF BaseInv
  <2>3. BaseInv /\ UNCHANGED vars
          => CallInv' /\ IdInv' /\ NameInv' /\ RivalInv' /\ HandedInv'
    <3>1. BaseInv /\ UNCHANGED vars => IdInv'
      BY DEF BaseInv, vars, IdInv, Known, Proper, Same
    <3>2. BaseInv /\ UNCHANGED vars
            => CallInv' /\ NameInv' /\ RivalInv' /\ HandedInv'
      BY DEF BaseInv, vars, HandedInv, CallInv, Brought, NameInv, RivalInv, Busy, Active
    <3> QED
      BY <3>1, <3>2
  <2> QED
    BY <2>1, <2>2, <2>3 DEF Next, BaseInv
<1> QED
  BY <1>1, <1>2, PTL DEF Spec

-----------------------------------------------------------------------------
(* Kept                                                                    *)

\* The step that takes a known artifact from its store: a replacement's own
\* removal or commit, or a docker load that moves the tag to something else.
LEMMA TakenAway ==
  ASSUME BaseInv, NEW p \in Procs, Step(p), NEW a \in Artifact, Known(a),
         Present(a), ~Present(a)'
  PROVE  /\ a.backend = Active(p) /\ a.named /\ Busy(p)
         /\ \/ Replacing(p) /\ ~(call[p].op = "import" /\ a = call[p].arg)
            \/ /\ Load(p) /\ p \in Docker /\ call[p].arg.named /\ a # call[p].arg
               /\ kept' \subseteq (kept \ Costs(p, call[p].arg))
                                   \cup {call[p].arg}
<1> USE DEF BaseInv, TypeInv
<1>1. PICK x \in store : Same(x, a) /\ x.content = a.content
  BY DEF Present
<1>2. x \notin store'
  BY <1>1 DEF Present, Same
<1>3. x.backend = Active(p)
  BY <1>2, StoreStep
<1>4. a.backend = Active(p)
  BY <1>1, <1>3 DEF Same
<1>5. Proper(a)
  BY DEF IdInv
<1>6. taken \in Nat
  BY CheckpointsAssumption DEF TypeOK
<1>7. CASE Drop(p)
  <2>1. PICK e \in call[p].seen :
          /\ call[p].op = "import" => ~Same(e, call[p].arg)
          /\ store' = Without(e)
    BY <1>2, <1>7 DEF Drop
  <2>2. Same(x, e)
    BY <1>2, <2>1 DEF Without
  <2>3. Same(a, e) /\ Same(e, a)
    BY <1>1, <2>2 DEF Same
  <2>4. e \in Artifact /\ Known(e) /\ e.named
    BY DEF TypeOK, Known, NameInv
  <2>5. e.named = a.named
    BY <2>3, <2>4 DEF IdInv
  <2>6. a.named
    BY <2>4, <2>5
  <2>7. Replacing(p) /\ Busy(p)
    BY <1>7 DEF Drop, Replacing, Busy, StageInv, Stage
  <2> QED
    BY <1>4, <2>1, <2>3, <2>6, <2>7
<1>8. CASE Create(p)
  <2>1. taken < MaxContent /\ store' = Without(Makes(p)) \cup {Makes(p)}
        /\ pc[p] = "create"
    BY <1>2, <1>8, Creates
  <2>2. a.id = Makes(p).id
    BY <1>1, <1>2, <2>1 DEF Without, Same
  <2>3. taken + 1 \notin 1..taken
    BY <1>6
  <2>4. call[p].op = "named" /\ p \in Docker /\ a.id = Tag
    BY <1>5, <2>1, <2>2, <2>3, <1>6, MakesArtifact DEF Proper, Tag
  <2> QED
    BY <1>4, <1>5, <2>1, <2>4 DEF Proper, Replacing, Busy
<1>9. CASE Load(p)
  <2>1. p \in Docker /\ store' = Tagged(call[p].arg)
    BY <1>2, <1>9 DEF Load, Loaded, Unpacked
  <2>2. Same(x, call[p].arg) /\ call[p].arg \in store'
    BY <1>2, <2>1 DEF Tagged, Without
  <2>3. Same(call[p].arg, a)
    BY <1>1, <2>2 DEF Same
  <2>4. call[p].arg.content # a.content
    BY <2>2, <2>3 DEF Present, Same
  <2>5. call[p].arg \in Artifact /\ Known(call[p].arg)
    BY <1>9 DEF Load, CallInv, Known, TypeOK
  <2>6. Proper(call[p].arg)
    BY <2>5 DEF IdInv
  <2>7. a.id = Tag /\ call[p].arg.id = Tag
    BY <1>5, <2>3, <2>4, <2>6 DEF Proper, Same
  <2>8. kept' \subseteq (kept \ Costs(p, call[p].arg)) \cup {call[p].arg}
    BY <1>2, <1>9 DEF Load, Adds
  <2> QED
    BY <1>4, <1>5, <1>9, <2>1, <2>4, <2>6, <2>7, <2>8 DEF Proper, Load, Busy
<1>10. CASE ~Drop(p) /\ ~Create(p) /\ ~Load(p)
  BY <1>2, <1>10 DEF Step, Begin, Gate, Read, Write, Delete, Probe, Save, Crash
<1> QED
  BY <1>7, <1>8, <1>9, <1>10

\* What is loaded is in the store.
LEMMA LoadBrings ==
  ASSUME BaseInv, NEW p \in Procs, Load(p), Readable(p, call[p].arg),
         store' = Loaded(p, call[p].arg)
  PROVE  \E x \in store' : Same(x, call[p].arg) /\ x.content = call[p].arg.content
<1> USE DEF BaseInv, TypeInv
<1>1. CASE p \in Docker
  BY <1>1 DEF Loaded, Tagged, Same
<1>2. CASE p \notin Docker /\ ~Has(call[p].arg)
  BY <1>2 DEF Loaded, Unpacked, Same
<1>3. CASE p \notin Docker /\ Has(call[p].arg)
  <2>1. PICK x \in store : Same(x, call[p].arg)
    BY <1>3 DEF Has
  <2>2. x \in store'
    BY <1>3 DEF Loaded, Unpacked
  <2>3. call[p].arg \in Artifact /\ Known(call[p].arg) /\ x \in Artifact /\ Known(x)
    BY DEF Load, CallInv, Known, TypeOK
  <2>4. Proper(call[p].arg) /\ Proper(x)
    BY <2>3 DEF IdInv
  <2>5. call[p].arg.backend # "docker"
    BY <1>3 DEF Readable, Active
  <2>6. x.content = call[p].arg.content
    BY <2>1, <2>4, <2>5 DEF Proper, Same
  <2> QED
    BY <2>1, <2>2, <2>6
<1> QED
  BY <1>1, <1>2, <1>3

\* A checkpoint that is kept from now on is in its store, and its call ends;
\* a named one comes from a call that no other one contests.
LEMMA NewlyKept ==
  ASSUME BaseInv, BringInv, NEW p \in Procs, Step(p), NEW k \in kept' \ kept
  PROVE  /\ Busy(p) /\ pc'[p] = "idle" /\ k.backend = Active(p)
         /\ k.named => p \notin contested
         /\ Present(k)'
<1> USE DEF BaseInv, TypeInv
<1>1. \A l : Goto(p, l) => pc'[p] = l
  BY DEF Goto, TypeOK
<1>2. CASE Write(p)
  <2>1. /\ k = call[p].arg /\ (k.named => p \notin contested)
        /\ pc[p] = "write" /\ pc'[p] = "idle" /\ store' = store
    BY <1>1, <1>2 DEF Write, Hands, Adds, Return
  <2>2. k.backend = Active(p) /\ k.named
    BY <2>1 DEF CallInv, Brought
  <2>3. Present(k)
    BY <2>1, <2>2 DEF BringInv, Brought
  <2> QED
    BY <2>1, <2>2, <2>3 DEF Busy, Present, Same
<1>3. CASE Create(p)
  <2>1. /\ taken < MaxContent /\ k = Makes(p) /\ k \in store'
        /\ (k.named => p \notin contested)
        /\ pc[p] = "create" /\ pc'[p] = "idle"
    BY <1>1, <1>3, Creates DEF Adds
  <2>2. k.backend = Active(p)
    BY <2>1, MakesArtifact
  <2> QED
    BY <2>1, <2>2 DEF Busy, Present, Same
<1>4. CASE Load(p)
  <2>1. /\ k = call[p].arg /\ (k.named => p \notin contested)
        /\ pc[p] = "load" /\ pc'[p] = "idle" /\ Readable(p, call[p].arg)
        /\ store' = Loaded(p, call[p].arg)
    BY <1>1, <1>4 DEF Load, Adds, Return
  <2>2. Present(k)'
    BY <1>4, <2>1, LoadBrings DEF Present, Same
  <2> QED
    BY <2>1, <2>2 DEF Busy, Readable
<1>5. CASE ~Write(p) /\ ~Create(p) /\ ~Load(p)
  BY <1>5 DEF Step, Begin, Gate, Passes, Read, Drop, Delete, Probe, Save, Crash,
              history
<1> QED
  BY <1>2, <1>3, <1>4, <1>5

\* Nothing is taken from a checkpoint that is still kept.
LEMMA KeptStep ==
  ASSUME BaseInv, KeepInv, NEW p \in Procs, Step(p)
  PROVE  Kept'
<1> USE DEF BaseInv, TypeInv, KeepInv
<1>1. ASSUME NEW k \in kept' PROVE Present(k)'
  <2>1. CASE k \notin kept
    BY <1>1, <2>1, NewlyKept
  <2>2. CASE k \in kept
    <3>1. Present(k) /\ k \in Artifact /\ Known(k)
      BY <2>2 DEF Kept, Present, Known, HandedInv, TypeOK
    <3>2. SUFFICES ASSUME ~Present(k)' PROVE FALSE
      OBVIOUS
    <3>3. k.backend = Active(p) /\ k.named
      BY <3>1, <3>2, TakenAway
    <3>4. CASE Replacing(p) /\ ~(call[p].op = "import" /\ k = call[p].arg)
      BY <2>2, <3>3, <3>4 DEF ClearInv
    <3>5. CASE /\ Load(p) /\ p \in Docker /\ call[p].arg.named /\ k # call[p].arg
               /\ kept' \subseteq (kept \ Costs(p, call[p].arg))
                                   \cup {call[p].arg}
      <4>1. k \notin Costs(p, call[p].arg)
        BY <1>1, <3>5
      <4> QED
        BY <2>2, <3>3, <3>5, <4>1 DEF Costs, Threatened
    <3> QED
      BY <3>1, <3>2, <3>4, <3>5, TakenAway
  <2> QED
    BY <2>1, <2>2
<1> QED
  BY <1>1 DEF Kept, Present

\* What a call has brought stays until it is registered, but for the calls
\* that contest it.
LEMMA BringStep ==
  ASSUME BaseInv, KeepInv, NEW p \in Procs, Step(p)
  PROVE  BringInv'
<1> USE DEF BaseInv, TypeInv, KeepInv
<1>1. \A l : Goto(p, l) => pc'[p] = l
  BY DEF Goto, TypeOK
<1>2. ASSUME NEW q \in Procs, Brought(q)
      PROVE  /\ call[q].arg.backend = Active(q) /\ call[q].arg \in Artifact
             /\ Known(call[q].arg)
  BY <1>2 DEF CallInv, Known, TypeOK
<1>3. ASSUME NEW q \in Procs \ {p}, Brought(q)', q \notin contested'
      PROVE  Present(call[q].arg)'
  <2>1. call'[q] = call[q] /\ pc'[q] = pc[q]
    BY OneMoves
  <2>2. Brought(q)
    BY <1>3, <2>1 DEF Brought
  <2>3. q \notin contested
    BY <1>3 DEF Step, Begin, Gate, Read, Drop, Write, Delete, Create, Probe,
                Save, Load, Crash, history
  <2>4. Present(call[q].arg)
    BY <2>2, <2>3 DEF BringInv
  <2>5. SUFFICES ASSUME ~Present(call[q].arg)' PROVE FALSE
    BY <2>1 DEF Present, Same
  <2>6. call[q].arg.backend = Active(p) /\ Busy(p)
    BY <1>2, <2>1, <2>2, <2>4, <2>5, TakenAway
  <2>7. Busy(q) /\ Active(q) = Active(p)
    BY <1>2, <2>2, <2>6 DEF Brought, Busy
  <2> QED
    BY <2>3, <2>6, <2>7 DEF RivalInv
<1>4. ASSUME Brought(p)', p \notin contested' PROVE Present(call[p].arg)'
  <2>1. CASE Begin(p)
    <3>1. PICK op \in Ops, doomed \in BOOLEAN, listed \in BOOLEAN,
               arg \in Artifact : Starts(p, op, doomed, listed, arg)
      BY <2>1, Begins
    <3>2. call'[p].op = op
      BY <3>1 DEF Starts, TypeOK
    <3> QED
      BY <1>1, <1>4, <3>1, <3>2 DEF Starts, Brought
  <2>2. CASE Gate(p) \/ Delete(p) \/ Probe(p) \/ Save(p) \/ Crash(p)
    <3>1. /\ call' = call
          /\ \/ pc'[p] \in {"idle", "dead", "create", "delete", "save"}
             \/ pc'[p] = "read" /\ call[p].op = "named"
      BY <1>1, <2>2 DEF Gate, Passes, Delete, Probe, Save, Crash, Return
    <3> QED
      BY <1>4, <3>1 DEF Brought
  <2>3. CASE Read(p)
    <3>1. /\ call'[p].arg = call[p].arg /\ call'[p].op = call[p].op
          /\ pc[p] = "read" /\ pc'[p] \in {"drop", "delete", "probe", "idle"}
      BY <1>1, <2>3, Reads DEF TypeOK
    <3>2. Brought(p) /\ store' = store /\ contested' = contested
      BY <1>4, <2>3, <3>1, Reads DEF Brought
    <3>3. Present(call[p].arg)
      BY <1>4, <3>2 DEF BringInv
    <3> QED
      BY <3>1, <3>2, <3>3 DEF Present, Same
  <2>4. CASE Drop(p)
    <3>1. /\ call' = call /\ pc[p] = "drop" /\ contested' = contested
          /\ pc'[p] = After(p)
      BY <1>1, <2>4 DEF Drop, history
    <3>2. call[p].op = "import"
      BY <1>4, <3>1 DEF Brought, After, StageInv, Stage, Busy
    <3>3. Brought(p)
      BY <3>1, <3>2 DEF Brought
    <3>4. Present(call[p].arg)
      BY <1>4, <3>1, <3>3 DEF BringInv
    <3>5. Present(call[p].arg)'
      BY <1>2, <2>4, <3>1, <3>2, <3>3, <3>4, TakenAway DEF Load
    <3> QED
      BY <3>1, <3>5 DEF Present, Same
  <2>5. CASE Write(p)
    BY <1>1, <1>4, <2>5 DEF Write, Return, Brought
  <2>6. CASE Create(p)
    <3>1. pc'[p] # "idle"
      BY <1>4 DEF Brought
    <3>2. call'[p].arg = Makes(p) /\ Makes(p) \in store'
      BY <1>1, <2>6, <3>1, Creates DEF TypeOK
    <3> QED
      BY <3>2 DEF Present, Same
  <2>7. CASE Load(p)
    <3>1. pc'[p] # "idle"
      BY <1>4 DEF Brought
    <3>2. /\ call' = call /\ Readable(p, call[p].arg)
          /\ store' = Loaded(p, call[p].arg)
      BY <1>1, <2>7, <3>1 DEF Load, Return
    <3> QED
      BY <2>7, <3>2, LoadBrings DEF Present, Same
  <2> QED
    BY <2>1, <2>2, <2>3, <2>4, <2>5, <2>6, <2>7 DEF Step
<1> QED
  BY <1>3, <1>4 DEF BringInv, Brought, Present

\* A replacement gives up what it may cost as it passes its refusals, and
\* no other call on the backend is kept from then on.
LEMMA ClearStep ==
  ASSUME BaseInv, KeepInv, NEW p \in Procs, Step(p)
  PROVE  ClearInv'
<1> USE DEF BaseInv, TypeInv, KeepInv
<1>1. \A l : Goto(p, l) => pc'[p] = l
  BY DEF Goto, TypeOK
<1> DEFINE Fine(q, k) == call'[q].op = "import" /\ k = call'[q].arg
<1>2. ASSUME NEW q \in Procs \ {p}, Replacing(q)', NEW k \in kept',
             k.backend = Active(q), k.named
      PROVE  Fine(q, k)
  <2>1. call'[q] = call[q] /\ pc'[q] = pc[q]
    BY OneMoves
  <2>2. Replacing(q) /\ Busy(q)
    BY <1>2, <2>1 DEF Replacing, Busy
  <2>3. CASE k \in kept
    BY <1>2, <2>1, <2>2, <2>3 DEF ClearInv
  <2>4. CASE k \notin kept
    <3>1. Busy(p) /\ k.backend = Active(p) /\ p \notin contested
      BY <1>2, <2>4, NewlyKept
    <3> QED
      BY <1>2, <2>2, <3>1 DEF RivalInv
  <2> QED
    BY <2>3, <2>4
<1>3. ASSUME Replacing(p)', NEW k \in kept', k.backend = Active(p), k.named
      PROVE  Fine(p, k)
  <2>1. pc'[p] # "idle" /\ k \in kept
    BY <1>3, NewlyKept DEF Replacing
  <2>2. k # None
    BY <1>3 DEF None
  <2>3. Replacing(p) => call[p].op = "import" /\ k = call[p].arg
    BY <1>3, <2>1 DEF ClearInv
  <2>4. CASE Begin(p)
    <3>1. PICK op \in Ops, doomed \in BOOLEAN, listed \in BOOLEAN,
               arg \in Artifact : Starts(p, op, doomed, listed, arg)
      BY <2>4, Begins
    <3>2. call'[p].op = op
      BY <3>1 DEF Starts, TypeOK
    <3>3. op = "remove"
      BY <1>1, <1>3, <3>1, <3>2 DEF Starts, Replacing
    <3>4. k \notin Threatened(Active(p), None)
      BY <1>3, <3>1, <3>3 DEF Starts
    <3> QED
      BY <1>3, <2>1, <2>2, <3>4 DEF Threatened
  <2>5. CASE Gate(p)
    <3>1. \/ pc'[p] = "create" /\ call' = call /\ call[p].op # "named"
             /\ pc[p] = "gate"
          \/ kept' = kept \ Threatened(Active(p), None)
      BY <1>1, <2>1, <2>5 DEF Gate, Passes, Return
    <3>2. kept' = kept \ Threatened(Active(p), None)
      BY <1>3, <3>1 DEF Replacing
    <3> QED
      BY <1>3, <2>1, <2>2, <3>2 DEF Threatened
  <2>6. CASE Read(p)
    <3>1. /\ call'[p].op = call[p].op /\ call'[p].arg = call[p].arg
          /\ pc[p] = "read"
          /\ pc'[p] = "drop" \/ call[p].op = "find"
      BY <1>1, <2>6, Reads DEF TypeOK
    <3>2. Replacing(p)
      BY <1>3, <3>1 DEF Replacing
    <3> QED
      BY <2>3, <3>1, <3>2
  <2>7. CASE Drop(p)
    <3>1. call' = call /\ pc[p] = "drop"
          /\ call[p].op \in {"named", "remove", "import"}
      BY <2>7 DEF Drop, StageInv, Stage, Busy
    <3>2. Replacing(p)
      BY <3>1 DEF Replacing
    <3> QED
      BY <2>3, <3>1, <3>2
  <2>8. CASE Create(p)
    <3>1. pc[p] = "create" /\ call[p].op = "named"
      BY <1>1, <2>1, <2>8, Creates
    <3>2. Replacing(p)
      BY <3>1 DEF Replacing
    <3> QED
      BY <2>3, <3>1, <3>2
  <2>9. CASE Load(p)
    <3>1. call' = call /\ call[p].listed /\ kept' = kept \ Costs(p, call[p].arg)
          /\ call[p].op = "import"
      BY <1>1, <2>1, <2>9 DEF Load, Return, StageInv, Stage, Busy
    <3>2. call[p].arg.named
      BY <3>1 DEF NameInv
    <3>3. k \notin Threatened(Active(p), call[p].arg)
      BY <1>3, <3>1, <3>2 DEF Costs
    <3> QED
      BY <1>3, <2>1, <3>1, <3>3 DEF Threatened
  <2>10. CASE Write(p) \/ Delete(p) \/ Probe(p) \/ Save(p) \/ Crash(p)
    <3>1. /\ call' = call
          /\ pc'[p] \in {"idle", "dead", "save"}
             \/ (pc'[p] = "delete" /\ call[p].op = "find")
      BY <1>1, <2>10 DEF Write, Delete, Probe, Save, Crash, Return, StageInv,
                         Stage, Busy
    <3> QED
      BY <1>3, <3>1 DEF Replacing
  <2> QED
    BY <2>4, <2>5, <2>6, <2>7, <2>8, <2>9, <2>10 DEF Step
<1>4. \A q \in Procs : Active(q) = Active(q)'
  BY DEF Active
<1> QED
  BY <1>2, <1>3, <1>4 DEF ClearInv

LEMMA KeepHolds == Spec => []KeepInv
<1>1. Init => KeepInv
  BY DEF Init, Idle, KeepInv, ClearInv, BringInv, Replacing, Brought, Kept
<1>2. BaseInv /\ KeepInv /\ [Next]_vars => KeepInv'
  <2>1. ASSUME BaseInv, KeepInv, NEW p \in Procs, Step(p) PROVE KeepInv'
    BY <2>1, KeptStep, BringStep, ClearStep DEF KeepInv
  <2>2. KeepInv /\ UNCHANGED vars => KeepInv'
    BY DEF vars, KeepInv, ClearInv, BringInv, Replacing, Brought, Present,
           Same, Kept, Active
  <2> QED
    BY <2>1, <2>2 DEF Next
<1> QED
  BY <1>1, <1>2, BaseHolds, PTL DEF Spec

\* A checkpoint handed to a caller stays in its store until a same-backend
\* replacement or removal has passed its refusals (checkpoint_named checks
\* before it removes; find, export_to and the other backend remove nothing).
THEOREM HandedIsKept == Spec => []Kept
<1>1. KeepInv => Kept
  BY DEF KeepInv
<1> QED
  BY <1>1, KeepHolds, PTL

-----------------------------------------------------------------------------
(* The registry                                                            *)

\* As long as no calls have overlapped, only the call that moves is under way.
LEMMA Alone ==
  ASSUME BaseInv, NEW p \in Procs, Step(p), ~overlap'
  PROVE  /\ ~overlap /\ contested = {}
         /\ \A q \in Procs \ {p} : pc'[q] \in {"idle", "dead"}
<1> USE DEF BaseInv, TypeInv
<1>1. \A q \in Procs \ {p} : pc'[q] = pc[q]
  BY OneMoves
<1> DEFINE busy == {q \in Procs \ {p} : pc[q] \notin {"idle", "dead"}}
<1>2. CASE Begin(p)
  <2>1. overlap' = (overlap \/ busy # {})
    BY <1>2 DEF Begin
  <2>2. ~overlap /\ busy = {}
    BY <2>1 DEF TypeOK
  <2> QED
    BY <1>1, <2>2 DEF RivalInv
<1>3. CASE ~Begin(p)
  <2>1. overlap' = overlap /\ Busy(p)
    BY <1>3 DEF Step, Gate, Read, Drop, Write, Delete, Create, Probe, Save,
                Load, Crash, history, Busy
  <2> QED
    BY <1>1, <2>1 DEF RivalInv, Busy
<1> QED
  BY <1>2, <1>3

\* What is expected keeps its entry and its artifact.
LEMMA ExpectedStep ==
  ASSUME BaseInv, KeepInv, AloneInv, NEW p \in Procs, Step(p), ~overlap',
         NEW e \in expected'
  PROVE  e \in entry' /\ Has(e)'
<1> USE DEF BaseInv, TypeInv
<1>1. ~overlap /\ contested = {}
  BY Alone
<1>2. e \in expected => e \in entry /\ Has(e)
  BY <1>1 DEF AloneInv
<1>3. CASE Write(p)
  <2>1. CASE entry' = {call[p].arg} /\ expected' = {call[p].arg}
    <3>1. Present(call[p].arg)
      BY <1>1, <1>3 DEF KeepInv, BringInv, Brought, Write
    <3> QED
      BY <1>3, <2>1, <3>1 DEF Present, Has, Write, Same
  <2>2. CASE UNCHANGED <<entry, expected>>
    BY <1>2, <1>3, <2>2 DEF Write, Has, Same
  <2> QED
    BY <1>3, <2>1, <2>2 DEF Write
<1>4. CASE Delete(p)
  BY <1>1, <1>4 DEF AloneInv, Delete, history
<1>5. CASE Drop(p)
  <2>1. e \in expected /\ entry' = entry /\ pc[p] = "drop"
        /\ call[p].op \in {"named", "remove", "import"}
    BY <1>5 DEF Drop, history, StageInv, Stage, Busy
  <2>2. PICK x \in store : Same(x, e)
    BY <1>2, <2>1 DEF Has
  <2>3. x \in store'
    <3>1. SUFFICES ASSUME x \notin store' PROVE FALSE
      OBVIOUS
    <3>2. PICK g \in call[p].seen :
            /\ g.backend = Active(p)
            /\ call[p].op = "import" => ~Same(g, call[p].arg)
            /\ store' = Without(g)
      BY <1>5, <3>1 DEF Drop
    <3>3. Same(x, g)
      BY <3>1, <3>2 DEF Without
    <3>4. e.backend = Active(p) /\ Same(g, e)
      BY <2>2, <3>2, <3>3 DEF Same
    <3>5. call[p].op = "import" /\ Same(e, call[p].arg)
      BY <1>1, <2>1, <3>4 DEF AloneInv, Replacing
    <3> QED
      BY <3>2, <3>4, <3>5 DEF Same
  <2> QED
    BY <1>2, <2>1, <2>2, <2>3 DEF Has, Same
<1>6. CASE Create(p)
  <2>1. e \in expected /\ entry' = entry
        /\ (store' = store \/ store' = Without(Makes(p)) \cup {Makes(p)})
    BY <1>6, Creates
  <2>2. Has(e)'
    BY <1>2, <2>1 DEF Has, Without, Same
  <2> QED
    BY <1>2, <2>1, <2>2
<1>7. CASE Load(p)
  <2>1. e \in expected /\ entry' = entry
    BY <1>7 DEF Load
  <2>2. Has(e)'
    BY <1>2, <1>7, <2>1 DEF Has, Load, Loaded, Tagged, Unpacked, Without, Same
  <2> QED
    BY <1>2, <2>1, <2>2
<1>8. CASE Begin(p) \/ Gate(p) \/ Read(p) \/ Probe(p) \/ Save(p) \/ Crash(p)
  <2>1. entry' = entry /\ store' = store
    BY <1>8 DEF Begin, Gate, Read, Probe, Save, Crash
  <2>2. expected' \subseteq expected
    BY <1>8 DEF Begin, Gate, Passes, Read, Probe, Save, Crash, history
  <2> QED
    BY <1>2, <2>1, <2>2 DEF Has, Same
<1> QED
  BY <1>3, <1>4, <1>5, <1>6, <1>7, <1>8 DEF Step

\* The only call under way works from the entry as it is, and what it takes
\* or replaces is no longer expected.
LEMMA WorkStep ==
  ASSUME BaseInv, AloneInv, NEW p \in Procs, Step(p), ~overlap'
  PROVE  /\ pc'[p] = "drop" \/ (pc'[p] = "probe" /\ call'[p].op = "find")
              => call'[p].seen = entry'
         /\ pc'[p] = "delete" => expected' = {}
         /\ Replacing(p)' => \A e \in expected' :
              /\ call'[p].op # "remove"
              /\ e.backend = Active(p)
                   => /\ call'[p].op = "import"
                      /\ pc'[p] = "read" \/ Same(e, call'[p].arg)
<1> USE DEF BaseInv, TypeInv
<1> DEFINE Aside == Replacing(p)' => \A e \in expected' :
              /\ call'[p].op # "remove"
              /\ e.backend = Active(p)
                   => /\ call'[p].op = "import"
                      /\ pc'[p] = "read" \/ Same(e, call'[p].arg)
<1>1. \A l : Goto(p, l) => pc'[p] = l
  BY DEF Goto, TypeOK
<1>2. ~overlap
  BY Alone
<1>3. \A e \in expected : e \in entry /\ Has(e)
  BY <1>2 DEF AloneInv
<1>4. Replacing(p) => \A e \in expected :
        /\ call[p].op # "remove"
        /\ e.backend = Active(p) => /\ call[p].op = "import"
                                    /\ pc[p] = "read" \/ Same(e, call[p].arg)
  BY <1>2 DEF AloneInv
<1>5. CASE Begin(p)
  <2>1. PICK op \in Ops, doomed \in BOOLEAN, listed \in BOOLEAN,
             arg \in Artifact : Starts(p, op, doomed, listed, arg)
    BY <1>5, Begins
  <2>2. call'[p].op = op
    BY <2>1 DEF Starts, TypeOK
  <2>3. /\ pc'[p] \in {"gate", "read", "probe", "load"}
        /\ pc'[p] = "probe" => op = "export"
        /\ pc'[p] = "read" => op = "find" \/ expected' = {}
    BY <1>1, <2>1 DEF Starts
  <2>4. Aside
    BY <2>2, <2>3 DEF Replacing, Starts
  <2> QED
    BY <2>2, <2>3, <2>4
<1>6. CASE Gate(p)
  <2>1. /\ call' = call
        /\ \/ pc'[p] = "idle"
           \/ pc'[p] = "create" /\ call[p].op # "named"
           \/ /\ pc'[p] = "read" /\ call[p].op = "named"
              /\ expected' = {e \in expected : e.backend # Active(p)}
    BY <1>1, <1>6 DEF Gate, Passes, Return
  <2> QED
    BY <2>1 DEF Replacing
<1>7. CASE Read(p)
  <2>1. /\ call'[p].op = call[p].op /\ call'[p].arg = call[p].arg
        /\ call'[p].seen = entry /\ entry' = entry /\ pc[p] = "read"
    BY <1>7, Reads DEF TypeOK
  <2>2. \/ call[p].op # "find" /\ pc'[p] = "drop"
        \/ call[p].op = "find" /\ pc'[p] \in {"probe", "idle"}
        \/ call[p].op = "find" /\ entry = {} /\ pc'[p] = "delete"
    BY <1>1, <1>7, Reads
  <2>3. \/ call[p].op # "import" /\ expected' = expected
        \/ /\ call[p].op = "import"
           /\ \A e \in expected' : e \in expected
                /\ (e.backend = Active(p) => Same(e, call[p].arg))
    BY <1>7, Reads DEF AtRisk
  <2>4. pc'[p] = "delete" => expected' = {}
    BY <1>3, <2>2, <2>3
  <2>5. Aside
    <3>1. CASE call[p].op = "import"
      BY <2>1, <2>3, <3>1
    <3>2. CASE call[p].op # "import"
      <4>1. Replacing(p)' => Replacing(p)
        BY <2>1, <2>2 DEF Replacing
      <4> QED
        BY <1>4, <2>1, <2>3, <3>2, <4>1
    <3> QED
      BY <3>1, <3>2
  <2> QED
    BY <2>1, <2>4, <2>5
<1>8. CASE Drop(p)
  <2>1. /\ call' = call /\ pc[p] = "drop" /\ expected' = expected
        /\ call[p].op \in {"named", "remove", "import"} /\ pc'[p] = After(p)
    BY <1>1, <1>8 DEF Drop, history, StageInv, Stage, Busy
  <2>2. Replacing(p)
    BY <2>1 DEF Replacing
  <2>3. /\ pc'[p] \in {"create", "delete", "write"}
        /\ pc'[p] = "delete" => call[p].op = "remove"
    BY <2>1 DEF After
  <2>4. Aside
    BY <1>4, <2>1, <2>2
  <2> QED
    BY <1>4, <2>1, <2>2, <2>3, <2>4
<1>9. CASE Create(p)
  <2>1. /\ expected' = expected /\ pc[p] = "create"
        /\ \/ pc'[p] = "idle"
           \/ pc'[p] = "write" /\ call[p].op = "named" /\ call'[p].op = "named"
    BY <1>1, <1>9, Creates DEF TypeOK
  <2>2. pc'[p] = "write" => Replacing(p)
    BY <2>1 DEF Replacing
  <2>3. Aside
    BY <1>4, <2>1, <2>2 DEF Replacing
  <2> QED
    BY <2>1, <2>3
<1>10. CASE Probe(p)
  <2>1. /\ call' = call /\ expected' = expected
        /\ \/ pc'[p] \in {"idle", "save"}
           \/ /\ pc'[p] = "delete" /\ pc[p] = "probe" /\ call[p].op = "find"
              /\ ~\E e \in call[p].seen : Has(e)
    BY <1>1, <1>10 DEF Probe, Return, history
  <2>2. pc'[p] = "delete" => call[p].seen = entry
    BY <1>2, <2>1 DEF AloneInv
  <2>3. pc'[p] = "delete" => expected' = {}
    BY <1>3, <2>1, <2>2
  <2> QED
    BY <2>1, <2>3 DEF Replacing
<1>11. CASE Load(p)
  <2>1. /\ call' = call
        /\ pc'[p] = "idle" \/ (pc'[p] = "read" /\ call[p].op = "import")
    BY <1>1, <1>11 DEF Load, Return, StageInv, Stage, Busy
  <2> QED
    BY <2>1 DEF Replacing
<1>12. CASE Write(p) \/ Delete(p) \/ Save(p) \/ Crash(p)
  <2>1. pc'[p] \in {"idle", "dead"}
    BY <1>1, <1>12 DEF Write, Delete, Save, Crash, Return
  <2> QED
    BY <2>1 DEF Replacing
<1> QED
  BY <1>5, <1>6, <1>7, <1>8, <1>9, <1>10, <1>11, <1>12 DEF Step

LEMMA AloneHolds == Spec => []AloneInv
<1>1. Init => AloneInv
  BY DEF Init, Idle, AloneInv, Replacing
<1>2. BaseInv /\ KeepInv /\ AloneInv /\ [Next]_vars => AloneInv'
  <2>1. ASSUME BaseInv, KeepInv, AloneInv, NEW p \in Procs, Step(p), ~overlap'
        PROVE  AloneInv'
    <3>1. \A e \in expected' : e \in entry' /\ Has(e)'
      BY <2>1, ExpectedStep
    <3>2. \A q \in Procs \ {p} : pc'[q] \in {"idle", "dead"}
      BY <2>1, Alone
    <3>3. \A q : Active(q)' = Active(q)
      BY DEF Active
    <3>4. \A q \in Procs :
            /\ pc'[q] = "drop" \/ (pc'[q] = "probe" /\ call'[q].op = "find")
                 => call'[q].seen = entry'
            /\ pc'[q] = "delete" => expected' = {}
            /\ Replacing(q)' => \A e \in expected' :
                 /\ call'[q].op # "remove"
                 /\ e.backend = Active(q)
                      => /\ call'[q].op = "import"
                         /\ pc'[q] = "read" \/ Same(e, call'[q].arg)
      BY <2>1, <3>2, WorkStep DEF Replacing
    <3> QED
      BY <3>1, <3>3, <3>4 DEF AloneInv, Same, Active
  <2>2. AloneInv /\ UNCHANGED vars => AloneInv'
    BY DEF vars, AloneInv, Replacing, Has, Same, Active
  <2> QED
    BY <2>1, <2>2 DEF Next, AloneInv
<1> QED
  BY <1>1, <1>2, BaseHolds, KeepHolds, PTL DEF Spec

\* As long as no two calls have overlapped, the registry names the last
\* checkpoint written until a same-backend replacement or a removal begins
\* (find_named deletes the entry only of an artifact it knows to be gone).
THEOREM LatestIsNamed == Spec => []LatestWins
<1>1. AloneInv => LatestWins
  BY DEF AloneInv, LatestWins
<1> QED
  BY <1>1, AloneHolds, PTL

\* The registry is written only after the backend has the artifact
\* (checkpoint_named and import_from_impl write it last).
THEOREM EntriesAreReal == Spec => OnceReal
<1> DEFINE Real == \A e \in entry' \ entry :
                     \/ \E x \in store : Same(x, e)
                     \/ overlap'
<1>1. BaseInv /\ KeepInv /\ [Next]_vars => [Real]_vars
  <2> SUFFICES ASSUME BaseInv, KeepInv, NEW p \in Procs, Step(p),
                      NEW e \in entry' \ entry, ~overlap'
               PROVE  \E x \in store : Same(x, e)
    BY DEF Next
  <2>1. contested = {}
    BY Alone
  <2>2. Write(p) /\ e = call[p].arg
    BY Creates, Reads DEF Step, Begin, Gate, Drop, Write, Delete, Create,
                          Probe, Save, Load, Crash, Read
  <2>3. Present(e)
    BY <2>1, <2>2 DEF KeepInv, BringInv, Brought, Write
  <2> QED
    BY <2>3 DEF Present
<1> QED
  BY <1>1, BaseHolds, KeepHolds, PTL DEF Spec, OnceReal

=============================================================================

----------------------------- MODULE ReuseProofs -----------------------------
(***************************************************************************)
(* Theorems about Reuse for every number of calls and attempts, both       *)
(* backends in any mix, every wait strategy and every fault.               *)
(***************************************************************************)
EXTENDS Reuse, TLAPS

\* The disjuncts of Next, one step of a call at a time; LateLands, of a call
\* that has ended, is apart.
Step(c) ==
  \/ Lookup(c) \/ Read(c) \/ Find(c) \/ Verify(c)
  \/ Clear(c) \/ Forget(c) \/ Probe(c) \/ Evict(c)
  \/ Create(c) \/ Boot(c) \/ Undo(c) \/ Rebind(c)
  \/ Wait(c) \/ Write(c) \/ Hook(c) \/ Unhook(c) \/ Unlink(c)
  \/ Stop(c) \/ Crash(c)

\* What a removal leaves of the sandboxes.
LEMMA RemovedTypes ==
  ASSUME TypeOK, NEW S \in SUBSET Calls, Removed(S)
  PROVE  /\ box' \in [Calls -> {"none", "down", "up"}]
         /\ slipped' \in BOOLEAN
         /\ \A d \in Calls : box'[d] \in {"none", box[d]}
         /\ ~slipped' => ~slipped /\ \A d \in S : box'[d] = "none"
<1>1. CASE box' = Gone(S) /\ UNCHANGED slipped
  BY <1>1 DEF TypeOK, Gone
<1>2. CASE UNCHANGED box /\ slipped' = TRUE
  BY <1>2 DEF TypeOK
<1> QED  BY <1>1, <1>2 DEF Removed

\* The sandboxes either removal is about: the call's own is one of them.
LEMMA RemovalSets ==
  ASSUME NEW c \in Calls
  PROVE  /\ Namesakes(c) \in SUBSET Calls
         /\ c \in Namesakes(c)
         /\ RemoveByName(c) <=> Removed(Namesakes(c))
         /\ RemoveByHandle(c) => \E S \in SUBSET Calls : c \in S /\ Removed(S)
<1>1. Namesakes(c) \in SUBSET Calls /\ c \in Namesakes(c)
  BY DEF Namesakes
<1>2. RemoveByName(c) <=> Removed(Namesakes(c))
  BY DEF RemoveByName
<1>3. ASSUME RemoveByHandle(c)
      PROVE  \E S \in SUBSET Calls : c \in S /\ Removed(S)
  <2>1. CASE UniqueNames(c)
    BY <1>3, <2>1 DEF RemoveByHandle
  <2>2. CASE ~UniqueNames(c)
    BY <1>1, <1>3, <2>2 DEF RemoveByHandle
  <2> QED  BY <2>1, <2>2
<1> QED  BY <1>1, <1>2, <1>3

\* The initial state has the types TypeOK gives.
LEMMA TypeInit == Init => TypeOK
<1> SUFFICES ASSUME Init PROVE TypeOK
  OBVIOUS
<1> USE ReuseAssumption DEF Init
<1>1. /\ backendOf \in [Calls -> Backends]
      /\ box \in [Calls -> {"none", "down", "up"}]
      /\ registry \in Calls \cup {None, Garbage}
      /\ pc \in [Calls -> PC]
  BY DEF PC
<1>2. /\ entry \in [Calls -> Calls \cup {None}]
      /\ handle \in [Calls -> Calls \cup {None}]
      /\ tries \in [Calls -> 0..Attempts]
  OBVIOUS
<1>3. /\ lost \subseteq Calls /\ {raced, slipped} \subseteq BOOLEAN
      /\ late \in [Calls -> {"no", "create", "boot", "landed"}]
  OBVIOUS
<1> QED  BY <1>1, <1>2, <1>3 DEF TypeOK

\* A call's step keeps every variable in its type.
LEMMA TypeStep ==
  ASSUME TypeOK, NEW c \in Calls, Step(c)
  PROVE  TypeOK'
<1> USE ReuseAssumption DEF TypeOK, PC, Goto, Set, locals, callVars
<1>1. ASSUME Lookup(c) \/ Read(c) \/ Find(c) \/ Verify(c) PROVE TypeOK'
  <2>1. CASE Lookup(c)
    BY <2>1 DEF Lookup
  <2>2. CASE Read(c)
    <3>1. CASE registry \in Calls
      BY <2>2, <3>1 DEF Read
    <3>2. CASE registry \notin Calls
      BY <2>2, <3>2 DEF Read, NotAdopted, Forgets
    <3> QED  BY <3>1, <3>2
  <2>3. CASE Find(c)
    <3>1. ASSUME NEW d \in Running(c), Goto(c, "verify"),
                 handle' = Set(handle, c, d), UNCHANGED <<entry, slipped>>
          PROVE  TypeOK'
      BY <2>3, <3>1 DEF Find, Running, Namesakes
    <3>2. ASSUME NoneListed(c), NotAdopted(c) PROVE TypeOK'
      BY <2>3, <3>2 DEF Find, NotAdopted, Forgets, NoneListed
    <3> QED  BY <2>3, <3>1, <3>2 DEF Find
  <2>4. CASE Verify(c)
    BY <2>4 DEF Verify, NotAdopted, Forgets
  <2> QED  BY <1>1, <2>1, <2>2, <2>3, <2>4
<1>2. ASSUME Clear(c) \/ Forget(c) \/ Probe(c) \/ Evict(c) PROVE TypeOK'
  <2>1. CASE Clear(c)
    BY <2>1, RemovedTypes, RemovalSets DEF Clear
  <2>2. CASE Forget(c)
    BY <2>2 DEF Forget
  <2>3. CASE Probe(c)
    BY <2>3 DEF Probe, NoneListed
  <2>4. CASE Evict(c)
    BY <2>4, RemovedTypes, RemovalSets DEF Evict
  <2> QED  BY <1>2, <2>1, <2>2, <2>3, <2>4
<1>3. ASSUME Create(c) \/ Boot(c) \/ Undo(c) \/ Rebind(c) PROVE TypeOK'
  <2>1. CASE Create(c)
    BY <2>1 DEF Create, NameConflict, Made, Settled
  <2>2. CASE Boot(c)
    BY <2>2 DEF Boot, NameConflict, Made, Settled
  <2>3. CASE Undo(c)
    BY <2>3, RemovedTypes, RemovalSets DEF Undo
  <2>4. CASE Rebind(c)
    BY <2>4, RemovedTypes, RemovalSets DEF Rebind, End, Forgets
  <2> QED  BY <1>3, <2>1, <2>2, <2>3, <2>4
<1>4. ASSUME Wait(c) \/ Write(c) \/ Hook(c) PROVE TypeOK'
  BY <1>4 DEF Wait, Write, Hook
<1>5. ASSUME Unhook(c) PROVE TypeOK'
  BY <1>5, RemovedTypes, RemovalSets DEF Unhook
<1>6. ASSUME Unlink(c) \/ Stop(c) PROVE TypeOK'
  <2>1. CASE Unlink(c)
    <3>1. /\ registry' \in Calls \cup {None, Garbage}
          /\ {raced', slipped'} \subseteq BOOLEAN
      BY <2>1 DEF Unlink
    <3> QED  BY <2>1, <3>1 DEF Unlink, End, Forgets
  <2>2. CASE Stop(c)
    BY <2>2 DEF Stop, End, Forgets
  <2> QED  BY <1>6, <2>1, <2>2
<1>7. ASSUME Crash(c) PROVE TypeOK'
  <2>1. late' \in [Calls -> {"no", "create", "boot", "landed"}]
    BY <1>7 DEF Crash, Asked
  <2> QED  BY <1>7, <2>1 DEF Crash, End, Forgets
<1> QED  BY <1>1, <1>2, <1>3, <1>4, <1>5, <1>6, <1>7 DEF Step

\* What happens without a call: workloads end, somebody removes things.
LEMMA Outside ==
  ASSUME TypeOK, (\E c \in Calls : Exit(c)) \/ ByHand \/ UNCHANGED vars
  PROVE  /\ TypeOK'
         /\ UNCHANGED <<backendOf, callVars>>
         /\ registry' \in {registry, None}
         /\ \A d \in Calls : box[d] = "none" => box'[d] = "none"
BY ReuseAssumption
   DEF TypeOK, Exit, ByHand, vars, callVars, locals, Set, Gone, Namesakes

\* What happens without a call starts no workload.
LEMMA OutsideEndsOnly ==
  ASSUME TypeOK, (\E c \in Calls : Exit(c)) \/ ByHand \/ UNCHANGED vars
  PROVE  \A d \in Calls : box'[d] = "up" => box[d] = "up"
BY DEF TypeOK, Exit, ByHand, Set, Gone, vars

\* What a call has left behind is done: it touches that call's sandbox alone.
LEMMA Landing ==
  ASSUME TypeOK, NEW c \in Calls, LateLands(c)
  PROVE  /\ TypeOK'
         /\ UNCHANGED <<backendOf, registry, pc, locals, lost, raced, slipped>>
         /\ late' = [late EXCEPT ![c] = "landed"]
         /\ \A d \in Calls \ {c} : box'[d] = box[d]
         /\ \/ late[c] = "create" /\ box'[c] = "down" /\ ~NameTaken(c)
            \/ late[c] = "boot" /\ box'[c] = "up" /\ Bootable(c)
<1>1. /\ UNCHANGED <<backendOf, registry, pc, locals, lost, raced, slipped>>
      /\ late' = [late EXCEPT ![c] = "landed"]
  BY DEF LateLands, Set
<1>2. \/ late[c] = "create" /\ box' = [box EXCEPT ![c] = "down"] /\ ~NameTaken(c)
      \/ late[c] = "boot" /\ box' = [box EXCEPT ![c] = "up"] /\ Bootable(c)
  BY DEF LateLands, Set
<1>3. TypeOK'
  BY <1>1, <1>2 DEF TypeOK, locals
<1> QED  BY <1>1, <1>2, <1>3 DEF TypeOK

\* Next is a step of a call or one of these.
LEMMA NextCases ==
  [Next]_vars => \/ \E c \in Calls : Step(c)
                 \/ \E c \in Calls : LateLands(c)
                 \/ (\E c \in Calls : Exit(c)) \/ ByHand \/ UNCHANGED vars
BY DEF Next, Step

\* Every variable of Reuse keeps its type (TypeOK).
THEOREM TypeCorrect == Spec => []TypeOK
<1>1. TypeOK /\ [Next]_vars => TypeOK'
  BY NextCases, TypeStep, Landing, Outside
<1> QED  BY TypeInit, <1>1, PTL DEF Spec

-----------------------------------------------------------------------------
(* The loser of a create race                                              *)

Harmless == {"read", "find", "verify", "guard", "failed", "over"}
LoserInv == \A c \in lost : UniqueNames(c) => pc[c] \in Harmless

\* What a call of docker's that has lost the race does next: it stays among
\* the steps that remove nothing.
LEMMA LoserStep ==
  ASSUME TypeOK, LoserInv, NEW c \in Calls, Step(c), UniqueNames(c)
  PROVE  /\ c \in lost => UNCHANGED box
         /\ c \in lost' => pc'[c] \in Harmless
<1> USE DEF TypeOK, LoserInv, Harmless, Goto
<1>1. CASE c \in lost
  <2>1. pc[c] \in Harmless
    BY <1>1
  <2>2. UNCHANGED box /\ pc'[c] \in Harmless
    BY <1>1, <2>1
       DEF Step, Lookup, Read, Find, Verify, Clear, Forget, Probe, Evict,
           Create, Boot, Undo, Rebind, Wait, Write, Hook, Unhook, Unlink,
           Stop, Crash, NotAdopted, End
  <2> QED  BY <2>2
<1>2. CASE c \notin lost
  <2>1. CASE Create(c)
    BY <1>2, <2>1 DEF Create, NameConflict, Made
  <2>2. CASE ~Create(c)
    BY <1>2, <2>2
       DEF Step, Lookup, Read, Find, Verify, Clear, Forget, Probe, Evict,
           Boot, Undo, Rebind, Wait, Write, Hook, Unhook, Unlink, Stop,
           Crash, Made
  <2> QED  BY <2>1, <2>2
<1> QED  BY <1>1, <1>2

\* A step of one call is nothing to the others' pc, and only its own conflict
\* joins lost.
LEMMA OthersStay ==
  ASSUME TypeOK, NEW c \in Calls, Step(c)
  PROVE  /\ backendOf' = backendOf
         /\ \A d \in Calls : d # c => pc'[d] = pc[d]
         /\ lost' \subseteq lost \cup {c}
BY DEF TypeOK, Goto, Step, Lookup, Read, Find, Verify, Clear, Forget, Probe,
       Evict, Create, Boot, Undo, Rebind, Wait, Write, Hook, Unhook, Unlink,
       Stop, Crash, NotAdopted, End, NameConflict, Made, locals

\* Where the losers of a create race on docker can be (LoserInv), ever.
LEMMA LoserInvariant == TypeOK /\ LoserInv /\ [Next]_vars => LoserInv'
<1> SUFFICES ASSUME TypeOK, LoserInv, [Next]_vars PROVE LoserInv'
  OBVIOUS
<1>1. ASSUME NEW c \in Calls, Step(c) PROVE LoserInv'
  BY <1>1, LoserStep, OthersStay DEF LoserInv, UniqueNames, TypeOK
<1>2. ASSUME UNCHANGED <<backendOf, callVars>> PROVE LoserInv'
  BY <1>2 DEF LoserInv, UniqueNames, callVars
<1>3. ASSUME NEW c \in Calls, LateLands(c) PROVE LoserInv'
  BY <1>3, Landing DEF LoserInv, UniqueNames
<1> QED  BY <1>1, <1>2, <1>3, NextCases, Outside

\* A call whose create docker refused because of the name removes no sandbox
\* from then on (LoserRemovesNothing).
THEOREM LoserIsHarmless == Spec => LoserRemovesNothing
<1>1. Init => LoserInv
  BY DEF Init, LoserInv
<1>2. TypeOK /\ LoserInv /\ [Next]_vars =>
        [\A c \in lost : UniqueNames(c) /\ pc'[c] # pc[c] =>
           \A d \in Calls : box'[d] = box[d]]_vars
  <2> SUFFICES ASSUME TypeOK, LoserInv, [Next]_vars,
                      NEW c \in lost, UniqueNames(c), pc'[c] # pc[c]
               PROVE  UNCHANGED box
    OBVIOUS
  <2>1. c \in Calls
    BY DEF TypeOK
  <2>2. ASSUME NEW d \in Calls, Step(d) PROVE UNCHANGED box
    BY <2>1, <2>2, LoserStep, OthersStay
  <2> QED  BY <2>2, NextCases, Landing, Outside DEF callVars
<1> QED
  BY <1>1, <1>2, TypeCorrect, LoserInvariant, PTL
     DEF Spec, LoserRemovesNothing

-----------------------------------------------------------------------------
(* Failed calls                                                            *)

\* the labels of a call that has made nothing, or has undone it
Bare == {"idle", "read", "find", "verify", "clear", "forget", "probe",
         "evict", "create", "unlink", "failed"}
\* the labels of a call that may have written the registry
Written == {"hook", "unhook", "unlink", "guard", "over"}
\* past the write of its entry a call makes no sandbox
Past == Written \cup {"failed"}

\* only a call that has ended leaves anything behind
LateInv ==
  \A c \in Calls : /\ late[c] # "no" => pc[c] \in {"failed", "over"}
                   /\ late[c] = "boot" => pc[c] = "over"
BareInv ==
  ~slipped => \A c \in Calls : pc[c] \in Bare =>
    box[c] # "up" /\ (late[c] = "no" => box[c] = "none")
EntryInv ==
  \A c \in Calls : registry = c =>
    /\ pc[c] \in Past /\ late[c] = "no"
    /\ ~slipped => pc[c] \in Written

\* What a step of a call leaves behind.
LEMMA LateStep ==
  ASSUME TypeOK, LateInv, NEW c \in Calls, Step(c)
  PROVE  /\ late[c] = "no" /\ late'[c] # "landed"
         /\ \A d \in Calls \ {c} : late'[d] = late[d]
         /\ late'[c] # "no" => pc'[c] \in {"failed", "over"}
         /\ late'[c] = "boot" => pc'[c] = "over"
         /\ late'[c] = "no" \/ pc[c] \in {"create", "boot"}
<1> USE DEF TypeOK, LateInv, Goto, Set
<1>1. late[c] = "no"
  BY DEF Step, Lookup, Read, Find, Verify, Clear, Forget, Probe, Evict, Create,
       Boot, Undo, Rebind, Wait, Write, Hook, Unhook, Unlink, Stop, Crash,
       InProgress
<1>2. CASE Create(c)
  BY <1>1, <1>2 DEF Create
<1>3. CASE Crash(c)
  BY <1>1, <1>3 DEF Crash, Asked, End
<1>4. CASE ~Create(c) /\ ~Crash(c)
  <2>1. late' = late
    BY <1>4 DEF Step, Lookup, Read, Find, Verify, Clear, Forget, Probe, Evict,
         Boot, Undo, Rebind, Wait, Write, Hook, Unhook, Unlink, Stop
  <2> QED  BY <1>1, <2>1
<1> QED  BY <1>2, <1>3, <1>4

\* What has landed, has landed without a step of a call.
LEMMA LandedStays ==
  ASSUME TypeOK, LateInv, NEW c \in Calls, Step(c)
  PROVE  Landed' = Landed
BY LateStep DEF Landed

\* The history variables never go back.
LEMMA HistoryStays ==
  ASSUME TypeOK, NEW c \in Calls, Step(c)
  PROVE  (~raced' => ~raced) /\ (~slipped' => ~slipped)
<1>1. ASSUME ~raced' PROVE ~raced
  BY <1>1 DEF Step, Lookup, Read, Find, Verify, Clear, Forget, Probe, Evict,
       Create, Boot, Undo, Rebind, Wait, Write, Hook, Unhook, Unlink, Stop,
       Crash
<1>2. ASSUME ~slipped' PROVE ~slipped
  <2>1. CASE Clear(c) \/ Evict(c) \/ Undo(c) \/ Rebind(c) \/ Unhook(c)
    <3>1. PICK S \in SUBSET Calls : Removed(S)
      BY <2>1, RemovalSets DEF Clear, Evict, Undo, Rebind, Unhook
    <3> QED  BY <1>2, <3>1, RemovedTypes
  <2>2. CASE ~(Clear(c) \/ Evict(c) \/ Undo(c) \/ Rebind(c) \/ Unhook(c))
    BY <1>2, <2>2
       DEF Step, Lookup, Read, Find, Verify, Forget, Probe, Create, Boot, Wait,
           Write, Hook, Unlink, Stop, Crash, NoneListed
  <2> QED  BY <2>1, <2>2
<1> QED  BY <1>1, <1>2

\* Steps of a call that neither make nor remove a sandbox and stay on their
\* side of the create.
LEMMA BareStep ==
  ASSUME TypeOK, LateInv, BareInv, NEW c \in Calls, Step(c), ~slipped'
  PROVE  /\ \A d \in Calls \ {c} : box'[d] \in {"none", box[d]}
         /\ pc'[c] \in Bare =>
              box'[c] # "up" /\ (late'[c] = "no" => box'[c] = "none")
<1>1. ~slipped /\ (pc[c] \in Bare => box[c] = "none")
  BY HistoryStays, LateStep DEF BareInv
<1> USE DEF TypeOK, Bare, Goto, Set
<1>2. CASE Lookup(c) \/ Read(c) \/ Find(c) \/ Verify(c)
  BY <1>1, <1>2 DEF Lookup, Read, Find, Verify
<1>3. CASE Forget(c) \/ Probe(c) \/ Wait(c) \/ Write(c) \/ Hook(c)
           \/ Unlink(c) \/ Stop(c) \/ Crash(c)
  BY <1>1, <1>3 DEF Forget, Probe, Wait, Write, Hook, Unlink, Stop, Crash, End
<1>4. CASE Create(c)
  BY <1>1, <1>4 DEF Create, NameConflict, Made
<1>5. CASE Boot(c)
  BY <1>5 DEF Boot, NameConflict, Made
<1>6. CASE Clear(c) \/ Evict(c) \/ Undo(c) \/ Rebind(c) \/ Unhook(c)
  <2>1. PICK S \in SUBSET Calls : c \in S /\ Removed(S)
    BY <1>6, RemovalSets DEF Clear, Evict, Undo, Rebind, Unhook
  <2> QED  BY <2>1, RemovedTypes
<1> QED  BY <1>2, <1>3, <1>4, <1>5, <1>6 DEF Step

\* Only a call's own write makes its entry, only its own end leaves Written.
LEMMA EntryStep ==
  ASSUME TypeOK, LateInv, EntryInv, NEW c \in Calls, Step(c)
  PROVE  /\ registry' \in {registry, None, c}
         /\ registry' = c => pc'[c] \in Past /\ late'[c] = "no"
         /\ registry' = c /\ ~slipped' => pc'[c] \in Written
<1> USE ReuseAssumption DEF TypeOK, EntryInv, Written, Past, Goto
<1>1. CASE Write(c)
  BY <1>1, LateStep DEF Write
<1>2. CASE Forget(c)
  BY <1>2 DEF Forget
<1>3. CASE Unlink(c)
  BY <1>3, LateStep DEF Unlink, End
<1>4. CASE ~(Write(c) \/ Forget(c) \/ Unlink(c))
  <2>1. registry' = registry
    BY <1>4 DEF Step, Lookup, Read, Find, Verify, Clear, Probe, Evict, Create,
         Boot, Undo, Rebind, Wait, Hook, Unhook, Stop, Crash
  <2>2. ASSUME pc[c] \in Past
        PROVE  pc'[c] \in Written /\ pc[c] \notin {"create", "boot"}
    BY <1>4, <2>2
       DEF Step, Lookup, Read, Find, Verify, Clear, Probe, Evict, Create, Boot,
           Undo, Rebind, Wait, Hook, Unhook, Stop, Crash, End, InProgress
  <2> QED  BY <2>1, <2>2, LateStep
<1> QED  BY <1>1, <1>2, <1>3, <1>4

\* The registry names only calls past their write, after any step of a call.
LEMMA EntryStays ==
  ASSUME TypeOK, LateInv, EntryInv, NEW c \in Calls, Step(c)
  PROVE  EntryInv'
<1> SUFFICES ASSUME NEW d \in Calls, registry' = d
             PROVE  /\ pc'[d] \in Past /\ late'[d] = "no"
                    /\ ~slipped' => pc'[d] \in Written
  BY DEF EntryInv
<1>1. CASE d = c
  BY <1>1, EntryStep
<1>2. CASE d # c
  <2>1. registry = d
    BY <1>2, EntryStep, ReuseAssumption
  <2>2. pc'[d] = pc[d] /\ late'[d] = late[d]
    BY <1>2, OthersStay, LateStep
  <2>3. ~slipped' => ~slipped
    BY HistoryStays
  <2> QED  BY <2>1, <2>2, <2>3 DEF EntryInv
<1> QED  BY <1>1, <1>2

FailInv == LateInv /\ BareInv /\ EntryInv

\* The three invariants are kept by every step.
LEMMA FailureInvariant == TypeOK /\ FailInv /\ [Next]_vars => FailInv'
<1> SUFFICES ASSUME TypeOK, FailInv, [Next]_vars PROVE FailInv'
  OBVIOUS
<1> USE DEF FailInv
<1>1. ASSUME NEW c \in Calls, Step(c) PROVE FailInv'
  <2>1. LateInv'
    BY <1>1, LateStep, OthersStay DEF LateInv
  <2>2. BareInv'
    BY <1>1, BareStep, LateStep, OthersStay, HistoryStays DEF BareInv
  <2>3. EntryInv'
    BY <1>1, EntryStays
  <2> QED  BY <2>1, <2>2, <2>3
<1>2. ASSUME NEW c \in Calls, LateLands(c) PROVE FailInv'
  <2>1. late[c] # "no" /\ late'[c] = "landed"
    BY <1>2, Landing DEF TypeOK
  <2>2. \A d \in Calls \ {c} : late'[d] = late[d] /\ box'[d] = box[d]
    BY <1>2, Landing DEF TypeOK
  <2>3. LateInv'
    BY <1>2, <2>1, <2>2, Landing DEF LateInv
  <2>4. BareInv'
    BY <1>2, <2>1, <2>2, Landing DEF LateInv, BareInv, Bare
  <2>5. EntryInv'
    BY <1>2, <2>1, <2>2, Landing DEF EntryInv
  <2> QED  BY <2>3, <2>4, <2>5
<1>3. ASSUME (\E c \in Calls : Exit(c)) \/ ByHand \/ UNCHANGED vars
      PROVE  FailInv'
  <2>1. /\ UNCHANGED callVars /\ registry' \in {registry, None}
        /\ \A d \in Calls : box[d] = "none" => box'[d] = "none"
        /\ \A d \in Calls : box'[d] = "up" => box[d] = "up"
    BY <1>3, Outside, OutsideEndsOnly
  <2> QED  BY <2>1, ReuseAssumption DEF LateInv, BareInv, EntryInv, callVars
<1> QED  BY <1>1, <1>2, <1>3, NextCases

\* No call has asked for anything, and there is nothing.
LEMMA FailureInit == Init => FailInv
BY ReuseAssumption DEF Init, FailInv, LateInv, BareInv, EntryInv

\* A start that failed leaves no entry for a sandbox of its own, nothing that
\* runs, and no sandbox unless docker made it in a create that failed; unless a
\* removal has failed (FailedLeavesNothing).
THEOREM FailureIsClean == Spec => []FailedLeavesNothing
<1>1. FailInv => FailedLeavesNothing
  BY DEF FailInv, BareInv, EntryInv, Bare, Written, FailedLeavesNothing
<1> QED  BY <1>1, FailureInit, TypeCorrect, FailureInvariant, PTL DEF Spec

-----------------------------------------------------------------------------
(* One call after the other                                                *)

OneAtATime ==
  \A c, d \in Calls : pc[c] \in InProgress /\ pc[d] \in InProgress => c = d

\* what runs under the name while a call creates
Cleared ==
  \A c \in Calls :
    /\ pc[c] \in {"create", "boot"} => Running(c) \subseteq Landed
    /\ pc[c] = "rebind" => Running(c) \subseteq Landed \cup {c}

OneWorkload ==
  \A c, d \in Calls \ Landed :
    box[c] = "up" /\ box[d] = "up" /\ backendOf[c] = backendOf[d] => c = d

SoleInv == ~raced /\ ~slipped => OneAtATime /\ Cleared /\ OneWorkload

\* As long as no two calls have overlapped one is in progress.
LEMMA OneAtATimeStep ==
  ASSUME TypeOK, OneAtATime, NEW c \in Calls, Step(c), ~raced'
  PROVE  /\ OneAtATime'
         /\ \A d \in Calls : d # c /\ pc[d] \in InProgress => pc[c] = "guard"
<1>1. CASE Lookup(c)
  BY <1>1, OthersStay DEF Lookup, OneAtATime
<1>2. CASE Stop(c) \/ Crash(c)
  <2>1. pc'[c] \notin InProgress /\ pc[c] \in InProgress \cup {"guard"}
    BY <1>2 DEF Stop, Crash, End, Goto, InProgress, TypeOK
  <2> QED  BY <2>1, OthersStay DEF OneAtATime
<1>3. CASE ~(Lookup(c) \/ Stop(c) \/ Crash(c))
  <2>1. pc[c] \in InProgress
    BY <1>3 DEF Step, Read, Find, Verify, Clear, Forget, Probe, Evict, Create,
         Boot, Undo, Rebind, Wait, Write, Hook, Unhook, Unlink, InProgress, PC
  <2> QED  BY <2>1, OthersStay DEF OneAtATime
<1> QED  BY <1>1, <1>2, <1>3

\* What a step of a call does to the sandboxes: it removes some, or makes its
\* own while it creates.
LEMMA Boxes ==
  ASSUME TypeOK, NEW c \in Calls, Step(c)
  PROVE  \/ \A d \in Calls : box'[d] \in {"none", box[d]}
         \/ /\ pc[c] \in {"create", "boot"}
            /\ \A d \in Calls \ {c} : box'[d] = box[d]
            /\ pc'[c] = "boot" => box'[c] = "down"
<1> USE DEF TypeOK, Goto, Set
<1>1. CASE Create(c)
  BY <1>1 DEF Create, NameConflict, Made
<1>2. CASE Boot(c)
  BY <1>2 DEF Boot, NameConflict, Made
<1>3. CASE Clear(c) \/ Evict(c) \/ Undo(c) \/ Rebind(c) \/ Unhook(c)
  <2>1. PICK S \in SUBSET Calls : c \in S /\ Removed(S)
    BY <1>3, RemovalSets DEF Clear, Evict, Undo, Rebind, Unhook
  <2> QED  BY <2>1, RemovedTypes
<1>4. CASE ~(\/ Create(c) \/ Boot(c) \/ Clear(c) \/ Evict(c) \/ Undo(c)
             \/ Rebind(c) \/ Unhook(c))
  BY <1>4 DEF Step, Lookup, Read, Find, Verify, Forget, Probe, Wait, Write,
       Hook, Unlink, Stop, Crash
<1> QED  BY <1>1, <1>2, <1>3, <1>4

\* A call comes to its create only when nothing runs under the name but what
\* has landed since, and from a failed boot with its own sandbox besides.
LEMMA ClearedStep ==
  ASSUME TypeOK, OneAtATime, Cleared, OneWorkload, NEW c \in Calls, Step(c),
         ~raced', ~slipped'
  PROVE  /\ pc'[c] \in {"create", "boot"} =>
              \A d \in Namesakes(c) \ Landed : box'[d] # "up"
         /\ pc'[c] = "rebind" =>
              \A d \in Namesakes(c) \ (Landed \cup {c}) : box'[d] # "up"
<1> USE DEF TypeOK, Goto, Set, Running, Namesakes
<1>1. CASE Create(c) \/ Boot(c)
  <2>1. /\ \A d \in Namesakes(c) \ Landed : box[d] # "up"
        /\ \A d \in Namesakes(c) \ (Landed \cup {c}) : box'[d] # "up"
    BY <1>1, Boxes DEF Create, Boot, Cleared
  <2>2. pc'[c] \in {"create", "boot"} => c \in Landed \/ box'[c] # "up"
    BY <1>1, <2>1 DEF Create, Boot, Made, NameConflict
  <2> QED  BY <2>1, <2>2
<1>2. CASE Probe(c)
  BY <1>2 DEF Probe, NoneListed
<1>3. CASE Evict(c)
  BY <1>3, RemovalSets, RemovedTypes DEF Evict
<1>4. CASE Rebind(c)
  <2>1. PICK S \in SUBSET Calls : c \in S /\ Removed(S)
    BY <1>4, RemovalSets DEF Rebind
  <2>2. \A d \in Namesakes(c) \ (Landed \cup {c}) : box[d] # "up"
    BY <1>4 DEF Rebind, Cleared
  <2> QED  BY <1>4, <2>1, <2>2, RemovedTypes DEF Rebind, End
<1>5. CASE ~(Create(c) \/ Boot(c) \/ Probe(c) \/ Evict(c) \/ Rebind(c))
  BY <1>5 DEF Step, Lookup, Read, Find, Verify, Clear, Forget, Undo, Wait,
       Write, Hook, Unhook, Unlink, Stop, Crash, NotAdopted, End
<1> QED  BY <1>1, <1>2, <1>3, <1>4, <1>5 DEF Step

\* A step of a call keeps the order of calls that take turns.
LEMMA SoleStep ==
  ASSUME TypeOK, LateInv, SoleInv, NEW c \in Calls, Step(c)
  PROVE  SoleInv'
<1> SUFFICES ASSUME ~raced', ~slipped'
             PROVE  OneAtATime' /\ Cleared' /\ OneWorkload'
  BY DEF SoleInv
<1>1. OneAtATime /\ Cleared /\ OneWorkload
  BY HistoryStays DEF SoleInv
<1>2. OneAtATime'
  BY <1>1, OneAtATimeStep
<1>3. backendOf' = backendOf /\ Landed' = Landed
  BY OthersStay, LandedStays
<1>4. Cleared'
  <2> SUFFICES ASSUME NEW d \in Calls
               PROVE  /\ pc'[d] \in {"create", "boot"} =>
                           Running(d)' \subseteq Landed'
                      /\ pc'[d] = "rebind" =>
                           Running(d)' \subseteq Landed' \cup {d}
    BY DEF Cleared
  <2>1. CASE d = c
    BY <1>1, <1>3, <2>1, ClearedStep DEF Running, Namesakes
  <2>2. CASE d # c /\ pc'[d] \in {"create", "boot", "rebind"}
    <3>1. pc[d] \in {"create", "boot", "rebind"} /\ pc[c] = "guard"
      BY <1>1, <2>2, OthersStay, OneAtATimeStep DEF InProgress, PC
    <3>2. \A e \in Calls : box'[e] \in {"none", box[e]}
      BY <3>1, Boxes
    <3> QED  BY <1>1, <1>3, <2>2, <3>1, <3>2, OthersStay
                DEF Cleared, Running, Namesakes
  <2> QED  BY <2>1, <2>2
<1>5. OneWorkload'
  BY <1>1, <1>3, Boxes DEF OneWorkload, Cleared, Running, Namesakes
<1> QED  BY <1>2, <1>4, <1>5

\* No call has begun, and nothing runs.
LEMMA SoleInit == Init => SoleInv
BY ReuseAssumption
   DEF Init, SoleInv, OneAtATime, Cleared, OneWorkload, InProgress

\* The order of calls that take turns, through every step.
LEMMA SoleInvariant == TypeOK /\ LateInv /\ SoleInv /\ [Next]_vars => SoleInv'
<1>1. ASSUME SoleInv, UNCHANGED <<backendOf, pc, raced, slipped>>,
             Landed \subseteq Landed',
             \A d \in Calls : box'[d] = "up" => box[d] = "up" \/ d \in Landed'
      PROVE  SoleInv'
  BY <1>1 DEF SoleInv, OneAtATime, Cleared, OneWorkload, Running, Namesakes
<1>2. ASSUME TypeOK, SoleInv, NEW c \in Calls, LateLands(c) PROVE SoleInv'
  <2>1. Landed' = Landed \cup {c}
    BY <1>2, Landing DEF Landed, TypeOK
  <2> QED  BY <1>1, <1>2, <2>1, Landing
<1>3. ASSUME TypeOK, SoleInv,
             (\E c \in Calls : Exit(c)) \/ ByHand \/ UNCHANGED vars
      PROVE  SoleInv'
  <2>1. UNCHANGED <<backendOf, callVars>> /\ Landed' = Landed
    BY <1>3, Outside DEF callVars, Landed
  <2> QED  BY <1>1, <1>3, <2>1, OutsideEndsOnly DEF callVars
<1> QED  BY <1>2, <1>3, NextCases, SoleStep

\* Starts that do not overlap never run two workloads under the name, unless a
\* removal or a query has failed, or what a dead start had asked for has come
\* up after all (SoleWorkload).
THEOREM TurnsAreSole == Spec => []SoleWorkload
<1>1. SoleInv => SoleWorkload
  BY DEF SoleInv, OneWorkload, SoleWorkload
<1>2. FailInv => LateInv
  BY DEF FailInv
<1> QED  BY <1>1, <1>2, SoleInit, SoleInvariant, FailureInit, FailureInvariant,
           TypeCorrect, PTL DEF Spec

-----------------------------------------------------------------------------
(* Adoption                                                                *)

AllDocker == \A c \in Calls : UniqueNames(c)
\* where adoption is safe: on docker, or in turns that nothing disturbed
Orderly == OneBackend /\ (AllDocker \/ Undisturbed)

OneOfAName ==
  \A c, d \in Calls : box[c] # "none" /\ box[d] # "none" => c = d
EntryIsPast ==
  \A c \in Calls : pc[c] \in {"find", "verify"} =>
    entry[c] \in Calls /\ pc[entry[c]] \in Past /\ late[entry[c]] = "no"
\* between its two looks: the entry's sandbox is the one found, or it does not
\* run, and will not again
FoundOrDown ==
  \A c \in Calls : pc[c] = "verify" =>
    handle[c] = entry[c] \/ box[entry[c]] # "up"
GuardIsOne ==
  \A c \in Calls : pc[c] \in {"hook", "guard"} => handle[c] = entry[c]

AdoptionInv ==
  /\ EntryInv /\ EntryIsPast
  /\ AllDocker => OneOfAName
  /\ Orderly => FoundOrDown /\ GuardIsOne

\* Where adoption is safe one workload runs, for one reason or the other.
LEMMA OrderlyIsSole ==
  ASSUME TypeOK, AdoptionInv, SoleInv, Orderly,
         NEW c \in Calls, NEW d \in Calls, box[c] = "up", box[d] = "up"
  PROVE  c = d
<1>1. CASE AllDocker
  BY <1>1 DEF AdoptionInv, OneOfAName
<1>2. CASE Undisturbed
  BY <1>2 DEF SoleInv, OneWorkload, Orderly, OneBackend, Undisturbed
<1> QED  BY <1>1, <1>2 DEF Orderly

\* What a step of a call does to the sandboxes when all are docker's: at most
\* one comes to be, that of a call before its write, while there is no other.
LEMMA DockerBoxes ==
  ASSUME TypeOK, AllDocker, NEW c \in Calls, Step(c)
  PROVE  \/ \A d \in Calls : box'[d] \in {"none", box[d]}
         \/ /\ \A d \in Calls \ {c} : box'[d] = box[d]
            /\ box[c] # "none" \/ \A d \in Calls : box[d] = "none"
<1> USE DEF TypeOK, AllDocker, Goto, Set
<1>1. CASE Create(c)
  BY <1>1 DEF Create, NameConflict, Made, NameTaken, Namesakes, UniqueNames
<1>2. CASE Boot(c)
  BY <1>2 DEF Boot, NameConflict, Made, Bootable
<1>3. CASE Crash(c)
  BY <1>3 DEF Crash
<1>4. CASE ~(Create(c) \/ Boot(c) \/ Crash(c))
  <2>1. pc[c] \notin {"create", "boot"}
    BY <1>4
       DEF Step, Lookup, Read, Find, Verify, Clear, Forget, Probe, Evict, Undo,
           Rebind, Wait, Write, Hook, Unhook, Unlink, Stop
  <2> QED  BY <2>1, Boxes
<1> QED  BY <1>1, <1>2, <1>3, <1>4

\* A call goes by its entry and handle alone, and past its write it stays
\* there.
LEMMA OwnBooks ==
  ASSUME TypeOK, NEW c \in Calls, Step(c)
  PROVE  /\ \A d \in Calls \ {c} :
              entry'[d] = entry[d] /\ handle'[d] = handle[d]
         /\ pc[c] \in Past => pc'[c] \in Past
<1>1. \A d \in Calls \ {c} : entry'[d] = entry[d] /\ handle'[d] = handle[d]
  BY DEF TypeOK, Set, Step, Lookup, Read, Find, Verify, Clear, Forget, Probe,
       Evict, Create, Boot, Undo, Rebind, Wait, Write, Hook, Unhook, Unlink,
       Stop, Crash, NotAdopted, Forgets, End, locals
<1>2. pc[c] \in Past => pc'[c] \in Past
  BY DEF TypeOK, Past, Written, Goto, Step, Lookup, Read, Find, Verify, Clear,
       Forget, Probe, Evict, Create, Boot, Undo, Rebind, Wait, Write, Hook,
       Unhook, Unlink, Stop, Crash, End
<1> QED  BY <1>1, <1>2

\* The entry the call that steps goes by afterwards is of a call past its
\* write.
LEMMA EntryReadIsPast ==
  ASSUME TypeOK, EntryInv, EntryIsPast, NEW c \in Calls, Step(c),
         pc'[c] \in {"find", "verify"}
  PROVE  /\ entry'[c] \in Calls /\ pc[entry'[c]] \in Past
         /\ late[entry'[c]] = "no"
<1> USE DEF TypeOK, Goto, Set
<1>1. CASE Read(c)
  <2>1. CASE registry \in Calls
    BY <1>1, <2>1 DEF Read, EntryInv
  <2>2. CASE registry \notin Calls
    BY <1>1, <2>2 DEF Read, NotAdopted
  <2> QED  BY <2>1, <2>2
<1>2. CASE Find(c)
  BY <1>2 DEF Find, NotAdopted, EntryIsPast
<1>3. CASE ~Read(c) /\ ~Find(c)
  BY <1>3 DEF Step, Lookup, Verify, NotAdopted, Clear, Forget, Probe, Evict,
       Create, Boot, Undo, Rebind, Wait, Write, Hook, Unhook, Unlink, Stop,
       Crash, End
<1> QED  BY <1>1, <1>2, <1>3

\* What it knows of the sandbox it found.
LEMMA AdopterStep ==
  ASSUME TypeOK, AdoptionInv, SoleInv, Orderly, WaitsOn = "ports",
         NEW c \in Calls, Step(c)
  PROVE  /\ pc'[c] = "verify" =>
              handle'[c] = entry'[c] \/ box'[entry'[c]] # "up"
         /\ pc'[c] \in {"hook", "guard"} => handle'[c] = entry'[c]
<1> USE DEF TypeOK, Goto, Set
<1>1. CASE Read(c)
  BY <1>1 DEF Read, NotAdopted
<1>2. CASE Find(c)
  <2>1. CASE NotAdopted(c)
    BY <2>1 DEF NotAdopted
  <2>2. ASSUME NEW d \in Running(c), Goto(c, "verify"),
               handle' = Set(handle, c, d), UNCHANGED entry
        PROVE  d = entry[c] \/ box[entry[c]] # "up"
    <3>1. d \in Calls /\ box[d] = "up" /\ pc[c] = "find"
      BY <1>2, <2>2 DEF Find, Running, Namesakes
    <3>2. entry[c] \in Calls
      BY <3>1 DEF AdoptionInv, EntryIsPast
    <3> QED  BY <3>1, <3>2, OrderlyIsSole
  <2> QED  BY <1>2, <2>1, <2>2 DEF Find
<1>3. CASE Verify(c)
  BY <1>3 DEF Verify, NotAdopted, Answering, AdoptionInv, FoundOrDown
<1>4. CASE Write(c) \/ Hook(c)
  BY <1>4 DEF Write, Hook, AdoptionInv, GuardIsOne, locals
<1>5. CASE ~(Read(c) \/ Find(c) \/ Verify(c) \/ Write(c) \/ Hook(c))
  BY <1>5 DEF Step, Lookup, Clear, Forget, Probe, Evict, Create, Boot, Undo,
       Rebind, Wait, Unhook, Unlink, Stop, Crash, End
<1> QED  BY <1>1, <1>2, <1>3, <1>4, <1>5

\* A step of a call keeps what ties entries, handles and sandboxes together.
LEMMA AdoptionStep ==
  ASSUME TypeOK, LateInv, AdoptionInv, SoleInv, WaitsOn = "ports",
         NEW c \in Calls, Step(c)
  PROVE  AdoptionInv'
<1>1. EntryInv /\ EntryIsPast
  BY DEF AdoptionInv
<1>2. (AllDocker' <=> AllDocker) /\ (Orderly' => Orderly)
  BY OthersStay, HistoryStays, LandedStays
     DEF AllDocker, UniqueNames, Orderly, OneBackend, Undisturbed
<1>3. EntryInv'
  BY <1>1, EntryStays
<1>4. ASSUME AllDocker PROVE OneOfAName'
  BY <1>4, DockerBoxes DEF OneOfAName, AdoptionInv
<1>5. \A d \in Calls : pc[d] \in Past /\ late[d] = "no" =>
                        pc'[d] \in Past /\ late'[d] = "no"
  <2>1. pc[c] \in Past => late'[c] = "no"
    BY LateStep DEF Past, Written
  <2> QED  BY <2>1, OwnBooks, OthersStay, LateStep
<1>6. EntryIsPast'
  <2> SUFFICES ASSUME NEW d \in Calls, pc'[d] \in {"find", "verify"}
               PROVE  /\ entry'[d] \in Calls /\ pc'[entry'[d]] \in Past
                      /\ late'[entry'[d]] = "no"
    BY DEF EntryIsPast
  <2>1. CASE d = c
    BY <1>1, <1>5, <2>1, EntryReadIsPast
  <2>2. CASE d # c
    BY <1>1, <1>5, <2>2, OwnBooks, OthersStay DEF EntryIsPast
  <2> QED  BY <2>1, <2>2
<1>7. \A d \in Calls : pc[d] \in Past /\ box[d] # "up" => box'[d] # "up"
  BY Boxes DEF Past, Written
<1>8. ASSUME Orderly PROVE FoundOrDown'
  <2> SUFFICES ASSUME NEW d \in Calls, pc'[d] = "verify"
               PROVE  handle'[d] = entry'[d] \/ box'[entry'[d]] # "up"
    BY DEF FoundOrDown
  <2>1. CASE d = c
    BY <1>8, <2>1, AdopterStep
  <2>2. CASE d # c
    <3>1. pc[d] = "verify" /\ entry'[d] = entry[d] /\ handle'[d] = handle[d]
      BY <2>2, OwnBooks, OthersStay
    <3> QED  BY <1>1, <1>7, <1>8, <3>1 DEF AdoptionInv, FoundOrDown, EntryIsPast
  <2> QED  BY <2>1, <2>2
<1>9. ASSUME Orderly PROVE GuardIsOne'
  <2> SUFFICES ASSUME NEW d \in Calls, pc'[d] \in {"hook", "guard"}
               PROVE  handle'[d] = entry'[d]
    BY DEF GuardIsOne
  <2>1. CASE d = c
    BY <1>9, <2>1, AdopterStep
  <2>2. CASE d # c
    BY <1>9, <2>2, OwnBooks, OthersStay DEF GuardIsOne, AdoptionInv
  <2> QED  BY <2>1, <2>2
<1> QED  BY <1>2, <1>3, <1>4, <1>6, <1>8, <1>9 DEF AdoptionInv

\* What happens without a call keeps it too.
LEMMA AdoptionOutside ==
  ASSUME TypeOK, AdoptionInv,
         (\E c \in Calls : Exit(c)) \/ ByHand \/ UNCHANGED vars
  PROVE  AdoptionInv'
<1>1. /\ UNCHANGED <<backendOf, callVars>> /\ registry' \in {registry, None}
      /\ \A d \in Calls : box[d] = "none" => box'[d] = "none"
  BY Outside
<1>2. \A d \in Calls : box'[d] = "up" => box[d] = "up"
  BY OutsideEndsOnly
<1>3. EntryInv'
  BY <1>1, ReuseAssumption DEF EntryInv, AdoptionInv, callVars
<1>4. EntryIsPast' /\ (AllDocker => OneOfAName') /\ (AllDocker' <=> AllDocker)
  BY <1>1 DEF AdoptionInv, EntryIsPast, OneOfAName, AllDocker, UniqueNames,
              callVars, locals
<1>5. Orderly' <=> Orderly
  BY <1>1, <1>4 DEF Orderly, OneBackend, Undisturbed, Landed, callVars
<1>6. Orderly => FoundOrDown' /\ GuardIsOne'
  BY <1>1, <1>2 DEF AdoptionInv, FoundOrDown, GuardIsOne, EntryIsPast,
              callVars, locals
<1> QED  BY <1>3, <1>4, <1>5, <1>6 DEF AdoptionInv

\* So does what lands late: no entry names the call that had asked for it.
LEMMA AdoptionLands ==
  ASSUME TypeOK, AdoptionInv, NEW c \in Calls, LateLands(c)
  PROVE  AdoptionInv'
<1>1. /\ UNCHANGED <<backendOf, registry, pc, locals, raced, slipped>>
      /\ late[c] # "no" /\ c \in Landed'
      /\ \A d \in Calls \ {c} : late'[d] = late[d] /\ box'[d] = box[d]
  BY Landing DEF TypeOK, Landed
<1>2. EntryInv'
  BY <1>1 DEF EntryInv, AdoptionInv
<1>3. EntryIsPast'
  BY <1>1 DEF AdoptionInv, EntryIsPast, locals
<1>4. ASSUME AllDocker PROVE OneOfAName'
  <2>1. late[c] = "create" => \A d \in Calls : box[d] = "none"
    BY <1>4, Landing DEF NameTaken, Namesakes, AllDocker, UniqueNames, TypeOK
  <2>2. late[c] = "boot" => box[c] = "down"
    BY <1>4, Landing DEF Bootable, AllDocker
  <2>3. late[c] \in {"create", "boot"}
    BY Landing
  <2> QED  BY <1>1, <1>4, <2>1, <2>2, <2>3 DEF OneOfAName, AdoptionInv
<1>5. (AllDocker' <=> AllDocker) /\ (Orderly' => Orderly)
  BY <1>1 DEF Orderly, OneBackend, AllDocker, UniqueNames, Undisturbed
<1>6. Orderly => FoundOrDown' /\ GuardIsOne'
  BY <1>1 DEF AdoptionInv, FoundOrDown, GuardIsOne, EntryIsPast, locals
<1> QED  BY <1>2, <1>3, <1>4, <1>5, <1>6 DEF AdoptionInv

\* Where waits look at ports, a guard has the ports of the sandbox it holds:
\* on docker however the calls interleave and whatever of Faults occurs, and on either
\* backend as long as starts take turns, no removal or query has failed and
\* nothing has landed late (AdoptsWithItsPorts).
THEOREM AdoptionIsWhole == Spec => []AdoptsWithItsPorts
<1>1. CASE WaitsOn = "ports"
  <2>1. Init => AdoptionInv
    BY ReuseAssumption
       DEF Init, AdoptionInv, EntryInv, OneOfAName, EntryIsPast, FoundOrDown,
           GuardIsOne
  <2>2. TypeOK /\ FailInv /\ AdoptionInv /\ SoleInv /\ [Next]_vars => AdoptionInv'
    BY <1>1, NextCases, AdoptionStep, AdoptionLands, AdoptionOutside DEF FailInv
  <2>3. AdoptionInv => AdoptsWithItsPorts
    BY DEF AdoptionInv, Orderly, AllDocker, GuardIsOne, AdoptsWithItsPorts,
           PortsOfTheSandbox
  <2>4. FailInv => LateInv
    BY DEF FailInv
  <2> QED  BY <2>1, <2>2, <2>3, <2>4, SoleInit, SoleInvariant, FailureInit,
              FailureInvariant, TypeCorrect, PTL DEF Spec
<1>2. CASE WaitsOn # "ports"
  <2>1. AdoptsWithItsPorts
    BY <1>2 DEF AdoptsWithItsPorts
  <2> QED  BY <2>1, PTL
<1> QED  BY <1>1, <1>2
=============================================================================

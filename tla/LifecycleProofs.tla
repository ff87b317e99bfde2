--------------------------- MODULE LifecycleProofs ---------------------------
(***************************************************************************)
(* Theorems about Lifecycle for every set of ports and containers, every   *)
(* number of exposed ports and attempts, and every combination of faults.  *)
(***************************************************************************)
EXTENDS Lifecycle, TLAPS

\* The initial state has the types TypeOK gives.
LEMMA TypeInit == Init => TypeOK
BY LifecycleAssumption
   DEF Init, PortsInit, TypeOK, PortsTypeOK, Holders, PC

\* The disjuncts of Next, one container step at a time.
LEMMA NextCases ==
  [Next]_vars => \/ \E c \in Containers :
                      \/ Start(c) \/ Progress(c)
                      \/ Stop(c) \/ Drop(c) \/ Cancel(c) \/ LateBoot(c)
                 \/ CleanUp
                 \/ \E p \in Ports : StrangerBinds(p) \/ StrangerLeaves(p)
                 \/ UNCHANGED vars
BY DEF Next

\* What a boot or a removal makes of the host's port table is such a table.
LEMMA BoundTypes ==
  TypeOK => \A c \in Containers : /\ BoundBy(c) \in [Ports -> Holders]
                                 /\ Unbound(c) \in [Ports -> Holders]
BY DEF TypeOK, PortsTypeOK, Holders, BoundBy, Unbound

\* Each action keeps every variable in its type.
LEMMA TypeStep == TypeOK /\ [Next]_vars => TypeOK'
<1> SUFFICES ASSUME TypeOK, [Next]_vars PROVE TypeOK'
  OBVIOUS
<1> USE LifecycleAssumption, BoundTypes
<1>1. ASSUME NEW c \in Containers, Start(c) PROVE TypeOK'
  BY <1>1 DEF Start, LinksForNewMember, TypeOK, PortsTypeOK, portVars,
         startVars, Goto, Set, PC
<1>2. ASSUME NEW c \in Containers, Allocate(c) PROVE TypeOK'
  BY <1>2 DEF Allocate, Fresh, Offered, TypeOK, PortsTypeOK, portVars,
         startVars, Goto, Set, PC
<1>3. ASSUME NEW c \in Containers, AllocateFails(c) PROVE TypeOK'
  BY <1>3 DEF AllocateFails, GiveUp, Returned, TypeOK, PortsTypeOK,
         portVars, startVars, Goto, Set, PC
<1>4. ASSUME NEW c \in Containers, Prepare(c) PROVE TypeOK'
  BY <1>4 DEF Prepare, Returned, TypeOK, PortsTypeOK, portVars, startVars,
         Goto, Set, PC
<1>5. ASSUME NEW c \in Containers, Create(c) PROVE TypeOK'
  BY <1>5 DEF Create, GiveUp, Returned, TypeOK, PortsTypeOK, portVars,
         startVars, Goto, Set, PC
<1>6. ASSUME NEW c \in Containers, Boot(c) PROVE TypeOK'
  BY <1>6 DEF Boot, Returned, TypeOK, PortsTypeOK, portVars,
         startVars, Goto, Set, PC
<1>7. ASSUME NEW c \in Containers, BootFails(c) PROVE TypeOK'
  BY ZenonT(40), <1>7 DEF BootFails, TypeOK, PortsTypeOK, portVars, startVars,
         Goto, Set, PC
<1>8. ASSUME NEW c \in Containers, Undo(c) PROVE TypeOK'
  BY <1>8 DEF Undo, RemoveSandbox, GiveUp, Returned, TypeOK,
         PortsTypeOK, portVars, startVars, Goto, Set, PC
<1>9. ASSUME NEW c \in Containers, Retry(c) PROVE TypeOK'
  BY SMTT(30), <1>9 DEF Retry, RemoveSandbox, Quarantine, TypeOK,
         PortsTypeOK, portVars, startVars, Goto, Set, PC
<1>10. ASSUME NEW c \in Containers, OutOfAttempts(c) PROVE TypeOK'
  BY <1>10 DEF OutOfAttempts, RemoveSandbox, GiveUp, Returned,
         TypeOK, PortsTypeOK, portVars, startVars, Goto, Set, PC
<1>11. ASSUME NEW c \in Containers, InstallLinks(c) PROVE TypeOK'
  <2>1. members' \subseteq Containers \X SUBSET Ports
    <3>1. <<c, ports[c]>> \in Containers \X SUBSET Ports
      BY DEF TypeOK
    <3>2. members' \subseteq members \cup {<<c, ports[c]>>}
      BY <1>11 DEF InstallLinks
    <3> QED  BY <3>1, <3>2 DEF TypeOK
  <2>2. pc' \in [Containers -> PC]
    BY <1>11 DEF InstallLinks, Stopped, TypeOK, Goto, PC
  <2> QED  BY <1>11, <2>1, <2>2 DEF InstallLinks, TypeOK, PortsTypeOK,
              portVars
<1>12. ASSUME NEW c \in Containers, Wait(c) PROVE TypeOK'
  BY <1>12 DEF Wait, Stopped, TypeOK, PortsTypeOK, portVars, startVars,
         Goto, Set, PC
<1>13. ASSUME NEW c \in Containers, StopBackend(c) PROVE TypeOK'
  BY <1>13 DEF StopBackend, RemoveSandbox, TypeOK, PortsTypeOK,
         portVars, startVars, Goto, Set, PC
<1>14. ASSUME NEW c \in Containers, ReleasePorts(c) PROVE TypeOK'
  BY <1>14 DEF ReleasePorts, Returned, TypeOK, PortsTypeOK, portVars,
         startVars, Goto, Set, PC
<1>15. ASSUME NEW c \in Containers, Stop(c) PROVE TypeOK'
  BY <1>15 DEF Stop, Stopped, TypeOK, PortsTypeOK, portVars, startVars,
         Goto, Set, PC
<1>16. ASSUME NEW c \in Containers, Drop(c) PROVE TypeOK'
  <2>1. CASE c \in KeepAlive
    BY <1>16, <2>1 DEF Drop, TypeOK, PortsTypeOK, startVars, Goto, PC
  <2>2. CASE c \notin KeepAlive
    <3>1. queue' \in Seq(Containers)
      <4>1. queue \in Seq(Containers)
        BY DEF TypeOK
      <4>2. queue' = Append(queue, c)
        BY <1>16, <2>2 DEF Drop
      <4> QED  BY <4>1, <4>2
    <3> QED
      BY <1>16, <2>2, <3>1 DEF Drop, Returned, TypeOK, PortsTypeOK, startVars,
                             Goto, Set, PC
  <2> QED  BY <2>1, <2>2
<1>17. ASSUME NEW c \in Containers, Cancel(c) PROVE TypeOK'
  <2>1. bound' \in {bound, Unbound(c)}
    BY <1>17 DEF Cancel, InFlight
  <2>2. Goto(c, "abandoned") \/ Goto(c, "lost")
    BY <1>17 DEF Cancel, InFlight
  <2>3. pc' \in [Containers -> PC]
    BY <2>2 DEF Goto, TypeOK, PC
  <2>4. PortsTypeOK'
    BY <1>17, <2>1 DEF Cancel, Returned, TypeOK, PortsTypeOK
  <2> QED
    BY <1>17, <2>3, <2>4 DEF Cancel, TypeOK, Set
<1>18. ASSUME NEW c \in Containers, LateBoot(c) PROVE TypeOK'
  BY <1>18 DEF LateBoot, TypeOK, PortsTypeOK, portVars, startVars,
         Goto, Set, PC
<1>19. CASE CleanUp
  <2>1. Head(queue) \in Containers /\ Tail(queue) \in Seq(Containers)
    BY <1>19 DEF CleanUp, TypeOK
  <2> QED  BY <1>19, <2>1 DEF CleanUp, RemoveSandbox, TypeOK, PortsTypeOK,
              portVars, startVars, Goto, Set, PC
<1>20. ASSUME NEW p \in Ports, StrangerBinds(p) \/ StrangerLeaves(p) PROVE TypeOK'
  BY <1>20 DEF StrangerBinds, StrangerLeaves, Holders, TypeOK, PortsTypeOK,
     portVars, startVars, Goto, Set, PC
<1>21. CASE UNCHANGED vars
  BY <1>21 DEF vars, TypeOK, PortsTypeOK, portVars, startVars, Goto, Set, PC
<1> QED
  BY <1>1, <1>2, <1>3, <1>4, <1>5, <1>6, <1>7, <1>8, <1>9, <1>10, <1>11,
     <1>12, <1>13, <1>14, <1>15, <1>16, <1>17, <1>18, <1>19, <1>20, <1>21,
     NextCases DEF Progress

\* The states of the specification have the types TypeOK gives: ports come
\* from the host's range, tries never pass PORT_BIND_ATTEMPTS, and every queued
\* cleanup names a container.
THEOREM TypeCorrect == Spec => []TypeOK
<1>1. TypeOK /\ [Next]_vars => TypeOK'
  BY TypeStep
<1> QED  BY TypeInit, <1>1, PTL DEF Spec

-----------------------------------------------------------------------------
(* The bookkeeping of ports: each issued port is held by one container, and *)
(* the ports a container has yet to bind are bound by none of this process. *)
Held(c) == ports[c] \cup quarantine[c]

NoSharing ==
  \A c, d \in Containers : c # d => Held(c) \cap Held(d) = {}

IssuedIsHeld ==
  \A p \in Ports : p \in issued <=> \E c \in Containers : p \in Held(c)

Unstarted == {"allocate", "create", "boot", "abandoned"}

NotYetBound ==
  \A c \in Containers : pc[c] \in Unstarted =>
    \A p \in ports[c] : bound[p] \notin Containers

IdleHasNone == \A c \in Containers : pc[c] = "idle" => ports[c] = {}

PortsInv ==
  /\ TypeOK
  /\ NoSharing /\ IssuedIsHeld /\ RetriesElsewhere
  /\ NotYetBound /\ IdleHasNone

\* At the start nobody holds a port and none is bound.
LEMMA PortsStart == Init => PortsInv
BY TypeInit DEF Init, PortsInit, PortsInv, NoSharing, IssuedIsHeld, Held,
                RetriesElsewhere, NotYetBound, Unstarted, IdleHasNone

\* What a step does to the ports that c holds: it takes a fresh one, or gives
\* some, possibly none, back.
OthersKeep(c) ==
  \A d \in Containers \ {c} : UNCHANGED <<ports[d], quarantine[d]>>

Takes(c) ==
  \E p \in Fresh :
    /\ issued' = issued \cup {p}
    /\ ports'[c] = ports[c] \cup {p} /\ UNCHANGED quarantine[c]

Gives(c) ==
  /\ \E S \in SUBSET Held(c) :
       issued' = issued \ S /\ Held(c)' = Held(c) \ S
  /\ ports'[c] \cap quarantine'[c] = {}

Moves(c) == OthersKeep(c) /\ (Takes(c) \/ Gives(c))

\* A step leaves alone who holds which port, or is one container taking ports or
\* giving its own back.
LEMMA PortsMove ==
  ASSUME TypeOK, RetriesElsewhere, [Next]_vars
  PROVE  \/ UNCHANGED <<issued, ports, quarantine>>
         \/ \E c \in Containers : Moves(c)
<1>1. ASSUME NEW c \in Containers, Start(c)
      PROVE  UNCHANGED <<issued, ports, quarantine>>
  BY <1>1 DEF Start, portVars, startVars
<1>2. ASSUME NEW c \in Containers, BootFails(c)
      PROVE  UNCHANGED <<issued, ports, quarantine>>
  BY <1>2 DEF BootFails, portVars, startVars
<1>3. ASSUME NEW c \in Containers, InstallLinks(c)
      PROVE  UNCHANGED <<issued, ports, quarantine>>
  BY <1>3 DEF InstallLinks, portVars, startVars
<1>4. ASSUME NEW c \in Containers, Wait(c)
      PROVE  UNCHANGED <<issued, ports, quarantine>>
  BY <1>4 DEF Wait, portVars, startVars
<1>5. ASSUME NEW c \in Containers, StopBackend(c)
      PROVE  UNCHANGED <<issued, ports, quarantine>>
  BY <1>5 DEF StopBackend, portVars, startVars
<1>6. ASSUME NEW c \in Containers, Stop(c)
      PROVE  UNCHANGED <<issued, ports, quarantine>>
  BY <1>6 DEF Stop, portVars, startVars
<1>7. ASSUME NEW c \in Containers, LateBoot(c)
      PROVE  UNCHANGED <<issued, ports, quarantine>>
  BY <1>7 DEF LateBoot, portVars, startVars
<1>8. ASSUME NEW c \in Containers, Allocate(c) PROVE Moves(c)
  BY <1>8 DEF Allocate, Moves, OthersKeep, Takes, TypeOK, startVars, Set
<1>9. ASSUME NEW c \in Containers, AllocateFails(c) PROVE Moves(c)
  <2>1. OthersKeep(c) /\ ports'[c] \cap quarantine'[c] = {}
    BY <1>9 DEF AllocateFails, OthersKeep, GiveUp, TypeOK, RetriesElsewhere,
       startVars, Set
  <2>2. issued' = issued \ (ports[c] \cup quarantine[c]) /\ Held(c)' = Held(c) \ Held(c)
    BY <1>9 DEF AllocateFails, Held, GiveUp, Returned, TypeOK,
       RetriesElsewhere, startVars, Set
  <2> QED  BY <2>1, <2>2 DEF Moves, Gives, Held
<1>10. ASSUME NEW c \in Containers, Boot(c) PROVE Moves(c)
  <2>1. OthersKeep(c) /\ ports'[c] \cap quarantine'[c] = {}
    BY <1>10 DEF Boot, OthersKeep, TypeOK, RetriesElsewhere, startVars, Set
  <2>2. issued' = issued \ quarantine[c] /\ Held(c)' = Held(c) \ quarantine[c]
    BY <1>10 DEF Boot, Held, Returned, TypeOK, RetriesElsewhere, startVars,
       Set
  <2> QED  BY <2>1, <2>2 DEF Moves, Gives, Held
<1>11. ASSUME NEW c \in Containers, Undo(c) PROVE Moves(c)
  <2>1. OthersKeep(c) /\ ports'[c] \cap quarantine'[c] = {}
    BY <1>11 DEF Undo, OthersKeep, GiveUp, TypeOK, RetriesElsewhere,
       startVars, Set
  <2>2. issued' = issued \ (ports[c] \cup quarantine[c]) /\ Held(c)' = Held(c) \ Held(c)
    BY <1>11 DEF Undo, Held, GiveUp, Returned, TypeOK, RetriesElsewhere,
       startVars, Set
  <2> QED  BY <2>1, <2>2 DEF Moves, Gives, Held
<1>12. ASSUME NEW c \in Containers, Retry(c) PROVE Moves(c)
  <2>1. OthersKeep(c) /\ ports'[c] \cap quarantine'[c] = {}
    BY <1>12 DEF Retry, OthersKeep, Quarantine, TypeOK, RetriesElsewhere,
       startVars, Set
  <2>2. issued' = issued \ {} /\ Held(c)' = Held(c) \ {}
    BY <1>12 DEF Retry, Held, Quarantine, TypeOK, RetriesElsewhere, startVars,
       Set
  <2> QED  BY <2>1, <2>2 DEF Moves, Gives, Held
<1>13. ASSUME NEW c \in Containers, OutOfAttempts(c) PROVE Moves(c)
  <2>1. OthersKeep(c) /\ ports'[c] \cap quarantine'[c] = {}
    BY <1>13 DEF OutOfAttempts, OthersKeep, GiveUp, TypeOK, RetriesElsewhere,
       startVars, Set
  <2>2. issued' = issued \ (ports[c] \cup quarantine[c]) /\ Held(c)' = Held(c) \ Held(c)
    BY <1>13 DEF OutOfAttempts, Held, GiveUp, Returned, TypeOK,
       RetriesElsewhere, startVars, Set
  <2> QED  BY <2>1, <2>2 DEF Moves, Gives, Held
<1>14. ASSUME NEW c \in Containers, ReleasePorts(c) PROVE Moves(c)
  <2>1. OthersKeep(c) /\ ports'[c] \cap quarantine'[c] = {}
    BY <1>14 DEF ReleasePorts, OthersKeep, TypeOK, RetriesElsewhere,
       startVars, Set
  <2>2. issued' = issued \ ports[c] /\ Held(c)' = Held(c) \ ports[c]
    BY <1>14 DEF ReleasePorts, Held, Returned, TypeOK, RetriesElsewhere,
       startVars, Set
  <2> QED  BY <2>1, <2>2 DEF Moves, Gives, Held
<1>15. ASSUME NEW c \in Containers, Cancel(c) PROVE Moves(c)
  <2>1. OthersKeep(c) /\ ports'[c] \cap quarantine'[c] = {}
    BY <1>15 DEF Cancel, OthersKeep, TypeOK, RetriesElsewhere, startVars, Set
  <2>2. issued' = issued \ quarantine[c] /\ Held(c)' = Held(c) \ quarantine[c]
    BY <1>15 DEF Cancel, Held, Returned, TypeOK, RetriesElsewhere, startVars,
       Set
  <2> QED  BY <2>1, <2>2 DEF Moves, Gives, Held
<1>16. ASSUME NEW c \in Containers, Prepare(c)
      PROVE  UNCHANGED <<issued, ports, quarantine>> \/ Moves(c)
  <2> SUFFICES ASSUME ~UNCHANGED <<issued, ports, quarantine>> PROVE Moves(c)
    OBVIOUS
  <2>1. OthersKeep(c) /\ ports'[c] \cap quarantine'[c] = {}
    BY <1>16 DEF Prepare, OthersKeep, TypeOK, RetriesElsewhere, startVars, Set
  <2>2. issued' = issued \ quarantine[c] /\ Held(c)' = Held(c) \ quarantine[c]
    BY <1>16 DEF Prepare, Held, Returned, TypeOK, RetriesElsewhere, startVars,
       Set
  <2> QED  BY <2>1, <2>2 DEF Moves, Gives, Held
<1>17. ASSUME NEW c \in Containers, Create(c)
      PROVE  UNCHANGED <<issued, ports, quarantine>> \/ Moves(c)
  <2> SUFFICES ASSUME ~UNCHANGED <<issued, ports, quarantine>> PROVE Moves(c)
    OBVIOUS
  <2>1. OthersKeep(c) /\ ports'[c] \cap quarantine'[c] = {}
    BY <1>17 DEF Create, OthersKeep, GiveUp, TypeOK, RetriesElsewhere,
       startVars, Set
  <2>2. issued' = issued \ (ports[c] \cup quarantine[c]) /\ Held(c)' = Held(c) \ Held(c)
    BY <1>17 DEF Create, Held, GiveUp, Returned, TypeOK, RetriesElsewhere,
       startVars, Set
  <2> QED  BY <2>1, <2>2 DEF Moves, Gives, Held
<1>18. ASSUME NEW c \in Containers, Drop(c)
      PROVE  UNCHANGED <<issued, ports, quarantine>> \/ Moves(c)
  <2> SUFFICES ASSUME ~UNCHANGED <<issued, ports, quarantine>> PROVE Moves(c)
    OBVIOUS
  <2>1. OthersKeep(c) /\ ports'[c] \cap quarantine'[c] = {}
    BY <1>18 DEF Drop, OthersKeep, TypeOK, RetriesElsewhere, startVars, Set
  <2>2. issued' = issued \ ports[c] /\ Held(c)' = Held(c) \ ports[c]
    BY <1>18 DEF Drop, Held, Returned, TypeOK, RetriesElsewhere, startVars,
       Set
  <2> QED  BY <2>1, <2>2 DEF Moves, Gives, Held
<1>19. ASSUME CleanUp \/ (\E p \in Ports : StrangerBinds(p) \/ StrangerLeaves(p))
             \/ UNCHANGED vars
      PROVE  UNCHANGED <<issued, ports, quarantine>>
  BY <1>19 DEF CleanUp, StrangerBinds, StrangerLeaves, vars, portVars,
     startVars
<1> QED
  BY <1>1, <1>2, <1>3, <1>4, <1>5, <1>6, <1>7, <1>8, <1>9, <1>10, <1>11,
         <1>12, <1>13, <1>14, <1>15, <1>16, <1>17, <1>18, <1>19, NextCases
         DEF Progress

\* Taking and giving keep the ports of the containers apart.
LEMMA Partition ==
  ASSUME TypeOK, NoSharing, IssuedIsHeld, RetriesElsewhere, TypeOK',
         NEW c \in Containers, Moves(c)
  PROVE  NoSharing' /\ IssuedIsHeld' /\ RetriesElsewhere'
<1>0. \A d \in Containers \ {c} : Held(d)' = Held(d)
  BY DEF Moves, OthersKeep, Held
<1>1. CASE Takes(c)
  <2>1. PICK p \in Fresh : /\ issued' = issued \cup {p}
                           /\ ports'[c] = ports[c] \cup {p}
                           /\ quarantine'[c] = quarantine[c]
    BY <1>1 DEF Takes
  <2>2. p \in Ports /\ \A d \in Containers : p \notin Held(d)
    BY <2>1 DEF Fresh, Offered, IssuedIsHeld
  <2>3. Held(c)' = Held(c) \cup {p}
    BY <2>1 DEF Held
  <2>4. NoSharing'
    BY <1>0, <2>2, <2>3 DEF NoSharing
  <2>5. IssuedIsHeld'
    BY <1>0, <2>1, <2>2, <2>3 DEF IssuedIsHeld
  <2>6. RetriesElsewhere'
    BY <2>1, <2>2 DEF RetriesElsewhere, Moves, OthersKeep, Held
  <2> QED  BY <2>4, <2>5, <2>6
<1>2. CASE Gives(c)
  <2>1. PICK S \in SUBSET Held(c) :
          issued' = issued \ S /\ Held(c)' = Held(c) \ S
    BY <1>2 DEF Gives
  <2>2. NoSharing'
    BY <1>0, <2>1 DEF NoSharing
  <2>3. IssuedIsHeld'
    BY <1>0, <2>1 DEF IssuedIsHeld, NoSharing
  <2>4. RetriesElsewhere'
    BY <1>2 DEF Gives, RetriesElsewhere, Moves, OthersKeep
  <2> QED  BY <2>2, <2>3, <2>4
<1> QED  BY <1>1, <1>2 DEF Moves

\* No step binds a port that another start is about to bind.
LEMMA StaysUnbound == PortsInv /\ [Next]_vars => NotYetBound'
<1> SUFFICES ASSUME PortsInv, [Next]_vars PROVE NotYetBound'
  OBVIOUS
<1> USE LifecycleAssumption DEF PortsInv
\* what c binds, no other container holds
<1>a. ASSUME NEW c \in Containers, UNCHANGED ports, pc' = [pc EXCEPT ![c] = pc'[c]],
             pc'[c] \notin Unstarted, bound' \in {bound, BoundBy(c), Unbound(c)}
      PROVE  NotYetBound'
  <2> SUFFICES ASSUME NEW d \in Containers, pc'[d] \in Unstarted, NEW p \in ports'[d]
               PROVE  bound'[p] \notin Containers
    BY DEF NotYetBound
  <2>1. d # c /\ pc[d] \in Unstarted /\ p \in ports[d] /\ p \in Ports
    BY <1>a DEF TypeOK
  <2>2. p \notin ports[c]
    BY <2>1 DEF NoSharing, Held
  <2>3. bound[p] \notin Containers
    BY <2>1 DEF NotYetBound
  <2> QED  BY <1>a, <2>1, <2>2, <2>3 DEF BoundBy, Unbound
\* ports are given back and perhaps a sandbox removed
<1>b. ASSUME NEW c \in Containers, \A d \in Containers : ports'[d] \subseteq ports[d],
             \A d \in Containers : pc'[d] \in Unstarted => pc[d] \in Unstarted \/ ports'[d] = {},
             bound' \in {bound, Unbound(c)}
      PROVE  NotYetBound'
  BY <1>b DEF NotYetBound, Unbound, TypeOK
<1>1. ASSUME NEW c \in Containers, Boot(c) PROVE NotYetBound'
  BY <1>1, <1>a DEF Boot, Returned, TypeOK, Goto, Set, Unstarted, portVars,
         startVars
<1>2. ASSUME NEW c \in Containers, LateBoot(c) PROVE NotYetBound'
  BY <1>2, <1>a DEF LateBoot, TypeOK, Goto, Set, Unstarted, portVars,
         startVars
<1>3. ASSUME NEW c \in Containers, BootFails(c) PROVE NotYetBound'
  BY <1>3, <1>a DEF BootFails, TypeOK, Goto, Set, Unstarted, portVars,
         startVars
<1>4. ASSUME NEW c \in Containers, Start(c) PROVE NotYetBound'
  BY <1>4, <1>b DEF Start, LinksForNewMember, IdleHasNone, TypeOK, Goto,
         Set, Unstarted, portVars, startVars
<1>5. ASSUME NEW c \in Containers, AllocateFails(c) PROVE NotYetBound'
  BY <1>5, <1>b DEF AllocateFails, GiveUp, Returned, TypeOK, Goto, Set,
         Unstarted, portVars, startVars
<1>6. ASSUME NEW c \in Containers, Prepare(c) PROVE NotYetBound'
  BY <1>6, <1>b DEF Prepare, Returned, TypeOK, Goto, Set, Unstarted,
         portVars, startVars
<1>7. ASSUME NEW c \in Containers, Create(c) PROVE NotYetBound'
  BY <1>7, <1>b DEF Create, GiveUp, Returned, TypeOK, Goto, Set, Unstarted,
         portVars, startVars
<1>8. ASSUME NEW c \in Containers, Undo(c) PROVE NotYetBound'
  BY <1>8, <1>b DEF Undo, RemoveSandbox, GiveUp, Returned, TypeOK, Goto,
         Set, Unstarted, portVars, startVars
<1>9. ASSUME NEW c \in Containers, Retry(c) PROVE NotYetBound'
  BY <1>9, <1>b DEF Retry, RemoveSandbox, Quarantine, TypeOK, Goto, Set,
         Unstarted, portVars, startVars
<1>10. ASSUME NEW c \in Containers, OutOfAttempts(c) PROVE NotYetBound'
  BY <1>10, <1>b DEF OutOfAttempts, RemoveSandbox, GiveUp, Returned, TypeOK,
         Goto, Set, Unstarted, portVars, startVars
<1>11. ASSUME NEW c \in Containers, InstallLinks(c) PROVE NotYetBound'
  BY <1>11, <1>b DEF InstallLinks, Stopped, TypeOK, Goto, Set, Unstarted,
         portVars, startVars
<1>12. ASSUME NEW c \in Containers, Wait(c) PROVE NotYetBound'
  BY <1>12, <1>b DEF Wait, Stopped, TypeOK, Goto, Set, Unstarted, portVars,
         startVars
<1>13. ASSUME NEW c \in Containers, StopBackend(c) PROVE NotYetBound'
  BY <1>13, <1>b DEF StopBackend, RemoveSandbox, TypeOK, Goto, Set,
         Unstarted, portVars, startVars
<1>14. ASSUME NEW c \in Containers, ReleasePorts(c) PROVE NotYetBound'
  BY <1>14, <1>b DEF ReleasePorts, Returned, TypeOK, Goto, Set, Unstarted,
         portVars, startVars
<1>15. ASSUME NEW c \in Containers, Stop(c) PROVE NotYetBound'
  BY <1>15, <1>b DEF Stop, Stopped, TypeOK, Goto, Set, Unstarted, portVars,
         startVars
<1>16. ASSUME NEW c \in Containers, Drop(c) PROVE NotYetBound'
  BY <1>16, <1>b DEF Drop, Returned, TypeOK, Goto, Set, Unstarted, portVars,
         startVars
<1>17. ASSUME NEW c \in Containers, Cancel(c) PROVE NotYetBound'
  BY <1>17, <1>b DEF Cancel, InFlight, Awaiting, Returned, TypeOK, Goto,
         Set, Unstarted, portVars, startVars
<1>18. ASSUME NEW c \in Containers, Allocate(c) PROVE NotYetBound'
  <2>1. PICK p \in Fresh : ports' = [ports EXCEPT ![c] = @ \cup {p}]
    BY <1>18 DEF Allocate, Set
  <2>2. UNCHANGED <<pc, bound>> /\ bound[p] \notin Containers
    BY <1>18, <2>1 DEF Allocate, Fresh, Offered
  <2> QED  BY <2>1, <2>2 DEF NotYetBound, TypeOK
<1>19. CASE CleanUp
  <2>1. Head(queue) \in Containers
    BY <1>19 DEF CleanUp, TypeOK
  <2> QED
    BY <1>19, <2>1, <1>b DEF CleanUp, RemoveSandbox, TypeOK, Goto, Unstarted
<1>20. ASSUME NEW p \in Ports, StrangerBinds(p) \/ StrangerLeaves(p)
      PROVE  NotYetBound'
  BY <1>20 DEF StrangerBinds, StrangerLeaves, TypeOK, PortsTypeOK, NotYetBound
<1>21. CASE UNCHANGED vars
  BY <1>21 DEF vars, portVars, NotYetBound
<1> QED
  BY <1>1, <1>2, <1>3, <1>4, <1>5, <1>6, <1>7, <1>8, <1>9, <1>10, <1>11,
         <1>12, <1>13, <1>14, <1>15, <1>16, <1>17, <1>18, <1>19, <1>20,
         <1>21, NextCases DEF Progress

\* A container that is not being started holds and quarantines no port.
LEMMA IdleStays == TypeOK /\ IdleHasNone /\ [Next]_vars => IdleHasNone'
<1> SUFFICES ASSUME TypeOK, IdleHasNone, [Next]_vars, NEW d \in Containers,
                    pc'[d] = "idle"
             PROVE  ports'[d] = {}
  BY DEF IdleHasNone
<1>1. pc[d] = "idle" /\ ports'[d] = ports[d]
  BY ZenonT(40), NextCases
     DEF Progress, vars, TypeOK, startVars, portVars, Goto, Set,
         GiveUp, Stopped, CleanUp, StrangerBinds, StrangerLeaves, Start,
         Allocate, AllocateFails, Prepare, Create, Boot, BootFails, Undo,
         Retry, OutOfAttempts, InstallLinks, Wait, StopBackend,
         ReleasePorts, Stop, Drop, Cancel, LateBoot, InFlight
<1> QED  BY <1>1 DEF IdleHasNone

\* The ports are kept apart in every reachable state.
THEOREM PortsInvariant == Spec => []PortsInv
<1>1. PortsInv /\ [Next]_vars => PortsInv'
  <2> SUFFICES ASSUME PortsInv, [Next]_vars PROVE PortsInv'
    OBVIOUS
  <2>1. TypeOK' /\ NotYetBound' /\ IdleHasNone'
    BY TypeStep, StaysUnbound, IdleStays DEF PortsInv
  <2>2. CASE UNCHANGED <<issued, ports, quarantine>>
    BY <2>1, <2>2 DEF PortsInv, NoSharing, IssuedIsHeld, RetriesElsewhere,
       Held
  <2>3. CASE \E c \in Containers : Moves(c)
    BY <2>1, <2>3, Partition DEF PortsInv
  <2> QED  BY <2>2, <2>3, PortsMove DEF PortsInv
<1> QED  BY PortsStart, <1>1, PTL DEF Spec

\* Whatever is cancelled, dropped or still booting, the ports of a start that
\* is about to boot are bound, if at all, by another process (free_ports.rs,
\* create_started_container, Drop).
THEOREM NoSiblingConflicts == Spec => []OnlyStrangersConflict
<1>1. PortsInv => OnlyStrangersConflict
  BY DEF PortsInv, TypeOK, PortsTypeOK, Holders, NotYetBound, Unstarted,
         OnlyStrangersConflict
<1> QED  BY PortsInvariant, <1>1, PTL

\* A start never tries again a port it has found taken (ConflictQuarantine).
THEOREM NoPortTwice == Spec => []RetriesElsewhere
<1>1. PortsInv => RetriesElsewhere
  BY DEF PortsInv
<1> QED  BY PortsInvariant, <1>1, PTL

\* The port bookkeeping of the process is a PortPool: taken from the free
\* ports, given back by the holder, never lost track of.
THEOREM PoolRefinement == Spec => ImplementsPool
<1>1. Init => Pool!Init
  BY DEF Init, PortsInit, Pool!Init
<1>2. PortsInv /\ PortsInv' /\ [Next]_vars => [Pool!Next]_(Pool!poolVars)
  <2> SUFFICES ASSUME PortsInv, PortsInv', [Next]_vars,
                      ~UNCHANGED <<issued, ports, quarantine>>
               PROVE  Pool!Next \/ UNCHANGED Pool!poolVars
    BY DEF Pool!poolVars
  <2>1. PICK c \in Containers : Moves(c)
    BY PortsMove DEF PortsInv
  <2> DEFINE held == [d \in Containers |-> Held(d)]
  <2>2. \A d \in Containers \ {c} : Held(d)' = Held(d)
    BY <2>1 DEF Moves, OthersKeep, Held
  <2>3. CASE Takes(c)
    <3>1. PICK p \in Fresh : /\ issued' = issued \cup {p}
                             /\ ports'[c] = ports[c] \cup {p}
                             /\ quarantine'[c] = quarantine[c]
      BY <2>3 DEF Takes
    <3>2. held' = [held EXCEPT ![c] = @ \cup {p}]
      BY <2>2, <3>1 DEF Held
    <3>3. p \in Ports \ issued
      BY DEF Fresh, Offered
    <3>4. Pool!Take(c, p)
      BY <3>1, <3>2, <3>3 DEF Pool!Take, Held
    <3> QED  BY <3>3, <3>4 DEF Pool!Next
  <2>4. CASE Gives(c)
    <3>1. PICK S \in SUBSET Held(c) :
            issued' = issued \ S /\ Held(c)' = Held(c) \ S
      BY <2>4 DEF Gives
    <3>2. held' = [held EXCEPT ![c] = @ \ S]
      BY <2>2, <3>1
    <3>3. S \subseteq Ports
      BY DEF PortsInv, TypeOK, Held
    <3>4. Ports \ issued' = (Ports \ issued) \cup S
      BY <3>1, <3>3
    <3>5. CASE S # {}
      BY <3>1, <3>2, <3>4, <3>5 DEF Pool!Give, Pool!Next, Held
    <3>6. CASE S = {}
      <4>1. UNCHANGED issued /\ \A d \in Containers : Held(d)' = Held(d)
        BY <2>2, <3>1, <3>6
      <4> QED  BY <4>1 DEF Pool!poolVars, Held
    <3> QED  BY <3>5, <3>6
  <2> QED  BY <2>1, <2>3, <2>4 DEF Moves
<1> QED
  BY <1>1, <1>2, PortsInvariant, PTL DEF Spec, ImplementsPool, Pool!Spec

-----------------------------------------------------------------------------
(* A start that failed and a guard that was stopped leave nothing behind.   *)
Bare == {"failed", "stopped", "dropped"}
PastStart == Bare \cup {"idle", "install", "wait", "running", "stopping",
                        "release", "kept"}
WithoutSandbox == {"idle", "allocate", "create", "boot", "conflict",
                   "abandoned", "release", "failed", "stopped"}

NoPorts == \A c \in Containers : pc[c] \in Bare => ports[c] = {}
NoQuarantine == \A c \in Containers : pc[c] \in PastStart => quarantine[c] = {}
NoSandbox ==
  \A c \in Containers \ Stuck : pc[c] \in WithoutSandbox =>
      \A p \in Ports : bound[p] # c
\* a dropped guard is in the channel, once
InChannel ==
  /\ \A i \in 1..Len(queue) : pc[queue[i]] = "dropped"
  /\ \A i, j \in 1..Len(queue) : queue[i] = queue[j] => i = j

LeftInv == TypeOK /\ NoPorts /\ NoQuarantine /\ NoSandbox /\ InChannel

\* At the start nothing is left behind.
LEMMA LeftStart == Init => LeftInv
BY TypeInit, LifecycleAssumption
   DEF Init, PortsInit, LeftInv, NoPorts, NoQuarantine, NoSandbox, InChannel,
       Bare, PastStart, WithoutSandbox

\* A step of a container that is not dropped leaves the channel as it was.
LEMMA ChannelKept ==
  ASSUME TypeOK, InChannel, NEW c \in Containers, NEW l, pc[c] # "dropped",
         Goto(c, l), UNCHANGED queue
  PROVE  InChannel'
<1>1. \A i \in 1..Len(queue) : queue[i] \in Containers /\ queue[i] # c
  BY DEF InChannel, TypeOK
<1>2. \A i \in 1..Len(queue) : pc'[queue[i]] = pc[queue[i]]
  BY <1>1 DEF Goto, TypeOK
<1> QED  BY <1>2 DEF InChannel

\* A container whose pc leads into one of these sets has been relieved of
\* what the set excludes.
LEMMA LeftStep ==
  ASSUME LeftInv, [Next]_vars
  PROVE  LeftInv'
<1> USE LifecycleAssumption DEF LeftInv
<1>0. TypeOK'
  BY TypeStep
<1> DEFINE Keeps == NoPorts' /\ NoQuarantine' /\ NoSandbox' /\ InChannel'
<1>1. ASSUME NEW c \in Containers, Start(c) PROVE Keeps
  <2>1. NoPorts' /\ NoQuarantine' /\ NoSandbox'
    BY <1>1 DEF Start, LinksForNewMember, NoPorts, NoQuarantine, NoSandbox,
           Bare, PastStart, WithoutSandbox, TypeOK, PortsTypeOK, portVars,
           startVars, Goto, Set
  <2>2. InChannel'
    BY <1>1 DEF Start, InChannel, TypeOK, Goto
  <2> QED  BY <2>1, <2>2
<1>2. ASSUME NEW c \in Containers, Allocate(c) PROVE Keeps
  <2>1. NoPorts' /\ NoQuarantine' /\ NoSandbox'
    BY <1>2 DEF Allocate, Fresh, Offered, NoPorts, NoQuarantine, NoSandbox,
           Bare, PastStart, WithoutSandbox, TypeOK, PortsTypeOK, portVars,
           startVars, Goto, Set
  <2>2. InChannel'
    BY <1>2 DEF Allocate, InChannel, TypeOK, Goto
  <2> QED  BY <2>1, <2>2
<1>3. ASSUME NEW c \in Containers, AllocateFails(c) PROVE Keeps
  <2>1. NoPorts' /\ NoQuarantine' /\ NoSandbox'
    BY <1>3 DEF AllocateFails, GiveUp, Returned, NoPorts, NoQuarantine,
           NoSandbox, Bare, PastStart, WithoutSandbox, TypeOK, PortsTypeOK,
           portVars, startVars, Goto, Set
  <2>2. InChannel'
    BY <1>3, ChannelKept DEF AllocateFails, GiveUp
  <2> QED  BY <2>1, <2>2
<1>4. ASSUME NEW c \in Containers, Prepare(c) PROVE Keeps
  <2>1. NoPorts' /\ NoQuarantine' /\ NoSandbox'
    <3>1. NoPorts'
      BY <1>4 DEF Prepare, Returned, TypeOK, PortsTypeOK, portVars,
         startVars, Goto, Set, NoPorts, Bare
    <3>2. NoQuarantine'
      BY <1>4 DEF Prepare, Returned, TypeOK, PortsTypeOK, portVars,
         startVars, Goto, Set, NoQuarantine, PastStart, Bare
    <3>3. NoSandbox'
      BY <1>4 DEF Prepare, Returned, TypeOK, PortsTypeOK, portVars,
         startVars, Goto, Set, NoSandbox, WithoutSandbox
    <3> QED  BY <3>1, <3>2, <3>3
  <2>2. InChannel'
    <3>1. pc[c] # "dropped" /\ UNCHANGED queue
      BY <1>4 DEF Prepare
    <3>2. Goto(c, "create") \/ Goto(c, "refused")
      BY <1>4 DEF Prepare
    <3> QED  BY <3>1, <3>2, ChannelKept
  <2> QED  BY <2>1, <2>2
<1>5. ASSUME NEW c \in Containers, Create(c) PROVE Keeps
  <2>1. NoPorts' /\ NoQuarantine' /\ NoSandbox'
    <3>1. NoPorts'
      BY <1>5 DEF Create, GiveUp, Returned, TypeOK, PortsTypeOK, portVars,
         startVars, Goto, Set, NoPorts, Bare
    <3>2. NoQuarantine'
      BY ZenonT(40), <1>5
         DEF Create, GiveUp, Returned, TypeOK, PortsTypeOK, portVars,
         startVars, Goto, Set, NoQuarantine, PastStart, Bare
    <3>3. NoSandbox'
      BY <1>5 DEF Create, GiveUp, Returned, TypeOK, PortsTypeOK, portVars,
         startVars, Goto, Set, NoSandbox, WithoutSandbox
    <3> QED  BY <3>1, <3>2, <3>3
  <2>2. InChannel'
    BY <1>5 DEF Create, GiveUp, InChannel, TypeOK, Goto
  <2> QED  BY <2>1, <2>2
<1>6. ASSUME NEW c \in Containers, Boot(c) PROVE Keeps
  <2>1. NoPorts' /\ NoQuarantine' /\ NoSandbox'
    BY <1>6 DEF Boot, BoundBy, Returned, NoPorts, NoQuarantine, NoSandbox,
           Bare, PastStart, WithoutSandbox, TypeOK, PortsTypeOK, portVars,
           startVars, Goto, Set
  <2>2. InChannel'
    BY <1>6 DEF Boot, InChannel, TypeOK, Goto
  <2> QED  BY <2>1, <2>2
<1>7. ASSUME NEW c \in Containers, BootFails(c) PROVE Keeps
  <2>1. NoPorts' /\ NoQuarantine' /\ NoSandbox'
    <3>1. NoPorts' /\ NoQuarantine'
      BY <1>7 DEF BootFails, NoPorts, NoQuarantine, Bare, PastStart, TypeOK,
         startVars, Goto
    <3>2. CASE UNCHANGED bound
      BY <1>7, <3>1, <3>2 DEF BootFails, NoSandbox, WithoutSandbox, TypeOK,
         Goto
    <3>3. CASE pc' = [pc EXCEPT ![c] = "undo"] /\ bound' = BoundBy(c)
      BY <3>1, <3>3 DEF NoSandbox, WithoutSandbox, TypeOK, BoundBy
    <3> QED  BY <1>7, <3>1, <3>2, <3>3 DEF BootFails, Goto
  <2>2. InChannel'
    BY <1>7 DEF BootFails, InChannel, TypeOK, Goto
  <2> QED  BY <2>1, <2>2
<1>8. ASSUME NEW c \in Containers, Undo(c) PROVE Keeps
  <2>1. NoPorts' /\ NoQuarantine' /\ NoSandbox'
    BY <1>8 DEF Undo, RemoveSandbox, Unbound, GiveUp, Returned, NoPorts,
           NoQuarantine, NoSandbox, Bare, PastStart, WithoutSandbox, TypeOK,
           PortsTypeOK, portVars, startVars, Goto, Set
  <2>2. InChannel'
    BY <1>8 DEF Undo, GiveUp, InChannel, TypeOK, Goto
  <2> QED  BY <2>1, <2>2
<1>9. ASSUME NEW c \in Containers, Retry(c) PROVE Keeps
  <2>1. NoPorts' /\ NoQuarantine' /\ NoSandbox'
    BY <1>9 DEF Retry, RemoveSandbox, Unbound, Quarantine, NoPorts,
           NoQuarantine, NoSandbox, Bare, PastStart, WithoutSandbox, TypeOK,
           PortsTypeOK, portVars, startVars, Goto, Set
  <2>2. InChannel'
    BY <1>9 DEF Retry, InChannel, TypeOK, Goto
  <2> QED  BY <2>1, <2>2
<1>10. ASSUME NEW c \in Containers, OutOfAttempts(c) PROVE Keeps
  <2>1. NoPorts' /\ NoQuarantine' /\ NoSandbox'
    BY <1>10 DEF OutOfAttempts, RemoveSandbox, Unbound, GiveUp, Returned,
           NoPorts, NoQuarantine, NoSandbox, Bare, PastStart,
           WithoutSandbox, TypeOK, PortsTypeOK, portVars, startVars, Goto,
           Set
  <2>2. InChannel'
    BY <1>10 DEF OutOfAttempts, GiveUp, InChannel, TypeOK, Goto
  <2> QED  BY <2>1, <2>2
<1>11. ASSUME NEW c \in Containers, InstallLinks(c) PROVE Keeps
  <2>1. NoPorts' /\ NoQuarantine' /\ NoSandbox'
    <3>1. pc[c] = "install" /\ UNCHANGED <<bound, ports, quarantine>>
      BY <1>11 DEF InstallLinks, portVars
    <3>2. PICK l \in {"wait", "kept", "stopping"} : pc' = [pc EXCEPT ![c] = l]
      BY <1>11 DEF InstallLinks, Stopped, Goto
    <3>3. \A d \in Containers : pc'[d] = IF d = c THEN l ELSE pc[d]
      BY <3>2 DEF TypeOK
    <3>4. NoPorts' /\ NoQuarantine'
      BY <3>1, <3>3 DEF NoPorts, NoQuarantine, Bare, PastStart
    <3>5. NoSandbox'
      BY <3>1, <3>3 DEF NoSandbox, WithoutSandbox
    <3> QED  BY <3>4, <3>5
  <2>2. InChannel'
    BY <1>11 DEF InstallLinks, Stopped, InChannel, TypeOK, Goto
  <2> QED  BY <2>1, <2>2
<1>12. ASSUME NEW c \in Containers, Wait(c) PROVE Keeps
  <2>1. NoPorts' /\ NoQuarantine' /\ NoSandbox'
    <3>1. pc[c] = "wait" /\ UNCHANGED <<bound, ports, quarantine>>
      BY <1>12 DEF Wait, portVars, startVars
    <3>2. PICK l \in {"running", "kept", "stopping"} : pc' = [pc EXCEPT ![c] = l]
      BY <1>12 DEF Wait, Stopped, Goto
    <3>3. \A d \in Containers : pc'[d] = IF d = c THEN l ELSE pc[d]
      BY <3>2 DEF TypeOK
    <3>4. NoPorts' /\ NoQuarantine'
      BY <3>1, <3>3 DEF NoPorts, NoQuarantine, Bare, PastStart
    <3>5. NoSandbox'
      BY <3>1, <3>3 DEF NoSandbox, WithoutSandbox
    <3> QED  BY <3>4, <3>5
  <2>2. InChannel'
    <3>1. pc[c] # "dropped" /\ UNCHANGED queue
      BY <1>12 DEF Wait, startVars
    <3>2. Goto(c, "running") \/ Goto(c, Stopped(c))
      BY <1>12 DEF Wait
    <3> QED  BY <3>1, <3>2, ChannelKept
  <2> QED  BY <2>1, <2>2
<1>13. ASSUME NEW c \in Containers, StopBackend(c) PROVE Keeps
  <2>1. NoPorts' /\ NoQuarantine' /\ NoSandbox'
    BY <1>13 DEF StopBackend, RemoveSandbox, Unbound, NoPorts, NoQuarantine,
           NoSandbox, Bare, PastStart, WithoutSandbox, TypeOK, PortsTypeOK,
           portVars, startVars, Goto, Set
  <2>2. InChannel'
    BY <1>13 DEF StopBackend, InChannel, TypeOK, Goto
  <2> QED  BY <2>1, <2>2
<1>14. ASSUME NEW c \in Containers, ReleasePorts(c) PROVE Keeps
  <2>1. NoPorts' /\ NoQuarantine' /\ NoSandbox'
    BY <1>14 DEF ReleasePorts, Returned, NoPorts, NoQuarantine, NoSandbox,
           Bare, PastStart, WithoutSandbox, TypeOK, PortsTypeOK, portVars,
           startVars, Goto, Set
  <2>2. InChannel'
    BY <1>14 DEF ReleasePorts, InChannel, TypeOK, Goto
  <2> QED  BY <2>1, <2>2
<1>15. ASSUME NEW c \in Containers, Stop(c) PROVE Keeps
  <2>1. NoPorts' /\ NoQuarantine' /\ NoSandbox'
    <3>1. pc[c] = "running" /\ UNCHANGED <<bound, ports, quarantine>>
      BY <1>15 DEF Stop, portVars, startVars
    <3>2. PICK l \in {"kept", "stopping"} : pc' = [pc EXCEPT ![c] = l]
      BY <1>15 DEF Stop, Stopped, Goto
    <3>3. \A d \in Containers : pc'[d] = IF d = c THEN l ELSE pc[d]
      BY <3>2 DEF TypeOK
    <3>4. NoPorts' /\ NoQuarantine'
      BY <3>1, <3>3 DEF NoPorts, NoQuarantine, Bare, PastStart
    <3>5. NoSandbox'
      BY <3>1, <3>3 DEF NoSandbox, WithoutSandbox
    <3> QED  BY <3>4, <3>5
  <2>2. InChannel'
    BY <1>15 DEF Stop, Stopped, InChannel, TypeOK, Goto
  <2> QED  BY <2>1, <2>2
<1>16. ASSUME NEW c \in Containers, Drop(c) PROVE Keeps
  <2>1. NoPorts' /\ NoQuarantine' /\ NoSandbox'
    <3>1. /\ pc[c] \in {"install", "wait", "running"} /\ UNCHANGED <<bound, quarantine>>
          /\ \/ pc' = [pc EXCEPT ![c] = "kept"] /\ UNCHANGED ports
             \/ /\ pc' = [pc EXCEPT ![c] = "dropped"]
                /\ ports' = [ports EXCEPT ![c] = {}]
      BY <1>16 DEF Drop, Goto, Set, startVars
    <3>2. PICK l \in {"kept", "dropped"} : pc' = [pc EXCEPT ![c] = l]
      BY <3>1
    <3>3. \A d \in Containers : pc'[d] = IF d = c THEN l ELSE pc[d]
      BY <3>2 DEF TypeOK
    <3>4. \A d \in Containers \ {c} : ports'[d] = ports[d]
      BY <1>16 DEF Drop, Set, TypeOK
    <3>5. pc'[c] = "dropped" => ports'[c] = {}
      BY <3>1 DEF TypeOK
    <3>6. NoPorts'
      BY <3>3, <3>4, <3>5 DEF NoPorts, Bare
    <3>7. NoQuarantine'
      BY <3>1, <3>3 DEF NoQuarantine, PastStart, Bare
    <3>8. NoSandbox'
      BY <3>1, <3>3 DEF NoSandbox, WithoutSandbox
    <3> QED  BY <3>6, <3>7, <3>8
  <2>2. InChannel'
    <3>1. CASE c \in KeepAlive
      BY <1>16, <3>1 DEF Drop, InChannel, TypeOK, Goto
    <3>2. CASE c \notin KeepAlive
      <4>1. queue \in Seq(Containers) /\ queue' = Append(queue, c)
        BY <1>16, <3>2 DEF Drop, TypeOK
      <4>2. pc[c] # "dropped" /\ pc' = [pc EXCEPT ![c] = "dropped"]
        BY <1>16, <3>2 DEF Drop, Goto
      <4>3. pc \in [Containers -> PC]
        BY DEF TypeOK
      <4>4. \A i \in 1..Len(queue) : queue'[i] = queue[i] /\ queue[i] # c
                                      /\ queue[i] \in Containers
        BY <4>1, <4>2 DEF InChannel
      <4>5. Len(queue') = Len(queue) + 1 /\ queue'[Len(queue) + 1] = c
        BY <4>1
      <4>6. \A i \in 1..Len(queue') : i \in 1..Len(queue) \/ i = Len(queue) + 1
        BY <4>1, <4>5
      <4>7. \A i \in 1..Len(queue') : pc'[queue'[i]] = "dropped"
        BY <4>2, <4>3, <4>4, <4>5, <4>6 DEF InChannel
      <4>8. \A i, j \in 1..Len(queue') : queue'[i] = queue'[j] => i = j
        BY <4>4, <4>5, <4>6 DEF InChannel
      <4> QED  BY <4>7, <4>8 DEF InChannel
    <3> QED  BY <3>1, <3>2
  <2> QED  BY <2>1, <2>2
<1>17. ASSUME NEW c \in Containers, Cancel(c) PROVE Keeps
  <2>1. NoPorts' /\ NoQuarantine' /\ NoSandbox'
    <3>1. UNCHANGED ports /\ quarantine' = [quarantine EXCEPT ![c] = {}]
      BY <1>17 DEF Cancel, Set
    <3>2. /\ pc[c] \in Awaiting
          /\ \/ pc' = [pc EXCEPT ![c] = "abandoned"] /\ pc[c] = "boot" /\ UNCHANGED bound
             \/ pc' = [pc EXCEPT ![c] = "lost"] /\ bound' \in {bound, Unbound(c)}
      BY <1>17 DEF Cancel, InFlight, Goto
    <3>3. NoPorts' /\ NoQuarantine'
      BY <3>1, <3>2 DEF NoPorts, NoQuarantine, Bare, PastStart, TypeOK
    <3>4. NoSandbox'
      BY <3>2 DEF NoSandbox, WithoutSandbox, Unbound, TypeOK, PortsTypeOK
    <3> QED  BY <3>3, <3>4
  <2>2. InChannel'
    BY <1>17 DEF Cancel, InFlight, Awaiting, InChannel, TypeOK, Goto
  <2> QED  BY <2>1, <2>2
<1>18. ASSUME NEW c \in Containers, LateBoot(c) PROVE Keeps
  <2>1. NoPorts' /\ NoQuarantine' /\ NoSandbox'
    BY <1>18 DEF LateBoot, BoundBy, NoPorts, NoQuarantine, NoSandbox, Bare,
           PastStart, WithoutSandbox, TypeOK, PortsTypeOK, portVars,
           startVars, Goto, Set
  <2>2. InChannel'
    BY <1>18 DEF LateBoot, InChannel, TypeOK, Goto
  <2> QED  BY <2>1, <2>2
<1>19. CASE CleanUp
  <2> DEFINE c == Head(queue)
  <2>1. /\ queue \in Seq(Containers) /\ queue # <<>> /\ queue' = Tail(queue)
        /\ pc' = [pc EXCEPT ![c] = "stopped"]
    BY <1>19 DEF CleanUp, TypeOK, Goto
  <2>2. c \in Containers /\ c = queue[1] /\ Len(queue) \in Nat \ {0}
    BY <2>1
  <2>3. pc[c] = "dropped"
    BY <2>2 DEF InChannel
  <2>4. UNCHANGED <<ports, quarantine>> /\ RemoveSandbox(c)
    BY <1>19 DEF CleanUp, startVars
  <2>5. NoPorts' /\ NoQuarantine'
    BY <2>1, <2>2, <2>3, <2>4 DEF NoPorts, NoQuarantine, Bare, PastStart,
       TypeOK
  <2>6. NoSandbox'
    BY <2>1, <2>2, <2>3, <2>4 DEF NoSandbox, WithoutSandbox, RemoveSandbox,
                                  Unbound, TypeOK, PortsTypeOK
  <2>7. /\ Len(queue') = Len(queue) - 1
        /\ \A i \in 1..Len(queue') : i + 1 \in 1..Len(queue) /\ queue'[i] = queue[i + 1]
    BY <2>1, <2>2
  <2>8. \A i \in 1..Len(queue') : queue'[i] # c /\ queue'[i] \in Containers
    BY <2>1, <2>2, <2>7 DEF InChannel
  <2>9. InChannel'
    <3>1. \A i \in 1..Len(queue') : pc'[queue'[i]] = "dropped"
      BY <2>1, <2>7, <2>8 DEF InChannel, TypeOK
    <3>2. \A i, j \in 1..Len(queue') : queue'[i] = queue'[j] => i = j
      <4> SUFFICES ASSUME NEW i \in 1..Len(queue'), NEW j \in 1..Len(queue'),
                          queue'[i] = queue'[j]
                   PROVE  i = j
        OBVIOUS
      <4>1. queue[i + 1] = queue[j + 1]
        BY <2>7
      <4>2. i + 1 = j + 1
        BY <2>7, <4>1 DEF InChannel
      <4> QED  BY <4>2
    <3> QED  BY <3>1, <3>2 DEF InChannel
  <2> QED  BY <1>0, <2>5, <2>6, <2>9
<1>20. ASSUME NEW p \in Ports, StrangerBinds(p) \/ StrangerLeaves(p) PROVE Keeps
  BY <1>20 DEF StrangerBinds, StrangerLeaves, NoPorts, NoQuarantine,
     NoSandbox,
             InChannel, TypeOK, PortsTypeOK, startVars
<1>21. CASE UNCHANGED vars
  BY <1>0, <1>21 DEF vars, portVars, startVars, NoPorts, NoQuarantine,
     NoSandbox,
                      InChannel
<1> QED
  BY <1>0, <1>1, <1>2, <1>3, <1>4, <1>5, <1>6, <1>7, <1>8, <1>9, <1>10,
         <1>11, <1>12, <1>13, <1>14, <1>15, <1>16, <1>17, <1>18, <1>19,
         <1>20, <1>21, NextCases DEF Progress

\* A start that failed and a guard that was stopped hold no port and, when the
\* backend's removals succeed, leave no sandbox (create_started_container,
\* stop_inner, Drop, cleanup.rs).
THEOREM LeavesNothing ==
  Spec => []NothingLeftBehind
<1>1. LeftInv /\ [Next]_vars => LeftInv'
  BY LeftStep
<1>2. LeftInv => NothingLeftBehind
  BY DEF LeftInv, NoPorts, NoQuarantine, NoSandbox, Bare, PastStart,
         WithoutSandbox, NothingLeftBehind
<1> QED  BY LeftStart, <1>1, <1>2, PTL DEF Spec
=============================================================================

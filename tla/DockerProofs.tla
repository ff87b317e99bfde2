---------------------------- MODULE DockerProofs ----------------------------
(***************************************************************************)
(* Proofs about Docker, for any set of containers and any bound on the     *)
(* networks, whatever the daemon refuses or does not answer.               *)
(***************************************************************************)
EXTENDS Docker, TLAPS

Labels == Busy \cup {"idle", "up", "failed", "stopped"}

\* TypeOK with the sets of labels spelled out
LEMMA Types ==
  TypeOK <=>
    /\ image \in BOOLEAN
    /\ cont \in [Containers -> {"none", "created", "running"}]
    /\ on \in [Containers -> Ids \cup {NoId}]
    /\ nets \subseteq Ids /\ made \in 0..MaxNets /\ cache \in Ids \cup {NoId}
    /\ pc \in [Containers -> Labels]
    /\ nid \in [Containers -> Ids \cup {NoId}]
    /\ netpc \in {"idle", "lookup", "delete"} /\ netid \in Ids \cup {NoId}
    /\ closing \in {"no", "delete", "done"} /\ listed \subseteq Containers
    /\ excused \subseteq Containers /\ disturbed \in BOOLEAN
BY DEF TypeOK, Labels

\* The type invariant: every call stands at one of its requests, and ids are
\* those of networks the daemon has made.
THEOREM TypeCorrect == Spec => []TypeOK
<1>1. Init => TypeOK
  <2>1. 0 \in 0..MaxNets
    BY DockerAssumption
  <2> QED
    BY <2>1 DEF Init, TypeOK
<1>2. TypeOK /\ [Next]_vars => TypeOK'
  <2> SUFFICES ASSUME TypeOK, [Next]_vars PROVE TypeOK'
    OBVIOUS
  <2> USE DockerAssumption DEF TypeOK
  <2>1. ASSUME NEW c \in Containers, NEW l \in Labels, Goto(c, l)
        PROVE pc' \in [Containers -> Labels]
    BY <2>1, Types DEF Goto, Labels
  <2> USE DEF history, daemon, closers
  <2>2. ASSUME NEW c \in Containers, Begin(c) \/ Inspect(c) \/ Stop(c)
        PROVE TypeOK'
    BY <2>1, <2>2 DEF Begin, Inspect, Stop, Fails, Labels, Busy, Ensuring
  <2>3. ASSUME NEW c \in Containers, Pull(c) \/ PullAgain(c) PROVE TypeOK'
    BY <2>1, <2>3 DEF Pull, PullAgain, Pulled, PullFails, Unanswered, Fails,
                      Labels, Busy, Ensuring
  <2>4. ASSUME NEW c \in Containers, Create(c) PROVE TypeOK'
    BY <2>1, <2>4 DEF Create, Becomes, Fails, Labels, Busy, Ensuring
  <2>5. ASSUME NEW c \in Containers, Ensure(c) PROVE TypeOK'
    BY <2>1, <2>5 DEF Ensure, Joining, Labels, Busy, Ensuring
  <2>6. ASSUME NEW c \in Containers, List(c) PROVE TypeOK'
    BY <2>1, <2>6 DEF List, Joining, Fails, Labels, Busy, Ensuring
  <2>7. ASSUME NEW c \in Containers, CreateNet(c) PROVE TypeOK'
    <3>1. made < MaxNets /\ made' = made + 1
            => made' \in 0..MaxNets /\ made' \in Ids
      BY DEF Ids
    <3>2. PICK l \in {"connect", "failed"} : Goto(c, l)
      BY <2>7 DEF CreateNet, Joining, Fails
    <3>3. /\ made' \in 0..MaxNets /\ nets' \subseteq Ids
          /\ cache' \in Ids \cup {NoId}
          /\ nid' \in [Containers -> Ids \cup {NoId}]
      BY <2>7, <3>1 DEF CreateNet, Joining
    <3> QED
      BY <2>1, <2>7, <3>2, <3>3 DEF CreateNet, Labels, Busy
  <2>8. ASSUME NEW c \in Containers, Connect(c) PROVE TypeOK'
    BY <2>1, <2>8 DEF Connect, Fails, Labels, Busy, Ensuring
  <2>9. ASSUME NEW c \in Containers, Start(c) \/ StopRequest(c) PROVE TypeOK'
    BY <2>1, <2>9 DEF Start, StopRequest, Becomes, Halted, Unanswered, Labels,
                      Busy, Ensuring
  <2>10. ASSUME NEW c \in Containers, RemoveRequest(c) PROVE TypeOK'
    BY <2>1, <2>10 DEF RemoveRequest, Removed, Becomes, Leaves, Labels, Busy
  <2>11. CASE Network
    BY <2>11 DEF Network, CloseNetwork, LookupNetwork, DeleteNetwork, Leaves
  <2>12. CASE Close
    BY <2>12 DEF Close, CloseList, CloseDelete, CloseEnds, Removed, Becomes,
                 Leaves, Labelled
  <2>13. CASE UNCHANGED vars
    BY <2>13 DEF vars
  <2> QED
    BY <2>2, <2>3, <2>4, <2>5, <2>6, <2>7, <2>8, <2>9, <2>10, <2>11, <2>12,
       <2>13 DEF Next, Call
<1> QED
  BY <1>1, <1>2, PTL DEF Spec

-----------------------------------------------------------------------------
(* What a step does to the variables that are not of one container         *)

\* A step of a call moves that call alone.
LEMMA OneCallMoves ==
  ASSUME TypeOK, NEW c \in Containers, Begin(c) \/ Call(c) \/ Stop(c)
  PROVE  \A d \in Containers \ {c} : pc'[d] = pc[d]
<1>1. \A l : Goto(c, l) => \A d \in Containers \ {c} : pc'[d] = pc[d]
  BY DEF Goto, TypeOK
<1> QED
  BY <1>1 DEF Begin, Stop, Call, Inspect, Pull, PullAgain, Pulled, PullFails,
              Create, Ensure, List, CreateNet, Connect, Start, StopRequest,
              RemoveRequest, Joining, Fails

\* The closers move no call.
LEMMA ClosersMoveNone == Network \/ Close => UNCHANGED <<image, pc, nid>>
BY DEF Network, CloseNetwork, LookupNetwork, DeleteNetwork, Close, CloseList,
       CloseDelete, CloseEnds, daemon

-----------------------------------------------------------------------------
(* The image                                                               *)

\* An image that is there stays, and a call comes to its create only with the
\* image there.
LEMMA ImageStep == TypeOK /\ ImagePulled /\ [Next]_vars => ImagePulled'
<1> SUFFICES ASSUME TypeOK, ImagePulled, [Next]_vars PROVE ImagePulled'
  OBVIOUS
<1>1. ASSUME NEW c \in Containers, Begin(c) \/ Call(c) \/ Stop(c)
      PROVE (image => image') /\ (pc'[c] = "create" => image')
  <2>1. \A l : Goto(c, l) => pc'[c] = l
    BY DEF Goto, TypeOK
  <2>2. CASE Inspect(c) \/ Pull(c) \/ PullAgain(c)
    BY <2>1, <2>2 DEF Inspect, Pull, PullAgain, Pulled, PullFails, Fails,
                      Unanswered, daemon, TypeOK
  <2>3. CASE Begin(c) \/ Stop(c) \/ Create(c) \/ Ensure(c)
    BY <2>1, <2>3 DEF Begin, Stop, Create, Ensure, Joining, Fails, daemon
  <2>4. CASE List(c) \/ CreateNet(c) \/ Connect(c)
    BY <2>1, <2>4 DEF List, CreateNet, Connect, Joining, Fails, daemon
  <2>5. CASE Start(c) \/ StopRequest(c) \/ RemoveRequest(c)
    BY <2>1, <2>5 DEF Start, StopRequest, RemoveRequest
  <2> QED
    BY <1>1, <2>2, <2>3, <2>4, <2>5 DEF Call
<1>2. CASE \E c \in Containers : Begin(c) \/ Call(c) \/ Stop(c)
  BY <1>1, <1>2, OneCallMoves DEF ImagePulled
<1>3. CASE Network \/ Close
  BY <1>3, ClosersMoveNone DEF ImagePulled
<1>4. CASE UNCHANGED vars
  BY <1>4 DEF vars, daemon, ImagePulled
<1> QED
  BY <1>2, <1>3, <1>4 DEF Next

\* A container is created only once its image is there (pull_if_missing
\* reads the stream of the pull to its end).
THEOREM ImageFirst == Spec => []ImagePulled
<1>1. Init => ImagePulled
  BY DEF Init, ImagePulled
<1> QED
  BY <1>1, ImageStep, TypeCorrect, PTL DEF Spec

-----------------------------------------------------------------------------
(* Kept containers, and close()                                            *)

\* close() lists none that is kept, and until it has ended it still has on
\* its list what it has not removed
KeptInv == listed \cap KeepAlive = {} /\ KeptRuns
SweepInv ==
  closing # "no" =>
    \A c \in Containers \ KeepAlive :
      cont[c] # "none" =>
        c \in excused \/ (closing = "delete" /\ c \in listed)

\* A step of a call leaves other containers alone, and makes one only by a
\* create, which close() may have been too early for.
LEMMA OwnContainer ==
  ASSUME TypeOK, NEW c \in Containers, Begin(c) \/ Call(c) \/ Stop(c)
  PROVE  /\ \A d \in Containers \ {c} : cont'[d] = cont[d]
         /\ cont[c] = "none" /\ cont'[c] # "none"
              => closing = "no" \/ c \in excused'
         /\ excused \subseteq excused'
         /\ UNCHANGED <<closing, listed>>
<1>1. \A s : Becomes(c, s) => /\ cont'[c] = s
                              /\ \A d \in Containers \ {c} : cont'[d] = cont[d]
  BY DEF Becomes, TypeOK
<1>2. CASE Begin(c) \/ Stop(c) \/ Inspect(c) \/ Pull(c) \/ PullAgain(c)
  BY <1>2 DEF Begin, Stop, Inspect, Pull, PullAgain, Pulled, daemon, closers, history
<1>3. CASE Create(c)
  BY <1>1, <1>3 DEF Create, closers, history
<1>4. CASE Ensure(c) \/ List(c) \/ CreateNet(c) \/ Connect(c)
  BY <1>4 DEF Ensure, List, CreateNet, Connect, daemon, closers, history
<1>5. CASE Start(c) \/ StopRequest(c) \/ RemoveRequest(c)
  BY <1>1, <1>5 DEF Start, StopRequest, RemoveRequest, Removed, Unanswered,
                    Halted, closers, history
<1> QED
  BY <1>2, <1>3, <1>4, <1>5 DEF Call

LEMMA KeptStep == TypeOK /\ KeptInv /\ [Next]_vars => KeptInv'
<1> SUFFICES ASSUME TypeOK, KeptInv, [Next]_vars PROVE KeptInv'
  OBVIOUS
<1>1. ASSUME NEW c \in Containers, Begin(c) \/ Call(c) \/ Stop(c)
      PROVE KeptInv'
  <2>1. \A l : Goto(c, l) => pc'[c] = l
    BY DEF Goto, TypeOK
  <2>2. \A s : Becomes(c, s) => cont'[c] = s
    BY DEF Becomes, TypeOK
  <2>3. pc'[c] = "up" => cont'[c] = "running"
    <3>1. CASE Start(c)
      BY <2>1, <2>2, <3>1 DEF Start
    <3>2. CASE Begin(c) \/ Stop(c) \/ Inspect(c) \/ Pull(c) \/ PullAgain(c)
      BY <2>1, <3>2 DEF Begin, Stop, Inspect, Pull, PullAgain, Pulled,
                        PullFails, Fails
    <3>3. CASE Create(c) \/ Ensure(c) \/ List(c) \/ CreateNet(c) \/ Connect(c)
      BY <2>1, <3>3 DEF Create, Ensure, List, CreateNet, Connect, Joining,
                        Fails
    <3>4. CASE StopRequest(c) \/ RemoveRequest(c)
      BY <2>1, <3>4 DEF StopRequest, RemoveRequest
    <3> QED
      BY <1>1, <3>1, <3>2, <3>3, <3>4 DEF Call
  <2> QED
    BY <1>1, <2>3, OneCallMoves, OwnContainer, DockerAssumption
    DEF KeptInv, KeptRuns
<1>2. CASE Network
  BY <1>2 DEF Network, CloseNetwork, LookupNetwork, DeleteNetwork, daemon,
              KeptInv, KeptRuns
<1>3. CASE CloseList \/ CloseEnds
  BY <1>3 DEF CloseList, CloseEnds, Labelled, daemon, KeptInv, KeptRuns
<1>4. CASE CloseDelete
  BY <1>4, DockerAssumption
  DEF CloseDelete, Removed, Becomes, TypeOK, KeptInv, KeptRuns
<1>5. CASE UNCHANGED vars
  BY <1>5 DEF vars, daemon, closers, KeptInv, KeptRuns
<1> QED
  BY <1>1, <1>2, <1>3, <1>4, <1>5 DEF Next, Close

\* A kept container survives its guard and the close() of its process.
THEOREM KeptSurvives == Spec => []KeptRuns
<1>1. Init => KeptInv
  BY DockerAssumption DEF Init, KeptInv, KeptRuns
<1>2. KeptInv => KeptRuns
  BY DEF KeptInv
<1> QED
  BY <1>1, <1>2, KeptStep, TypeCorrect, PTL DEF Spec

LEMMA SweepStep == TypeOK /\ SweepInv /\ [Next]_vars => SweepInv'
<1> SUFFICES ASSUME TypeOK, SweepInv, [Next]_vars PROVE SweepInv'
  OBVIOUS
<1>1. ASSUME NEW c \in Containers, Begin(c) \/ Call(c) \/ Stop(c)
      PROVE SweepInv'
  BY <1>1, OwnContainer DEF SweepInv
<1>2. CASE Network
  BY <1>2 DEF Network, CloseNetwork, LookupNetwork, DeleteNetwork, daemon,
              history, SweepInv
<1>3. CASE CloseList \/ CloseEnds
  BY <1>3 DEF CloseList, CloseEnds, Labelled, daemon, history, SweepInv, TypeOK
<1>4. CASE CloseDelete
  BY <1>4 DEF CloseDelete, Removed, Becomes, TypeOK, SweepInv
<1>5. CASE UNCHANGED vars
  BY <1>5 DEF vars, daemon, closers, history, SweepInv
<1> QED
  BY <1>1, <1>2, <1>3, <1>4, <1>5 DEF Next, Close

\* close() finds every container the run has left at the daemon, whatever
\* became of the create() that made it.
THEOREM NothingUnswept == Spec => []CloseSweeps
<1>1. Init => SweepInv
  BY DEF Init, SweepInv
<1>2. SweepInv => CloseSweeps
  BY DEF SweepInv, CloseSweeps
<1> QED
  BY <1>1, <1>2, SweepStep, TypeCorrect, PTL DEF Spec

-----------------------------------------------------------------------------
(* One network                                                             *)

\* while nobody has looked up together with another or closed the network,
\* who makes sure of it does so alone and with the cache empty, and everyone
\* who has an id has the one in the cache
OneLooksUp ==
  \A c, d \in Containers :
    pc[c] \in Ensuring => cache = NoId /\ (pc[d] \in Ensuring => c = d)
OneId ==
  \A c \in Containers : {nid[c], on[c]} \subseteq {NoId, cache}
NetworkInv == ~disturbed => netpc = "idle" /\ OneLooksUp /\ OneId

\* A request that joins nobody to a network
LEMMA QuietStep ==
  ASSUME TypeOK, NetworkInv, NEW c \in Containers, NEW l, Goto(c, l),
         l \notin Ensuring, UNCHANGED <<cache, nid, netpc, disturbed>>,
         \A d \in Containers : on'[d] \in {on[d], NoId, nid[d]}
  PROVE  NetworkInv'
BY DEF TypeOK, Goto, NetworkInv, OneLooksUp, OneId

\* Finding an id ends the search, and puts it in the cache.
LEMMA JoinStep ==
  ASSUME TypeOK, NetworkInv, NEW c \in Containers, NEW id \in Ids \cup {NoId},
         Joining(c, id), cache' = id, cache = id \/ pc[c] \in Ensuring,
         UNCHANGED <<on, netpc, disturbed>>
  PROVE  NetworkInv'
<1> SUFFICES ASSUME ~disturbed PROVE NetworkInv'
  BY DEF NetworkInv
<1> USE DEF TypeOK, NetworkInv
<1>1. pc' = [pc EXCEPT ![c] = "connect"] /\ nid' = [nid EXCEPT ![c] = id]
  BY DEF Joining, Goto
<1>2. cache # NoId => cache = id
  BY DEF OneLooksUp
<1>3. OneId'
  BY <1>1, <1>2 DEF OneId
<1>4. \A d \in Containers : pc'[d] \in Ensuring => pc[d] \in Ensuring /\ d # c
  BY <1>1 DEF Ensuring
<1>5. OneLooksUp'
  BY <1>1, <1>4 DEF OneLooksUp
<1> QED
  BY <1>3, <1>5

LEMMA NetworkStep == TypeOK /\ NetworkInv /\ [Next]_vars => NetworkInv'
<1> SUFFICES ASSUME TypeOK, NetworkInv, [Next]_vars PROVE NetworkInv'
  OBVIOUS
<1> USE DEF daemon, closers, history
<1>1. ASSUME NEW c \in Containers, Begin(c) \/ Stop(c) \/ Inspect(c)
      PROVE NetworkInv'
  <2>1. PICK l \in {"inspect", "create", "pull", "failed", "stop"} : Goto(c, l)
    BY <1>1 DEF Begin, Stop, Inspect, Fails
  <2> QED
    BY <1>1, <2>1, QuietStep DEF Begin, Stop, Inspect, Ensuring
<1>2. ASSUME NEW c \in Containers, Pull(c) \/ PullAgain(c) PROVE NetworkInv'
  <2>1. PICK l \in {"create", "pullAgain", "failed"} : Goto(c, l)
    BY <1>2 DEF Pull, PullAgain, Pulled, PullFails, Fails
  <2> QED
    BY <1>2, <2>1, QuietStep DEF Pull, PullAgain, Ensuring
<1>3. ASSUME NEW c \in Containers, Create(c) PROVE NetworkInv'
  <2>1. PICK l \in {"ensure", "start", "failed"} : Goto(c, l)
    BY <1>3 DEF Create, Fails
  <2> QED
    BY <1>3, <2>1, QuietStep DEF Create, Ensuring
<1>4. ASSUME NEW c \in Containers, Ensure(c) PROVE NetworkInv'
  <2>1. CASE cache # NoId
    BY <1>4, <2>1, JoinStep DEF Ensure, TypeOK
  <2>2. CASE cache = NoId
    <3>1. SUFFICES ASSUME ~disturbed' PROVE NetworkInv'
      BY DEF NetworkInv
    <3>2. /\ ~disturbed /\ UNCHANGED <<on, nid, cache, netpc>>
          /\ \A d \in Containers \ {c} : pc[d] \notin Ensuring
          /\ pc' = [pc EXCEPT ![c] = "list"]
      BY <1>4, <2>2, <3>1 DEF Ensure, Goto
    <3>3. \A d \in Containers : pc'[d] \in Ensuring => d = c
      BY <3>2 DEF TypeOK
    <3> QED
      BY <2>2, <3>2, <3>3 DEF NetworkInv, OneLooksUp, OneId
  <2> QED
    BY <2>1, <2>2
<1>5. ASSUME NEW c \in Containers, List(c) PROVE NetworkInv'
  <2>1. CASE \E id \in nets : Joining(c, id) /\ cache' = id
    BY <1>5, <2>1, JoinStep DEF List, TypeOK, Ensuring
  <2>2. CASE Fails(c) /\ UNCHANGED <<nid, cache>>
    BY <1>5, <2>2, QuietStep DEF List, Fails, Ensuring
  <2>3. CASE Goto(c, "createNet") /\ UNCHANGED <<nid, cache>>
    BY <1>5, <2>3 DEF List, Goto, Ensuring, TypeOK, NetworkInv, OneLooksUp,
                      OneId
  <2> QED
    BY <1>5, <2>1, <2>2, <2>3 DEF List
<1>6. ASSUME NEW c \in Containers, CreateNet(c) PROVE NetworkInv'
  <2>1. CASE made < MaxNets /\ made' = made + 1 /\ Joining(c, made') /\ cache' = made'
    <3>1. made' \in Ids
      BY <2>1, DockerAssumption DEF TypeOK, Ids
    <3> QED
      BY <1>6, <2>1, <3>1, JoinStep DEF CreateNet, Ensuring
  <2>2. CASE Fails(c) /\ UNCHANGED <<nid, cache>>
    BY <1>6, <2>2, QuietStep DEF CreateNet, Fails, Ensuring
  <2> QED
    BY <1>6, <2>1, <2>2 DEF CreateNet
<1>7. ASSUME NEW c \in Containers, Connect(c) PROVE NetworkInv'
  <2>1. PICK l \in {"start", "failed"} : Goto(c, l)
    BY <1>7 DEF Connect, Fails
  <2>2. \A d \in Containers : on'[d] \in {on[d], nid[d]}
    BY <1>7 DEF Connect, TypeOK
  <2> QED
    BY <1>7, <2>1, <2>2, QuietStep DEF Connect, Ensuring
<1>8. ASSUME NEW c \in Containers, Start(c) \/ StopRequest(c)
      PROVE NetworkInv'
  <2>1. PICK l \in {"up", "undoStop", "remove", "undoRemove"} : Goto(c, l)
    BY <1>8 DEF Start, StopRequest
  <2> QED
    BY <1>8, <2>1, QuietStep DEF Start, StopRequest, Ensuring
<1>9. ASSUME NEW c \in Containers, RemoveRequest(c) PROVE NetworkInv'
  <2>1. PICK l \in {"stopped", "failed"} : Goto(c, l)
    BY <1>9 DEF RemoveRequest
  <2>2. \A d \in Containers : on'[d] \in {on[d], NoId}
    BY <1>9 DEF RemoveRequest, Removed, Leaves
  <2> QED
    BY <1>9, <2>1, <2>2, QuietStep DEF RemoveRequest, Ensuring
<1>10. CASE Network
  BY <1>10 DEF Network, CloseNetwork, LookupNetwork, DeleteNetwork, NetworkInv
<1>11. CASE Close
  <2>1. \A d \in Containers : on'[d] \in {on[d], NoId}
    BY <1>11 DEF Close, CloseList, CloseDelete, CloseEnds, Removed, Leaves
  <2> QED
    BY <1>11, <2>1 DEF Close, CloseList, CloseDelete, CloseEnds, NetworkInv,
                       OneLooksUp, OneId
<1>12. CASE UNCHANGED vars
  BY <1>12 DEF vars, NetworkInv, OneLooksUp, OneId
<1> QED
  BY <1>1, <1>2, <1>3, <1>4, <1>5, <1>6, <1>7, <1>8, <1>9, <1>10, <1>11, <1>12
  DEF Next, Call

\* The members of a network are all on one daemon network, for any number of
\* them and any lost answers, unless two looked it up at the same time or it
\* was closed in between.
THEOREM OneNetwork == Spec => []SameNetwork
<1>1. Init => NetworkInv
  BY DEF Init, NetworkInv, OneLooksUp, OneId, Ensuring
<1>2. NetworkInv => SameNetwork
  BY DockerAssumption DEF NetworkInv, OneId, SameNetwork
<1> QED
  BY <1>1, <1>2, NetworkStep, TypeCorrect, PTL DEF Spec

=============================================================================

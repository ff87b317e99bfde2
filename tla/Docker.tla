------------------------------- MODULE Docker -------------------------------
(***************************************************************************)
(* The docker backend (crates/rightsize-docker/src/backend.rs) between     *)
(* concurrent containers of one process and the daemon: pull, create,      *)
(* joining the network, start, stop and remove, Network::close, and the    *)
(* sweep of close() by label.  One action per request to the daemon or per *)
(* access to the cache of network ids.                                     *)
(*                                                                         *)
(* Every Network of a process has the same id, rz-net-<run id>, so one     *)
(* network name stands for all of them.  The daemon is external: a request *)
(* may be refused, and one whose answer is lost, or later than             *)
(* RESPONSE_TIMEOUT, may have taken effect all the same.                   *)
(***************************************************************************)
EXTENDS Naturals, FiniteSets

CONSTANTS Containers, Joins,  \* those with a network
          KeepAlive,          \* those with the reuse label
          MaxNets             \* bound: networks the daemon makes

ASSUME DockerAssumption ==
  Joins \subseteq Containers /\ KeepAlive \subseteq Containers
  /\ MaxNets \in Nat

VARIABLES
  image, cont, on, nets, made, \* the daemon: the image; containers; the
                               \* network each is on; networks of our name
  cache,                       \* network_ids: the id for our name
  pc, nid,                     \* per container; the id its create() got
  netpc, netid,                \* Network::close
  closing, listed,             \* the backend's close()
  excused, disturbed           \* history: see CloseSweeps and SameNetwork

daemon == <<image, cont, on, nets, made>>
closers == <<netpc, netid, closing, listed>>
history == <<excused, disturbed>>
vars == <<daemon, cache, pc, nid, closers, history>>

Ids == 1..MaxNets
NoId == 0

Ensuring == {"list", "createNet"}
Busy == {"inspect", "pull", "pullAgain", "create", "ensure", "connect",
         "start", "undoStop", "undoRemove", "stop", "remove"} \cup Ensuring

TypeOK ==
  /\ image \in BOOLEAN
  /\ cont \in [Containers -> {"none", "created", "running"}]
  /\ on \in [Containers -> Ids \cup {NoId}]
  /\ nets \subseteq Ids /\ made \in 0..MaxNets /\ cache \in Ids \cup {NoId}
  /\ pc \in [Containers -> Busy \cup {"idle", "up", "failed", "stopped"}]
  /\ nid \in [Containers -> Ids \cup {NoId}]
  /\ netpc \in {"idle", "lookup", "delete"} /\ netid \in Ids \cup {NoId}
  /\ closing \in {"no", "delete", "done"} /\ listed \subseteq Containers
  /\ excused \subseteq Containers /\ disturbed \in BOOLEAN

Init ==
  /\ image = FALSE
  /\ cont = [c \in Containers |-> "none"]
  /\ on = [c \in Containers |-> NoId]
  /\ nets = {} /\ made = 0 /\ cache = NoId
  /\ pc = [c \in Containers |-> "idle"]
  /\ nid = [c \in Containers |-> NoId]
  /\ netpc = "idle" /\ netid = NoId
  /\ closing = "no" /\ listed = {}
  /\ excused = {} /\ disturbed = FALSE

\* an exchange that fails half-way: whether the daemon acted is not known
Unanswered(before, after) == {before, after}

Goto(c, l) == pc' = [pc EXCEPT ![c] = l]
Becomes(c, s) == cont' = [cont EXCEPT ![c] = s]

\* no connection to the daemon, or an answer that ends the call with an error
Fails(c) == Goto(c, "failed")

-----------------------------------------------------------------------------
(* pull_if_missing                                                         *)

Begin(c) ==
  /\ pc[c] = "idle"
  /\ Goto(c, "inspect")
  /\ UNCHANGED <<daemon, cache, nid, closers, history>>

\* an inspect that is not answered with 200 leads to a pull
Inspect(c) ==
  /\ pc[c] = "inspect"
  /\ \/ image /\ Goto(c, "create")
     \/ Goto(c, "pull")
     \/ Fails(c)
  /\ UNCHANGED <<daemon, cache, nid, closers, history>>

\* Mutant of Pull: a 200 counts as success, whatever the stream says
PullByStatus(c) ==
  /\ pc[c] = "pull"
  /\ \/ image' \in Unanswered(image, TRUE) /\ Goto(c, "create")
     \/ UNCHANGED image /\ Fails(c)
  /\ UNCHANGED <<cont, on, nets, made, cache, nid, closers, history>>

\* the stream is drained to its end and has no line with an error
Pulled(c) == image' = TRUE /\ Goto(c, "create")

\* a 4xx, or a body that breaks off: the image may be there by now
PullFails(c) == image' \in Unanswered(image, TRUE) /\ Fails(c)

\* a 5xx, or an error line in the stream under a 200, is tried once more; a
\* 4xx or a request that fails is not
Pull(c) ==
  /\ pc[c] = "pull"
  /\ \/ Pulled(c)
     \/ UNCHANGED image /\ Goto(c, "pullAgain")
     \/ PullFails(c)
  /\ UNCHANGED <<cont, on, nets, made, cache, nid, closers, history>>

PullAgain(c) ==
  /\ pc[c] = "pullAgain"
  /\ \/ Pulled(c)
     \/ PullFails(c)
  /\ UNCHANGED <<cont, on, nets, made, cache, nid, closers, history>>

-----------------------------------------------------------------------------
(* create: the container, then its network                                 *)

\* what close() has listed already does not hold a container made now
Create(c) ==
  /\ pc[c] = "create"
  /\ \/ /\ image /\ cont[c] = "none"
        /\ Becomes(c, "created")
        /\ excused' = IF closing = "no" THEN excused ELSE excused \cup {c}
        /\ \/ Goto(c, IF c \in Joins THEN "ensure" ELSE "start")
           \/ Fails(c)
     \/ Fails(c) /\ UNCHANGED <<cont, excused>>
  /\ UNCHANGED <<image, on, nets, made, cache, nid, closers, disturbed>>

Joining(c, id) == nid' = [nid EXCEPT ![c] = id] /\ Goto(c, "connect")

\* ensure_network_get_id: the cache is looked at and let go of
Ensure(c) ==
  /\ pc[c] = "ensure"
  /\ IF cache # NoId
     THEN Joining(c, cache) /\ UNCHANGED disturbed
     ELSE /\ Goto(c, "list") /\ UNCHANGED nid
          /\ disturbed' = (disturbed \/ \E d \in Containers \ {c} :
                                           pc[d] \in Ensuring)
  /\ UNCHANGED <<daemon, cache, closers, excused>>

\* the first network listed is taken; an answer that is not a 200 list counts
\* as an empty one
List(c) ==
  /\ pc[c] = "list"
  /\ \/ \E id \in nets : Joining(c, id) /\ cache' = id
     \/ Goto(c, "createNet") /\ UNCHANGED <<nid, cache>>
     \/ Fails(c) /\ UNCHANGED <<nid, cache>>
  /\ UNCHANGED <<daemon, closers, history>>

\* Mutant of CreateNet: the new id is not remembered
CreateNetUncached(c) ==
  /\ pc[c] = "createNet"
  /\ \/ /\ made < MaxNets
        /\ made' = made + 1 /\ nets' = nets \cup {made'}
        /\ Joining(c, made')
     \/ Fails(c) /\ UNCHANGED <<nid, nets, made>>
  /\ UNCHANGED <<image, cont, on, cache, closers, history>>

\* daemons differ in whether they make a second network of the same name
CreateNet(c) ==
  /\ pc[c] = "createNet"
  /\ \/ /\ made < MaxNets
        /\ made' = made + 1 /\ nets' = nets \cup {made'}
        /\ \/ Joining(c, made') /\ cache' = made'
           \/ Fails(c) /\ UNCHANGED <<nid, cache>>
     \/ Fails(c) /\ UNCHANGED <<nid, cache, nets, made>>
  /\ UNCHANGED <<image, cont, on, closers, history>>

\* connect_network; a failure here, or above, ends create() with the
\* container made
Connect(c) ==
  /\ pc[c] = "connect"
  /\ \/ /\ nid[c] \in nets /\ cont[c] # "none"
        /\ on' = [on EXCEPT ![c] = nid[c]]
        /\ Goto(c, "start")
     \/ Fails(c) /\ UNCHANGED on
  /\ UNCHANGED <<image, cont, nets, made, cache, nid, closers, history>>

-----------------------------------------------------------------------------
(* start, stop, remove                                                     *)

Start(c) ==
  /\ pc[c] = "start"
  /\ \/ /\ cont[c] # "none" /\ Becomes(c, "running")
        /\ Goto(c, "up") \/ Goto(c, "undoStop")
     \/ Goto(c, "undoStop") /\ UNCHANGED cont
  /\ UNCHANGED <<image, on, nets, made, cache, nid, closers, history>>

Halted(c) == IF cont[c] = "running" THEN "created" ELSE cont[c]

\* both are best-effort; create_started_container calls them after a failed
\* start, the guard's stop or cleanup_sync at the end
StopRequest(c) ==
  /\ pc[c] \in {"undoStop", "stop"}
  /\ \E s \in Unanswered(cont[c], Halted(c)) : Becomes(c, s)
  /\ Goto(c, IF pc[c] = "stop" THEN "remove" ELSE "undoRemove")
  /\ UNCHANGED <<image, on, nets, made, cache, nid, closers, history>>

Leaves(S) == on' = [c \in Containers |-> IF c \in S THEN NoId ELSE on[c]]

\* DELETE with force, from an async call or, for a dropped guard, from the
\* cleanup thread's blocking client
Removed(c) == Becomes(c, "none") /\ Leaves({c})

RemoveRequest(c) ==
  /\ pc[c] \in {"undoRemove", "remove"}
  /\ \/ Removed(c)
     \/ UNCHANGED <<cont, on>>
  /\ Goto(c, IF pc[c] = "remove" THEN "stopped" ELSE "failed")
  /\ UNCHANGED <<image, nets, made, cache, nid, closers, history>>

\* stop() or Drop of the guard, which let a kept container be
Stop(c) ==
  /\ pc[c] = "up" /\ c \notin KeepAlive
  /\ Goto(c, "stop")
  /\ UNCHANGED <<daemon, cache, nid, closers, history>>

-----------------------------------------------------------------------------
(* Network::close, through remove_network                                  *)

CloseNetwork ==
  /\ netpc = "idle" /\ made > 0
  /\ netid' = cache /\ cache' = NoId
  /\ netpc' = IF cache = NoId THEN "lookup" ELSE "delete"
  /\ disturbed' = TRUE
  /\ UNCHANGED <<daemon, pc, nid, closing, listed, excused>>

LookupNetwork ==
  /\ netpc = "lookup"
  /\ \/ \E id \in nets : netid' = id /\ netpc' = "delete"
     \/ netpc' = "idle" /\ UNCHANGED netid
  /\ UNCHANGED <<daemon, cache, pc, nid, closing, listed, history>>

\* the daemon refuses while a running container is on the network
DeleteNetwork ==
  /\ netpc = "delete"
  /\ \/ /\ ~\E c \in Containers : on[c] = netid /\ cont[c] = "running"
        /\ nets' = nets \ {netid}
        /\ Leaves({c \in Containers : on[c] = netid})
     \/ UNCHANGED <<nets, on>>
  /\ netpc' = "idle"
  /\ UNCHANGED <<image, cont, made, cache, pc, nid, netid, closing, listed,
                 history>>

-----------------------------------------------------------------------------
(* The backend's close()                                                   *)

\* Mutant of Labelled: every container gets the run's label
LabelledAll == {c \in Containers : cont[c] # "none"}

\* build_create_body: a kept container does not carry the run's label
Labelled == {c \in Containers : cont[c] # "none"} \ KeepAlive

\* Mutant of CloseList: only what create() returned a handle for
CloseListHandles ==
  /\ closing = "no"
  /\ listed' = {c \in Labelled : pc[c] \in {"up", "start", "stop", "remove"}}
  /\ closing' = "delete"
  /\ UNCHANGED <<daemon, cache, pc, nid, netpc, netid, history>>

CloseList ==
  /\ closing = "no"
  /\ \/ listed' = Labelled /\ closing' = "delete" /\ UNCHANGED excused
     \/ /\ closing' = "done" /\ UNCHANGED listed
        /\ excused' = excused \cup {c \in Containers : cont[c] # "none"}
  /\ UNCHANGED <<daemon, cache, pc, nid, netpc, netid, disturbed>>

CloseDelete ==
  /\ closing = "delete" /\ listed # {}
  /\ \E c \in listed :
       /\ listed' = listed \ {c}
       /\ \/ Removed(c) /\ UNCHANGED excused
          \/ UNCHANGED <<cont, on>> /\ excused' = excused \cup {c}
  /\ UNCHANGED <<image, nets, made, cache, pc, nid, netpc, netid, closing,
                 disturbed>>

CloseEnds ==
  /\ closing = "delete" /\ listed = {}
  /\ closing' = "done"
  /\ UNCHANGED <<daemon, cache, pc, nid, netpc, netid, listed, history>>

-----------------------------------------------------------------------------

Call(c) ==
  \/ Inspect(c) \/ Pull(c) \/ PullAgain(c) \/ Create(c)
  \/ Ensure(c) \/ List(c) \/ CreateNet(c) \/ Connect(c)
  \/ Start(c) \/ StopRequest(c) \/ RemoveRequest(c)

Network == CloseNetwork \/ LookupNetwork \/ DeleteNetwork
Close == CloseList \/ CloseDelete \/ CloseEnds

Next ==
  \/ \E c \in Containers : Begin(c) \/ Call(c) \/ Stop(c)
  \/ Network \/ Close

Spec == Init /\ [][Next]_vars

-----------------------------------------------------------------------------

\* A container is created only once its image is there, although a pull that
\* failed is reported in the stream of a response with status 200
ImagePulled == \A c \in Containers : pc[c] = "create" => image

\* close() finds every container the run has left at the daemon, also those
\* whose create() failed half-way or whose answer was lost: nothing it could
\* see, and could remove, is left behind
CloseSweeps ==
  closing = "done" =>
    \A c \in Containers \ KeepAlive : cont[c] # "none" => c \in excused

\* A kept container survives its guard and the close() of its process
KeptRuns ==
  \A c \in KeepAlive : pc[c] = "up" => cont[c] = "running"

\* The members of a network are all on one daemon network, unless two of them
\* looked it up at the same time or it was closed in between
SameNetwork ==
  ~disturbed =>
    \A c, d \in Joins :
      pc[c] = "up" /\ pc[d] = "up" /\ NoId \notin {on[c], on[d]}
        => on[c] = on[d]

=============================================================================

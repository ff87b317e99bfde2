------------------------------ MODULE PortPool ------------------------------
(***************************************************************************)
(* What the port bookkeeping of the library promises: a host port belongs  *)
(* to one container at a time, it is taken from the free ones, and only    *)
(* the container that holds it gives it back.                              *)
(***************************************************************************)
CONSTANTS Ports, Containers

VARIABLES free,   \* ports nobody holds
          held    \* held[c]: ports container c holds

poolVars == <<free, held>>

Init ==
  /\ free = Ports
  /\ held = [c \in Containers |-> {}]

Take(c, p) ==
  /\ p \in free
  /\ free' = free \ {p}
  /\ held' = [held EXCEPT ![c] = @ \cup {p}]

Give(c) ==
  \E S \in SUBSET held[c] :
    /\ S # {}
    /\ free' = free \cup S
    /\ held' = [held EXCEPT ![c] = @ \ S]

Next ==
  \E c \in Containers : Give(c) \/ \E p \in Ports : Take(c, p)

Spec == Init /\ [][Next]_poolVars
=============================================================================

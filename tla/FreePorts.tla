------------------------------ MODULE FreePorts ------------------------------
(***************************************************************************)
(* The in-process allocator of host ports                                  *)
(* (crates/rightsize/src/free_ports.rs) and the port table of the host it  *)
(* probes.  A port stands for a (protocol, number) pair: TCP and UDP have  *)
(* a table and an issued set each, and nothing relates the two.            *)
(***************************************************************************)
CONSTANTS Ports,       \* the ephemeral ports of the host
          Containers,  \* Container::start() calls, each with the guard it returns
          Stranger,    \* any other process of the host
          Nobody

Holders == Containers \cup {Stranger, Nobody}

VARIABLES issued,  \* FreePorts::issued, issued_udp
          bound    \* bound[p]: whose sandbox has the host port bound

portVars == <<issued, bound>>

PortsTypeOK ==
  /\ issued \subseteq Ports
  /\ bound \in [Ports -> Holders]

PortsInit ==
  /\ issued = {}
  /\ bound = [p \in Ports |-> Nobody]

\* what a bind to 127.0.0.1:0 can come back with
Offered == {p \in Ports : bound[p] = Nobody}

Fresh == Offered \ issued

\* the bind fails, or MAX_ALLOCATE_ATTEMPTS binds all come back with an
\* issued port
Exhausted == Offered = {} \/ Offered \cap issued # {}

\* the issued set after release has been called for every port in S
Returned(S) == issued \ S

\* bound after the sandbox of c is gone
Unbound(c) == [p \in Ports |-> IF bound[p] = c THEN Nobody ELSE bound[p]]
=============================================================================
